--------------------------- MODULE FileDataProofs ---------------------------
(***************************************************************************)
(* Theorems about module FileData, for any sizes of the buffers, the cache *)
(* and the packets, any file and any number of transfers and local changes.*)
(***************************************************************************)
EXTENDS FileData, TLAPS, SequenceTheorems

Bytes  == 0..2 * MaxSize
Octet  == -2..2 * MaxSize   \* a byte of a file, of a header, or none
Pages  == {-1} \cup {k * CacheSize : k \in 0..2 * MaxSize}
Reads  == {"get", "partial"}
Writes == {"send", "send_partial"}

\* buildconf.h:11 asks for it; the values of umtprd.conf are not checked against it.
BufferFits == TxBuffer <= CacheSize

FilesTyped ==
  /\ conf \in Confs
  /\ file \in Seq(Bytes) /\ Len(file) <= MaxSize /\ size \in 0..MaxSize
  /\ base \in Seq(Bytes) /\ locals \in Nat /\ low \in 0..Len(file)

\* What a transfer has read or received lies within the largest file.
DataTyped ==
  /\ offset \in 0..MaxSize /\ actual \in -Word..MaxSize
  /\ actual > 0 => offset + actual <= MaxSize
  /\ IF actual >= 0 THEN done \in 0..actual
     ELSE op = "partial" /\ pc \in {"overrun", "respond"} /\ actual = AsInt(asked)
  /\ asked \in Nat /\ announced \in Nat
  /\ page \in Pages /\ cache \in [0..CacheSize - 1 -> Octet]
  /\ out \in Seq(Octet) /\ Len(out) <= TxBuffer
  /\ wire \in Seq(Octet) /\ writes \in Seq(Nat)

PhaseTyped ==
  /\ fd \in BOOLEAN /\ cancelled \in BOOLEAN /\ failed \in BOOLEAN
  /\ pc \in {"idle", "block", "write", "overrun", "verdict", "read", "stored", "respond"}
  /\ op \in {"none", "info"} \cup Reads \cup Writes
  /\ resp \in {"none", "ok", "incomplete", "no_response"}
  /\ pc \notin {"idle", "respond"} => fd /\ resp = "none"
  /\ pc = "idle" <=> op \in {"none", "info"}
  /\ pc = "idle" => resp = "none" /\ page = NoPage /\ low = 0
  /\ pc \in {"block", "write", "overrun", "verdict"} => op \in Reads
  /\ pc \in {"read", "stored"} => op \in Writes
  /\ pc = "overrun" => op = "partial" /\ actual < 0

Typed == FilesTyped /\ DataTyped /\ PhaseTyped

-----------------------------------------------------------------------------
(* Sequences and pages.                                                     *)

\* A function on 1..n is a sequence of length n.
LEMMA MadeSeq ==
  ASSUME NEW S, NEW n \in Nat, NEW s, s \in [1..n -> S]
  PROVE  s \in Seq(S) /\ Len(s) = n /\ DOMAIN s = 1..n
  OBVIOUS

\* A sequence is a function on the numbers up to its length.
LEMMA SeqParts ==
  ASSUME NEW S, NEW s \in Seq(S)
  PROVE  /\ Len(s) \in Nat /\ DOMAIN s = 1..Len(s)
         /\ \A k \in 1..Len(s) : s[k] \in S
  BY LenProperties, ElementOfSeq

\* The page of a position is the one it lies in.
LEMMA PageFacts ==
  ASSUME NEW x \in Nat
  PROVE  \E k \in 0..x :
           /\ PageOf(x) = k * CacheSize
           /\ PageOf(x) \in Nat /\ PageOf(x) <= x /\ x < PageOf(x) + CacheSize
  <1>1. CacheSize \in Nat \ {0} BY FileDataAssumption
  <1>2. x \div CacheSize \in 0..x BY <1>1
  <1>3. (x \div CacheSize) * CacheSize <= x /\ x < (x \div CacheSize) * CacheSize + CacheSize
    BY <1>1
  <1>4. (x \div CacheSize) * CacheSize \in Nat BY <1>1, <1>2
  <1> QED BY <1>2, <1>3, <1>4 DEF PageOf

\* The page that an offset of a file lies in.
LEMMA FirstPage ==
  ASSUME NEW x \in 0..MaxSize PROVE PageOf(x) \in Pages /\ PageOf(x) \in Nat
  <1>1. MaxSize \in Nat /\ x \in Nat BY FileDataAssumption
  <1>2. PICK k \in 0..x : PageOf(x) = k * CacheSize /\ PageOf(x) \in Nat BY <1>1, PageFacts
  <1>3. k \in 0..2 * MaxSize BY <1>1
  <1> QED BY <1>2, <1>3 DEF Pages

\* A file that is cut or extended keeps the bytes both have.
LEMMA ResizedFacts ==
  ASSUME NEW f \in Seq(Bytes), NEW n \in 0..MaxSize, MaxSize \in Nat
  PROVE  /\ Resized(f, n) \in Seq(Bytes) /\ Len(Resized(f, n)) = n
         /\ \A p \in 1..n : p <= Len(f) => Resized(f, n)[p] = f[p]
  <1> DEFINE r == Resized(f, n)
  <1>1. \A k \in 1..Len(f) : f[k] \in Bytes BY SeqParts
  <1>2. r \in [1..n -> Bytes] BY <1>1, SeqParts DEF Resized, Bytes, Blank
  <1>3. r \in Seq(Bytes) /\ Len(r) = n BY <1>2, MadeSeq
  <1>4. \A p \in 1..n : p <= Len(f) => r[p] = f[p] BY DEF Resized
  <1> QED BY <1>3, <1>4

\* What a write leaves of a file: the bytes written, the others as they were.
LEMMA WrittenFacts ==
  ASSUME NEW f \in Seq(Bytes), NEW o \in Nat, NEW b \in Seq(Bytes), b # <<>>, MaxSize \in Nat
  PROVE  /\ Written(f, o, b) \in Seq(Bytes)
         /\ Len(Written(f, o, b)) = Maximum(Len(f), o + Len(b))
         /\ \A p \in 1..Maximum(Len(f), o + Len(b)) :
              Written(f, o, b)[p] = IF p \in o + 1..o + Len(b) THEN b[p - o]
                                    ELSE IF p <= Len(f) THEN f[p] ELSE Blank
  <1> DEFINE w == Written(f, o, b)
             m == Maximum(Len(f), o + Len(b))
  <1>1. Len(f) \in Nat /\ Len(b) \in Nat /\ m \in Nat BY SeqParts DEF Maximum
  <1>2. w = [p \in 1..m |-> IF p \in o + 1..o + Len(b) THEN b[p - o]
                            ELSE IF p <= Len(f) THEN f[p] ELSE Blank]
    BY DEF Written
  <1>3. \A k \in 1..Len(f) : f[k] \in Bytes BY SeqParts
  <1>4. \A k \in 1..Len(b) : b[k] \in Bytes BY SeqParts
  <1>5. \A p \in 1..m : (IF p \in o + 1..o + Len(b) THEN b[p - o]
                         ELSE IF p <= Len(f) THEN f[p] ELSE Blank) \in Bytes
    <2> TAKE p \in 1..m
    <2>1. p \in o + 1..o + Len(b) => p - o \in 1..Len(b) BY <1>1
    <2>2. p <= Len(f) => p \in 1..Len(f) BY <1>1
    <2>3. Blank \in Bytes BY DEF Blank, Bytes
    <2> QED BY <1>3, <1>4, <2>1, <2>2, <2>3
  <1>6. w \in [1..m -> Bytes] BY <1>2, <1>5, Zenon
  <1>7. w \in Seq(Bytes) /\ Len(w) = m BY <1>1, <1>6, MadeSeq
  <1> QED BY <1>2, <1>7

\* A page that is read into the cache.
LEMMA LoadedFacts ==
  ASSUME NEW c \in [0..CacheSize - 1 -> Octet], NEW o \in Nat, file \in Seq(Bytes), MaxSize \in Nat
  PROVE  /\ Loaded(c, o) \in [0..CacheSize - 1 -> Octet]
         /\ \A b \in 0..CacheSize - 1 : o + b + 1 <= Len(file) => Loaded(c, o)[b] = file[o + b + 1]
  <1>1. CacheSize \in Nat \ {0} BY FileDataAssumption
  <1>2. Len(file) \in Nat /\ \A k \in 1..Len(file) : file[k] \in Bytes BY SeqParts
  <1>3. \A b \in 0..CacheSize - 1 : o + b < Len(file) => file[o + b + 1] \in Octet
    BY <1>1, <1>2 DEF Bytes, Octet
  <1>4. Loaded(c, o) \in [0..CacheSize - 1 -> Octet] BY <1>3 DEF Loaded
  <1>5. \A b \in 0..CacheSize - 1 : o + b + 1 <= Len(file) => Loaded(c, o)[b] = file[o + b + 1]
    BY <1>1, <1>2 DEF Loaded
  <1> QED BY <1>4, <1>5

\* Bytes taken from the cache: its own where they all lie in it.
LEMMA FromCacheFacts ==
  ASSUME NEW c \in [0..CacheSize - 1 -> Octet], NEW b \in Nat, NEW n \in Nat, MaxSize \in Nat
  PROVE  /\ FromCache(c, b, n) \in Seq(Octet) /\ Len(FromCache(c, b, n)) = n
         /\ b + n <= CacheSize => \A k \in 1..n : FromCache(c, b, n)[k] = c[b + k - 1]
  <1> DEFINE s == FromCache(c, b, n)
  <1>1. CacheSize \in Nat \ {0} BY FileDataAssumption
  <1>2. \A k \in 1..n : b + k <= CacheSize => b + k - 1 \in 0..CacheSize - 1 BY <1>1
  <1>3. Stray \in Octet BY DEF Stray, Octet
  <1>4. s \in [1..n -> Octet] BY <1>2, <1>3 DEF FromCache
  <1>5. s \in Seq(Octet) /\ Len(s) = n BY <1>4, MadeSeq
  <1>6. ASSUME b + n <= CacheSize, NEW k \in 1..n PROVE s[k] = c[b + k - 1]
    <2>1. b + k <= CacheSize BY <1>1, <1>6
    <2> QED BY <2>1 DEF FromCache
  <1> QED BY <1>5, <1>6

\* The bytes the host sends.
LEMMA NextBytesFacts ==
  ASSUME NEW n \in Nat, NEW d \in Nat, done' = d, n <= d, d <= MaxSize, MaxSize \in Nat
  PROVE  /\ NextBytes(n) \in Seq(Bytes) /\ Len(NextBytes(n)) = n
         /\ \A k \in 1..n : NextBytes(n)[k] = Sent(d - n + k)
  <1> DEFINE s == NextBytes(n)
  <1>1. s = [k \in 1..n |-> Sent(d - n + k)] BY DEF NextBytes
  <1>2. \A k \in 1..n : MaxSize + (d - n + k) \in 0..2 * MaxSize OBVIOUS
  <1>3. \A k \in 1..n : Sent(d - n + k) \in Bytes BY <1>2 DEF Sent, Bytes
  <1>4. s \in [1..n -> Bytes] BY <1>1, <1>3
  <1>5. s \in Seq(Bytes) /\ Len(s) = n BY <1>4, MadeSeq
  <1> QED BY <1>1, <1>5

-----------------------------------------------------------------------------
(* Types.                                                                   *)

\* What the proofs use of the sizes.
LEMMA Sizes ==
  /\ MaxSize \in Nat /\ CacheSize \in Nat \ {0} /\ HeaderSize \in Nat \ {0}
  /\ PacketSize \in Nat \ {0} /\ Word \in Nat \ {0} /\ Word % PacketSize = 0
  /\ TxBuffer \in Nat /\ TxBuffer > HeaderSize /\ TxBuffer % PacketSize = 0
  /\ RxBuffer \in Nat /\ RxBuffer > HeaderSize
  BY FileDataAssumption

\* A step of GetObject or GetPartialObject of q bytes, which come as n.
Gets(what, o, n, q) ==
  /\ what \in Reads /\ o \in 0..MaxSize /\ q \in Nat
  /\ n \in -Word..Maximum(Word, MaxSize)
  /\ IF n >= 0 THEN n = q ELSE what = "partial" /\ n = AsInt(q)
  /\ asked' = q
  /\ Get(what, o, n)

\* A step of SendObject or SendPartialObject that takes the first data.
Receives(what, o, n, got) ==
  /\ what \in Writes /\ n \in 0..MaxSize /\ o \in 0..MaxSize /\ o + n <= MaxSize
  /\ got \in 0..n
  /\ what = "send" => op = "info" /\ o = 0
  /\ got \in FirstData(n)
  /\ Receive(what, o, n, got)

\* The steps, by the action they take.
LEMMA Kinds ==
  ASSUME FilesTyped, Next
  PROVE  \/ \E what, o, n, q : Gets(what, o, n, q)
         \/ \E what \in Reads : OpenFails(what)
         \/ Block \/ ReadFails \/ Write \/ GetVerdict \/ Respond
         \/ Overrun \/ OverrunKills \/ SendObjectInfo
         \/ \E what, o, n, got : Receives(what, o, n, got)
         \/ EndEditObject \/ ReadUsb \/ ReadEnds \/ SendVerdict
         \/ \E n \in 0..MaxSize : TruncateObject(n)
         \/ Stat \/ Cancel
         \/ \E n \in 0..MaxSize : LocalResize(n)
  <1>1. conf.size \in 0..MaxSize /\ MaxSize \in Nat /\ 0..conf.size \subseteq 0..MaxSize
    BY FileDataAssumption DEF FilesTyped
  <1>2. CASE "get" \in conf.uses /\ (GetObject \/ OpenFails("get"))
    <2>1. CASE OpenFails("get") BY <2>1 DEF Reads
    <2>2. CASE GetObject
      <3>1. size \in 0..MaxSize /\ 0 \in 0..MaxSize BY Sizes DEF FilesTyped
      <3>2. size \in Nat /\ size \in -Word..Maximum(Word, MaxSize) /\ size >= 0
        BY <3>1, Sizes DEF Maximum
      <3>3. Gets("get", 0, size, size) BY <2>2, <3>1, <3>2 DEF Gets, GetObject, Reads
      <3> QED BY <3>3
    <2> QED BY <1>2, <2>1, <2>2
  <1>3. CASE OpenFails("partial") BY <1>3 DEF Reads
  <1>4. CASE \E o \in 0..conf.size, n \in 0..Word - 1 : GetPartialObject(o, n)
    <2>1. PICK o \in 0..conf.size, n \in 0..Word - 1 : GetPartialObject(o, n) BY <1>4
    <2>2. o \in 0..MaxSize /\ n \in Nat BY <1>1, Sizes
    <2>3. /\ AsInt(n) \in -Word..Maximum(Word, MaxSize)
          /\ AsInt(n) >= 0 => AsInt(n) = n
      BY Sizes DEF AsInt, Maximum
    <2>4. Gets("partial", o, AsInt(n), n) BY <2>1, <2>2, <2>3 DEF Gets, GetPartialObject, Reads
    <2> QED BY <2>4
  <1>5. CASE \E n \in 0..conf.size : op = "info" /\ SendObject(n)
    <2>1. PICK n \in 0..conf.size : op = "info" /\ SendObject(n) BY <1>5
    <2>2. PICK got \in FirstData(n) : Receive("send", 0, n, got) BY <2>1 DEF SendObject
    <2>3. n \in 0..MaxSize /\ 0 \in 0..MaxSize /\ 0 + n <= MaxSize BY <1>1
    <2>4. got \in 0..n BY <2>2, <2>3, Sizes DEF FirstData, Minimum
    <2>5. Receives("send", 0, n, got) BY <2>1, <2>2, <2>3, <2>4 DEF Receives, Writes
    <2> QED BY <2>5
  <1>6. CASE \E o, n \in 0..conf.size : o + n <= conf.size /\ SendPartialObject(o, n)
    <2>1. PICK o \in 0..conf.size, n \in 0..conf.size :
            o + n <= conf.size /\ SendPartialObject(o, n) BY <1>6
    <2>2. PICK got \in FirstData(n) : Receive("send_partial", o, n, got)
      BY <2>1 DEF SendPartialObject
    <2>3. o \in 0..MaxSize /\ n \in 0..MaxSize /\ o + n <= MaxSize BY <1>1, <2>1
    <2>4. got \in 0..n BY <2>2, <2>3, Sizes DEF FirstData, Minimum
    <2>5. Receives("send_partial", o, n, got) BY <2>2, <2>3, <2>4 DEF Receives, Writes
    <2> QED BY <2>5
  <1>7. CASE \E n \in 0..conf.size : TruncateObject(n) BY <1>1, <1>7
  <1>8. CASE \E n \in 0..conf.size : LocalResize(n) BY <1>1, <1>8
  <1>9. CASE \/ Block \/ ReadFails \/ Write \/ GetVerdict \/ Respond
             \/ Overrun \/ OverrunKills \/ SendObjectInfo \/ EndEditObject \/ ReadUsb \/ ReadEnds \/ SendVerdict
             \/ Stat \/ Cancel
    BY <1>9
  <1> QED BY <1>2, <1>3, <1>4, <1>5, <1>6, <1>7, <1>8, <1>9 DEF Next

\* What is sent lies within the entry's size, or is a negative length itself.
LEMMA ToSendFacts ==
  ASSUME NEW o \in Nat, NEW n \in Int, size \in Nat
  PROVE  /\ n >= 0 => /\ ToSend(o, n) \in 0..size /\ (ToSend(o, n) > 0 => o + ToSend(o, n) <= size)
                      /\ ToSend(o, n) = Minimum(n, Maximum(0, size - o))
         /\ n < 0 => ToSend(o, n) \in {0, n}
         /\ o >= size => ToSend(o, n) = 0
  BY DEF ToSend, Minimum, Maximum

\* Initially.
LEMMA InitTyped == Init => Typed
  <1> SUFFICES ASSUME Init PROVE Typed OBVIOUS
  <1>1. PICK n \in 0..conf.size : file = [p \in 1..n |-> Old(p)] BY DEF Init
  <1>2. conf \in Confs /\ conf.size \in 0..MaxSize BY FileDataAssumption DEF Init
  <1>3. n \in 0..MaxSize BY <1>2, Sizes
  <1>4. file \in [1..n -> Bytes] BY <1>1, <1>3, Sizes DEF Old, Bytes
  <1>5. file \in Seq(Bytes) /\ Len(file) = n BY <1>3, <1>4, MadeSeq
  <1>6. FilesTyped BY <1>2, <1>3, <1>5, Sizes DEF Init, FilesTyped
  <1>7. cache \in [0..CacheSize - 1 -> Octet] BY Sizes DEF Init, NewCache, Octet, Blank
  <1>8. DataTyped BY <1>7, Sizes DEF Init, DataTyped, Pages
  <1>9. PhaseTyped BY DEF Init, PhaseTyped, NoPage, Reads, Writes
  <1> QED BY <1>6, <1>8, <1>9 DEF Typed

\* send_file_data starts.
LEMMA GetTyped ==
  ASSUME Typed, NEW what, NEW o, NEW n, NEW q, Gets(what, o, n, q)
  PROVE  Typed'
  <1> USE DEF Gets, Get, Begins, Fine
  <1>1. /\ size \in 0..MaxSize /\ o \in Nat /\ o \in 0..MaxSize /\ n \in Int /\ size \in Nat
        /\ -Word <= n /\ q \in Nat /\ what \in Reads
    BY Sizes DEF Typed, FilesTyped, Maximum
  <1>2. /\ ToSend(o, n) \in -Word..MaxSize
        /\ ToSend(o, n) > 0 => o + ToSend(o, n) <= MaxSize
        /\ ToSend(o, n) < 0 => n < 0 /\ ToSend(o, n) = n
    <2>1. PICK t : t = ToSend(o, n) OBVIOUS
    <2>2. /\ n >= 0 => t \in 0..size /\ (t > 0 => o + t <= size)
          /\ n < 0 => t \in {0, n}
      BY <1>1, <2>1, ToSendFacts
    <2>3. /\ t \in -Word..MaxSize
          /\ t > 0 => o + t <= MaxSize
          /\ t < 0 => n < 0 /\ t = n
      BY <1>1, <2>2, Sizes
    <2> QED BY <2>1, <2>3
  <1>3. Len(file) \in Nat BY SeqParts DEF Typed, FilesTyped
  <1>4. FilesTyped' BY <1>3 DEF Typed, FilesTyped
  <1>5. announced' \in Nat BY <1>2, Sizes
  <1>6. DataTyped'
    <2>1. offset' = o /\ actual' = ToSend(o, n) /\ done' = 0 /\ asked' = q /\ op' = what
          /\ page' = NoPage /\ cache' = cache /\ out' = <<>> /\ wire' = <<>> /\ writes' = <<>>
          /\ pc' = IF ToSend(o, n) < 0 THEN "overrun" ELSE "block"
      OBVIOUS
    <2>2. ToSend(o, n) < 0 => what = "partial" /\ n = AsInt(q) BY <1>1, <1>2
    <2>3. page' \in Pages /\ cache' \in [0..CacheSize - 1 -> Octet]
      BY <2>1 DEF Typed, DataTyped, Pages, NoPage
    <2>4. AsInt(asked)' = AsInt(q) BY <2>1 DEF AsInt
    <2>5. IF actual' >= 0 THEN done' \in 0..actual'
          ELSE op' = "partial" /\ pc' \in {"overrun", "respond"} /\ actual' = AsInt(asked)'
      BY <1>2, <2>1, <2>2, <2>4, Sizes
    <2>6. /\ out' \in Seq(Octet) /\ Len(out') <= TxBuffer
          /\ wire' \in Seq(Octet) /\ writes' \in Seq(Nat)
      BY <2>1, EmptySeq, Sizes
    <2> QED BY <1>1, <1>2, <1>5, <2>1, <2>3, <2>5, <2>6 DEF DataTyped
  <1>7. PhaseTyped'
    <2>1. /\ op' = what /\ actual' = ToSend(o, n) /\ fd' = TRUE /\ cancelled' = cancelled
          /\ failed' = FALSE /\ resp' = "none"
          /\ pc' = IF ToSend(o, n) < 0 THEN "overrun" ELSE "block"
      OBVIOUS
    <2>2. pc' = "overrun" => op' = "partial" /\ actual' < 0 BY <1>1, <1>2, <2>1
    <2>3. pc' \in {"overrun", "block"} BY <2>1
    <2>4. cancelled' \in BOOLEAN BY <2>1 DEF Typed, PhaseTyped
    <2> QED BY <1>1, <2>1, <2>2, <2>3, <2>4 DEF PhaseTyped, Reads, Writes
  <1> QED BY <1>4, <1>6, <1>7 DEF Typed

\* What a turn of the loop works with: the header, if it is the first one; the
\* number of bytes it sends; the page they start in and where; the cache with
\* that page and with the one after it.
Lead     == IF done = 0 THEN [k \in 1..HeaderSize |-> Header] ELSE <<>>
Amount   == IF done + (TxBuffer - Len(Lead)) < actual THEN TxBuffer - Len(Lead)
            ELSE actual - done
At       == PageOf(offset + done)
Index    == offset + done - At
Here     == IF page = At THEN cache ELSE Loaded(cache, At)
After    == Loaded(Here, At + CacheSize)
WithinPage == Lead \o FromCache(Here, Index, Amount)
OverPages  == Lead \o FromCache(Here, Index, CacheSize - Index)
                   \o FromCache(After, 0, Amount - (CacheSize - Index))

\* What Block changes: the cache and the bytes to write, within a page or over its end.
LEMMA BlockParts ==
  ASSUME Block
  PROVE  /\ pc = "block" /\ pc' = "write" /\ done' = done + Amount
         /\ UNCHANGED <<conf, file, size, fd, op, offset, actual, wire, writes, announced,
                        cancelled, resp, history>>
         /\ Index + Amount < CacheSize => page' = At /\ cache' = Here /\ out' = WithinPage
         /\ ~(Index + Amount < CacheSize) =>
              page' = At + CacheSize /\ cache' = After /\ out' = OverPages
  BY DEF Block, Lead, Amount, At, Index, Here, After, WithinPage, OverPages, NextPage

\* The first block begins with the header of the data phase, the others with nothing.
LEMMA LeadFacts ==
  ASSUME DataTyped
  PROVE  /\ Lead \in Seq(Octet)
         /\ Len(Lead) = IF done = 0 THEN HeaderSize ELSE 0
         /\ \A k \in 1..Len(Lead) : Lead[k] = Header
  <1>1. CASE done = 0
    <2> DEFINE h == [k \in 1..HeaderSize |-> Header]
    <2>1. Header \in Octet BY Sizes DEF Header, Octet
    <2>2. h \in [1..HeaderSize -> Octet] BY <2>1
    <2>3. h \in Seq(Octet) /\ Len(h) = HeaderSize BY <2>2, Sizes, MadeSeq
    <2>4. \A k \in 1..HeaderSize : h[k] = Header OBVIOUS
    <2> QED BY <1>1, <2>3, <2>4 DEF Lead
  <1>2. CASE done # 0
    BY <1>2 DEF Lead
  <1> QED BY <1>1, <1>2

\* A block fills the USB buffer or is the last one.
LEMMA AmountFacts ==
  ASSUME Typed, pc = "block"
  PROVE  /\ Amount \in Nat /\ Len(Lead) + Amount <= TxBuffer /\ done + Amount <= actual
         /\ done + Amount = actual \/ Len(Lead) + Amount = TxBuffer
  <1>1. Len(Lead) \in Nat /\ Len(Lead) <= HeaderSize BY LeadFacts, Sizes DEF Typed
  <1>2. done \in Nat /\ actual \in Nat /\ done <= actual BY Sizes DEF Typed, DataTyped
  <1> QED BY <1>1, <1>2, Sizes DEF Amount

\* The block begins in page At, at Index.
LEMMA AtFacts ==
  ASSUME Typed, pc = "block"
  PROVE  At \in Nat /\ Index \in 0..CacheSize - 1 /\ At + Index = offset + done
  <1>1. PICK x \in Nat : x = offset + done BY Sizes DEF Typed, DataTyped
  <1>2. PageOf(x) \in Nat /\ PageOf(x) <= x /\ x < PageOf(x) + CacheSize BY PageFacts
  <1>3. At = PageOf(x) BY <1>1 DEF At
  <1>4. offset \in Nat /\ done \in Nat BY Sizes DEF Typed, DataTyped
  <1>5. Index = x - At BY <1>1, <1>2, <1>3, <1>4 DEF Index
  <1> QED BY <1>1, <1>2, <1>3, <1>5, Sizes

\* The pages that a block reads lie within the largest file and one page beyond.
LEMMA PageTyped ==
  ASSUME Typed, pc = "block"
  PROVE  At \in Pages /\ (Index + Amount >= CacheSize => At + CacheSize \in Pages)
  <1>1. PICK x \in Nat : x = offset + done BY Sizes DEF Typed, DataTyped
  <1>2. x <= MaxSize /\ (Amount > 0 => x + Amount <= MaxSize)
    <2>1. PICK a, d, c, o : a = Amount /\ d = done /\ c = actual /\ o = offset
      OBVIOUS
    <2>2. a \in Nat /\ d + a <= c
      BY <2>1, AmountFacts
    <2>3. /\ d \in Nat /\ c \in Nat /\ o \in Nat /\ d <= c /\ o <= MaxSize
          /\ c > 0 => o + c <= MaxSize
      BY <2>1, Sizes DEF Typed, DataTyped
    <2>4. x <= MaxSize /\ (a > 0 => x + a <= MaxSize)
      BY <1>1, <2>1, <2>2, <2>3, Sizes
    <2> QED BY <2>1, <2>4
  <1>3. PICK k \in 0..x : PageOf(x) = k * CacheSize BY PageFacts
  <1>4. At = k * CacheSize BY <1>1, <1>3 DEF At
  <1>5. k \in 0..2 * MaxSize /\ k \in Nat /\ k <= x BY <1>2, Sizes
  <1>6. At + CacheSize = (k + 1) * CacheSize BY <1>4, Sizes
  <1>7. Index + Amount >= CacheSize => k + 1 \in 0..2 * MaxSize
    <2>1. At \in Nat /\ Index \in Nat /\ Index < CacheSize /\ At + Index = x
      BY <1>1, AtFacts, Sizes
    <2>2. PICK i \in Nat, a \in Nat : i = Index /\ a = Amount
      BY <2>1, AmountFacts
    <2>3. i + a >= CacheSize => a > 0
      BY <2>1, <2>2, Sizes
    <2>4. i + a >= CacheSize => x + a <= MaxSize /\ a >= 1
      BY <1>2, <2>2, <2>3
    <2> QED BY <1>5, <2>2, <2>4, Sizes
  <1>8. At \in Pages BY <1>4, <1>5 DEF Pages
  <1>9. Index + Amount >= CacheSize => At + CacheSize \in Pages BY <1>6, <1>7 DEF Pages
  <1> QED BY <1>8, <1>9

\* What the cache holds after a read of a page: the bytes the file has there.
LEMMA CacheFacts ==
  ASSUME Typed, pc = "block"
  PROVE  /\ Here \in [0..CacheSize - 1 -> Octet] /\ After \in [0..CacheSize - 1 -> Octet]
         /\ page # At => \A b \in 0..CacheSize - 1 :
                           At + b + 1 <= Len(file) => Here[b] = file[At + b + 1]
         /\ \A b \in 0..CacheSize - 1 :
              At + CacheSize + b + 1 <= Len(file) => After[b] = file[At + CacheSize + b + 1]
  <1>1. At \in Nat /\ At + CacheSize \in Nat BY AtFacts, Sizes
  <1>2. file \in Seq(Bytes) /\ cache \in [0..CacheSize - 1 -> Octet]
    BY DEF Typed, FilesTyped, DataTyped
  <1>3. /\ Loaded(cache, At) \in [0..CacheSize - 1 -> Octet]
        /\ \A b \in 0..CacheSize - 1 :
             At + b + 1 <= Len(file) => Loaded(cache, At)[b] = file[At + b + 1]
    BY <1>1, <1>2, LoadedFacts, Sizes
  <1>4. Here \in [0..CacheSize - 1 -> Octet] BY <1>2, <1>3 DEF Here
  <1>5. /\ After \in [0..CacheSize - 1 -> Octet]
        /\ \A b \in 0..CacheSize - 1 :
             At + CacheSize + b + 1 <= Len(file) => After[b] = file[At + CacheSize + b + 1]
    BY <1>1, <1>2, <1>4, LoadedFacts, Sizes DEF After
  <1> QED BY <1>3, <1>4, <1>5 DEF Here

\* What it writes is the header and then as many bytes as it means to send.
LEMMA OutTyped ==
  ASSUME Typed, Block
  PROVE  out' \in Seq(Octet) /\ Len(out') = Len(Lead) + Amount
  <1>1. pc = "block" BY BlockParts
  <1>2. Lead \in Seq(Octet) /\ Len(Lead) \in Nat BY LeadFacts, Sizes DEF Typed
  <1>3. Amount \in Nat /\ Index \in Nat /\ CacheSize - Index \in Nat
    BY <1>1, AmountFacts, AtFacts, Sizes
  <1>4. Here \in [0..CacheSize - 1 -> Octet] /\ After \in [0..CacheSize - 1 -> Octet]
    BY <1>1, CacheFacts
  <1>5. CASE Index + Amount < CacheSize
    <2> DEFINE f == FromCache(Here, Index, Amount)
    <2>1. f \in Seq(Octet) /\ Len(f) = Amount BY <1>3, <1>4, FromCacheFacts, Sizes
    <2>2. out' = Lead \o f BY <1>5, BlockParts DEF WithinPage
    <2> HIDE DEF f
    <2> QED BY <1>2, <2>1, <2>2, ConcatProperties
  <1>6. CASE ~(Index + Amount < CacheSize)
    <2> DEFINE f == FromCache(Here, Index, CacheSize - Index)
               g == FromCache(After, 0, Amount - (CacheSize - Index))
    <2>1. f \in Seq(Octet) /\ Len(f) = CacheSize - Index BY <1>3, <1>4, FromCacheFacts, Sizes
    <2>2. Amount - (CacheSize - Index) \in Nat
      BY <1>3, <1>6, Sizes
    <2>3. g \in Seq(Octet) /\ Len(g) = Amount - (CacheSize - Index)
      BY <1>4, <2>2, FromCacheFacts, Sizes
    <2>4. out' = (Lead \o f) \o g BY <1>6, BlockParts DEF OverPages
    <2> HIDE DEF f, g
    <2>5. Lead \o f \in Seq(Octet) /\ Len(Lead \o f) = Len(Lead) + (CacheSize - Index)
      BY <1>2, <2>1, ConcatProperties
    <2>6. out' \in Seq(Octet) /\ Len(out') = Len(Lead \o f) + Len(g)
      BY <2>3, <2>4, <2>5, ConcatProperties
    <2> QED BY <1>2, <1>3, <2>3, <2>5, <2>6, Sizes
  <1> QED BY <1>5, <1>6

\* A turn of the loop.
LEMMA BlockTyped ==
  ASSUME Typed, Block
  PROVE  Typed'
  <1>1. pc = "block" /\ pc' = "write" /\ done' = done + Amount BY BlockParts
  <1>2. UNCHANGED <<conf, file, size, fd, op, offset, actual, wire, writes, announced,
                    cancelled, resp, history>> BY BlockParts
  <1>3. FilesTyped' BY <1>2 DEF Typed, FilesTyped, history
  <1>4. page' \in Pages
    <2>1. Index + Amount < CacheSize => page' = At BY BlockParts
    <2>2. ~(Index + Amount < CacheSize) => page' = At + CacheSize BY BlockParts
    <2>3. PICK x \in Nat, c \in Nat : x = Index + Amount /\ c = CacheSize
      BY <1>1, AmountFacts, AtFacts, Sizes
    <2>4. At \in Pages /\ (x >= c => At + CacheSize \in Pages)
      BY <1>1, <2>3, PageTyped
    <2>5. x < c \/ x >= c BY <2>3
    <2> QED BY <2>1, <2>2, <2>3, <2>4, <2>5
  <1>5. cache' \in [0..CacheSize - 1 -> Octet] BY <1>1, BlockParts, CacheFacts
  <1>6. out' \in Seq(Octet) /\ Len(out') <= TxBuffer
    <2>1. Len(Lead) + Amount <= TxBuffer BY <1>1, AmountFacts
    <2>2. out' \in Seq(Octet) /\ Len(out') = Len(Lead) + Amount BY OutTyped
    <2> QED BY <2>1, <2>2
  <1>7. done' \in 0..actual /\ actual >= 0
    <2>1. PICK a : a = Amount OBVIOUS
    <2>2. a \in Nat /\ done + a <= actual BY <1>1, <2>1, AmountFacts
    <2>3. done' = done + a BY <1>1, <2>1
    <2>4. actual \in Nat /\ done \in Nat BY <1>1, Sizes DEF Typed, DataTyped
    <2> QED BY <2>2, <2>3, <2>4
  <1>8. DataTyped' BY <1>2, <1>4, <1>5, <1>6, <1>7 DEF Typed, DataTyped, history
  <1>9. PhaseTyped' BY <1>1, <1>2 DEF Typed, PhaseTyped, history
  <1> QED BY <1>3, <1>8, <1>9 DEF Typed

\* A file after a write of what was received.
LEMMA WrittenTyped ==
  ASSUME NEW f \in Seq(Bytes), Len(f) <= MaxSize, NEW o \in Nat, NEW n \in Nat, NEW d \in Nat,
         done' = d, n <= d, d <= MaxSize, o + n <= MaxSize
  PROVE  /\ Written(f, o, NextBytes(n)) \in Seq(Bytes)
         /\ Len(Written(f, o, NextBytes(n))) \in Len(f)..MaxSize
  <1> DEFINE b == NextBytes(n)
  <1>1. b \in Seq(Bytes) /\ Len(b) = n BY NextBytesFacts, Sizes
  <1> HIDE DEF b
  <1>2. Len(f) \in Nat BY SeqParts
  <1>3. CASE b = <<>>
    <2>1. Written(f, o, b) = f BY <1>3 DEF Written
    <2> QED BY <1>2, <2>1, Sizes DEF b
  <1>4. CASE b # <<>>
    <2>1. Written(f, o, b) \in Seq(Bytes) /\ Len(Written(f, o, b)) = Maximum(Len(f), o + n)
      BY <1>1, <1>4, WrittenFacts, Sizes
    <2>2. Maximum(Len(f), o + n) \in Len(f)..MaxSize BY <1>2, Sizes DEF Maximum
    <2> QED BY <2>1, <2>2 DEF b
  <1> QED BY <1>3, <1>4

\* The first data of SendObject and SendPartialObject.
LEMMA ReceiveTyped ==
  ASSUME Typed, NEW what, NEW o, NEW n, NEW got, Receives(what, o, n, got)
  PROVE  Typed'
  <1> USE DEF Receives, Receive, Begins
  <1>1. /\ what \in Writes /\ n \in Nat /\ o \in Nat /\ o + n <= MaxSize
        /\ got \in Nat /\ got <= n /\ n <= MaxSize
    BY Sizes
  <1>f. PICK f : f = IF what = "send" /\ ~fd THEN <<>> ELSE file OBVIOUS
  <1>s. PICK stored \in {0, got} :
          /\ file' = Written(IF what = "send" /\ ~fd THEN <<>> ELSE file, o, NextBytes(stored))
          /\ failed' = (stored < got)
    OBVIOUS
  <1>2. file' = Written(f, o, NextBytes(stored)) /\ failed' = (stored < got) BY <1>f, <1>s
  <1>3. f \in Seq(Bytes) /\ Len(f) <= MaxSize
    BY <1>f, EmptySeq, Sizes DEF Typed, FilesTyped
  <1>4. stored \in Nat /\ stored <= got BY <1>1, <1>2
  <1>5. file' \in Seq(Bytes) /\ Len(file') <= MaxSize /\ Len(file') \in Nat
    <2>1. done' = got /\ o + stored <= MaxSize /\ got <= MaxSize BY <1>1, <1>4, Sizes
    <2>2. Len(f) \in Nat BY <1>3, SeqParts
    <2> QED BY <1>1, <1>2, <1>3, <1>4, <2>1, <2>2, WrittenTyped, Sizes
  <1>6. FilesTyped' BY <1>5 DEF Typed, FilesTyped
  <1>7. DataTyped'
    <2>1. /\ offset' = o /\ actual' = n /\ done' = got /\ asked' = n
          /\ UNCHANGED <<page, cache, out, wire, writes, announced>>
      OBVIOUS
    <2> QED BY <1>1, <2>1, Sizes DEF Typed, DataTyped
  <1>8. failed' \in BOOLEAN BY <1>2
  <1>9. op' = what /\ fd' = TRUE /\ resp' = "none" /\ pc' \in {"read", "stored"}
        /\ cancelled' = cancelled
    OBVIOUS
  <1>10. PhaseTyped' BY <1>1, <1>8, <1>9 DEF Typed, PhaseTyped, Reads, Writes
  <1> QED BY <1>6, <1>7, <1>10 DEF Typed

\* A read from USB.
LEMMA ReadUsbTyped ==
  ASSUME Typed, ReadUsb
  PROVE  Typed'
  <1>1. PICK got : got = Minimum(RxBuffer, actual - done) OBVIOUS
  <1>2. /\ pc = "read" /\ done' = done + got /\ pc' \in {"read", "stored"}
        /\ \/ file' = Written(file, offset + done, NextBytes(got)) /\ failed' = failed
           \/ file' = file /\ failed' \in {TRUE, failed}
        /\ UNCHANGED <<conf, size, fd, op, offset, actual, page, cache, out, wire, writes,
                       announced, cancelled, resp, locals, asked, base, low>>
    BY <1>1 DEF ReadUsb
  <1>3. done \in Nat /\ actual \in Nat /\ done <= actual /\ offset \in Nat /\ actual <= MaxSize
    BY <1>2, Sizes DEF Typed, DataTyped
  <1>4. got \in Nat /\ done + got <= actual BY <1>1, <1>3, Sizes DEF Minimum
  <1>5. file \in Seq(Bytes) /\ Len(file) <= MaxSize BY DEF Typed, FilesTyped
  <1>6. Len(file) \in Nat BY <1>5, SeqParts
  <1>7. file' \in Seq(Bytes) /\ Len(file') \in Len(file)..MaxSize
    <2>1. CASE got = 0
      <3>1. NextBytes(got) = <<>> BY <2>1 DEF NextBytes
      <3>2. file' = file BY <1>2, <3>1 DEF Written
      <3> QED BY <1>5, <1>6, <3>2, Sizes
    <2>2. CASE got # 0
      <3>1. offset + actual <= MaxSize BY <1>3, <1>4, <2>2, Sizes DEF Typed, DataTyped
      <3>2. PICK o \in Nat, d \in Nat : o = offset + done /\ d = done + got BY <1>3, <1>4
      <3>3. done' = d /\ got <= d /\ d <= MaxSize /\ o + got <= MaxSize
        BY <1>2, <1>3, <1>4, <3>1, <3>2, Sizes
      <3>4. /\ Written(file, o, NextBytes(got)) \in Seq(Bytes)
            /\ Len(Written(file, o, NextBytes(got))) \in Len(file)..MaxSize
        BY <1>4, <1>5, <3>3, WrittenTyped
      <3>5. file' = Written(file, o, NextBytes(got)) \/ file' = file BY <1>2, <3>2
      <3>6. Len(file) \in Len(file)..MaxSize BY <1>5, <1>6, Sizes
      <3> QED BY <1>5, <3>4, <3>5, <3>6
    <2> QED BY <2>1, <2>2
  <1>8. FilesTyped' BY <1>2, <1>6, <1>7, Sizes DEF Typed, FilesTyped
  <1>9. DataTyped' BY <1>2, <1>3, <1>4, Sizes DEF Typed, DataTyped
  <1>10. PhaseTyped' BY <1>2 DEF Typed, PhaseTyped
  <1> QED BY <1>8, <1>9, <1>10 DEF Typed

\* A change by a local user.
LEMMA ResizeTyped ==
  ASSUME Typed, NEW n \in 0..MaxSize, LocalResize(n)
  PROVE  Typed'
  <1>1. /\ file' = Resized(file, n) /\ locals' = locals + 1
        /\ low' = (IF pc = "idle" THEN low ELSE Minimum(low, n))
        /\ UNCHANGED <<conf, size, fd, op, pc, dataVars, cancelled, resp, asked, base, failed>>
    BY DEF LocalResize
  <1>2. Resized(file, n) \in Seq(Bytes) /\ Len(Resized(file, n)) = n
    BY ResizedFacts, Sizes DEF Typed, FilesTyped
  <1>3. low' \in 0..n BY <1>1, Sizes DEF Typed, FilesTyped, PhaseTyped, Minimum
  <1>4. FilesTyped' BY <1>1, <1>2, <1>3, Sizes DEF Typed, FilesTyped
  <1>5. DataTyped' BY <1>1 DEF Typed, DataTyped, AsInt, dataVars
  <1>6. PhaseTyped' BY <1>1 DEF Typed, PhaseTyped, dataVars, NoPage, Minimum
  <1> QED BY <1>4, <1>5, <1>6 DEF Typed

\* A USB write.
LEMMA WriteTyped ==
  ASSUME Typed, Write
  PROVE  Typed'
  <1>1. wire' \in Seq(Octet) /\ writes' \in Seq(Nat)
    <2>1. wire \in Seq(Octet) /\ out \in Seq(Octet) /\ writes \in Seq(Nat) /\ Len(out) \in Nat
      BY SeqParts DEF Typed, DataTyped
    <2>2. wire \o out \in Seq(Octet) BY <2>1, ConcatProperties
    <2>3. Append(writes, Len(out)) \in Seq(Nat) BY <2>1, AppendProperties
    <2> QED BY <2>1, <2>2, <2>3 DEF Write
  <1>2. FilesTyped' BY DEF Write, Typed, FilesTyped, history
  <1>3. DataTyped' BY <1>1 DEF Write, Typed, DataTyped, history
  <1>4. PhaseTyped' BY DEF Write, Typed, PhaseTyped, history
  <1> QED BY <1>2, <1>3, <1>4 DEF Typed

\* The other steps of a transfer.
LEMMA PhaseStepTyped ==
  ASSUME Typed,
         \/ \E what \in Reads : OpenFails(what)
         \/ ReadFails \/ GetVerdict \/ ReadEnds \/ SendVerdict \/ Respond
         \/ Overrun \/ OverrunKills
  PROVE  Typed'
  <1> USE DEF Typed, FilesTyped, DataTyped, AsInt, history, dataVars
  <1>1. CASE \E what \in Reads : OpenFails(what)
    <2> USE <1>1 DEF OpenFails, Begins
    <2>1. FilesTyped' OBVIOUS
    <2>2. DataTyped' BY EmptySeq, Sizes
    <2>3. PhaseTyped' BY DEF PhaseTyped, Reads, Writes
    <2> QED BY <2>1, <2>2, <2>3
  <1>2. CASE ReadFails
    <2>1. FilesTyped' BY <1>2 DEF ReadFails
    <2>2. DataTyped' BY <1>2 DEF ReadFails
    <2>3. PhaseTyped' BY <1>2 DEF ReadFails, PhaseTyped, Reads
    <2> QED BY <2>1, <2>2, <2>3
  <1>3. CASE GetVerdict
    <2>1. FilesTyped' BY <1>3 DEF GetVerdict
    <2>2. writes' \in Seq(Nat) BY <1>3, AppendProperties DEF GetVerdict
    <2>3. DataTyped' BY <1>3, <2>2 DEF GetVerdict
    <2>4. PhaseTyped' BY <1>3 DEF GetVerdict, PhaseTyped, Reads
    <2> QED BY <2>1, <2>3, <2>4
  <1>4. CASE ReadEnds
    <2>1. FilesTyped' BY <1>4 DEF ReadEnds
    <2>2. DataTyped' BY <1>4 DEF ReadEnds
    <2>3. PhaseTyped' BY <1>4 DEF ReadEnds, PhaseTyped, Writes
    <2> QED BY <2>1, <2>2, <2>3
  <1>5. CASE SendVerdict
    <2>1. Len(file) \in 0..MaxSize BY SeqParts, Sizes
    <2>2. FilesTyped' BY <1>5, <2>1 DEF SendVerdict
    <2>3. DataTyped' BY <1>5 DEF SendVerdict
    <2>4. PhaseTyped' BY <1>5 DEF SendVerdict, PhaseTyped, Writes
    <2> QED BY <2>2, <2>3, <2>4
  <1>6. CASE Respond
    <2>1. Len(file) \in Nat BY SeqParts
    <2>2. FilesTyped' BY <1>6, <2>1, EmptySeq DEF Respond, Cleared
    <2>3. DataTyped' BY <1>6, EmptySeq, Sizes DEF Respond, Cleared, Pages, NoPage
    <2>4. PhaseTyped' BY <1>6 DEF Respond, Cleared, PhaseTyped, Reads, Writes
    <2> QED BY <2>2, <2>3, <2>4
  <1>7. CASE OverrunKills
    <2>1. Len(file) \in 0..MaxSize /\ 0 \in 0..Len(file) BY SeqParts, Sizes
    <2>2. FilesTyped' BY <1>7, <2>1, EmptySeq DEF OverrunKills, Cleared
    <2>3. cache' \in [0..CacheSize - 1 -> Octet]
      BY <1>7, Sizes DEF OverrunKills, NewCache, Octet, Blank
    <2>4. DataTyped' BY <1>7, <2>3, EmptySeq, Sizes DEF OverrunKills, Cleared, Pages, NoPage
    <2>5. PhaseTyped' BY <1>7 DEF OverrunKills, Cleared, PhaseTyped, Reads, Writes
    <2> QED BY <2>2, <2>4, <2>5
  <1>8. CASE Overrun
    <2>1. /\ pc = "overrun" /\ pc' = "respond" /\ done' = actual
          /\ page' = PageOf(offset) /\ cache' = Loaded(cache, PageOf(offset))
          /\ UNCHANGED <<conf, file, size, op, offset, actual, out, announced, history>>
          /\ cancelled' = FALSE /\ fd' = FALSE /\ resp' \in {"no_response", "ok"}
      BY <1>8 DEF Overrun
    <2>2. FilesTyped' BY <2>1
    <2>3. offset \in Nat /\ offset \in 0..MaxSize BY Sizes
    <2>4. PageOf(offset) \in Pages
      BY <2>3, FirstPage
    <2>5. Loaded(cache, PageOf(offset)) \in [0..CacheSize - 1 -> Octet]
      BY <2>3, FirstPage, LoadedFacts, Sizes
    <2>6. wire' \in Seq(Octet) /\ writes' \in Seq(Nat)
      <3>1. PICK left \in Int : left = HeaderSize + actual BY Sizes
      <3>2. CASE cancelled \/ left < 0 BY <1>8, <3>1, <3>2 DEF Overrun
      <3>3. CASE ~(cancelled \/ left < 0)
        <4>1. /\ wire' = [k \in 1..left |-> Header] /\ writes' = <<left>> /\ left \in Nat
          BY <1>8, <3>1, <3>3 DEF Overrun
        <4>2. Header \in Octet BY Sizes DEF Header, Octet
        <4>3. wire' \in [1..left -> Octet] BY <4>1, <4>2
        <4>4. wire' \in Seq(Octet) BY <4>1, <4>3, MadeSeq
        <4>5. writes' \in Seq(Nat) BY <4>1
        <4> QED BY <4>4, <4>5
      <3> QED BY <3>2, <3>3
    <2>7. DataTyped'
      <3>1. AsInt(asked)' = AsInt(asked) BY <2>1
      <3>2. IF actual' >= 0 THEN done' \in 0..actual'
            ELSE op' = "partial" /\ pc' \in {"overrun", "respond"} /\ actual' = AsInt(asked)'
        BY <2>1, <3>1, Sizes
      <3> QED BY <2>1, <2>4, <2>5, <2>6, <3>2
    <2>8. PhaseTyped' BY <2>1 DEF PhaseTyped, Reads
    <2> QED BY <2>2, <2>7, <2>8
  <1> QED BY <1>1, <1>2, <1>3, <1>4, <1>5, <1>6, <1>7, <1>8

\* The operations around a transfer, and a step that changes nothing.
LEMMA AroundTyped ==
  ASSUME Typed,
         \/ SendObjectInfo \/ EndEditObject \/ Stat \/ Cancel \/ UNCHANGED vars
         \/ \E n \in 0..MaxSize : TruncateObject(n)
  PROVE  Typed'
  <1> USE DEF Typed, FilesTyped, DataTyped, AsInt, history, dataVars
  <1>1. Len(file) \in 0..MaxSize BY SeqParts, Sizes
  <1>2. CASE SendObjectInfo
    <2>1. FilesTyped' BY <1>2, EmptySeq, Sizes DEF SendObjectInfo, PhaseTyped
    <2>2. DataTyped' BY <1>2 DEF SendObjectInfo
    <2>3. PhaseTyped' BY <1>2 DEF SendObjectInfo, PhaseTyped, Reads, Writes, NoPage
    <2> QED BY <2>1, <2>2, <2>3
  <1>3. CASE EndEditObject
    <2>1. FilesTyped' BY <1>3 DEF EndEditObject
    <2>2. DataTyped' BY <1>3 DEF EndEditObject
    <2>3. PhaseTyped' BY <1>3 DEF EndEditObject, PhaseTyped, Reads, Writes, NoPage
    <2> QED BY <2>1, <2>2, <2>3
  <1>4. CASE Stat
    <2>1. FilesTyped' BY <1>1, <1>4 DEF Stat
    <2>2. DataTyped' BY <1>4 DEF Stat
    <2>3. PhaseTyped' BY <1>4 DEF Stat, PhaseTyped, Reads, Writes, NoPage
    <2> QED BY <2>1, <2>2, <2>3
  <1>5. CASE Cancel
    <2>1. FilesTyped' BY <1>5 DEF Cancel
    <2>2. DataTyped' BY <1>5 DEF Cancel
    <2>3. PhaseTyped' BY <1>5 DEF Cancel, PhaseTyped, NoPage
    <2> QED BY <2>1, <2>2, <2>3
  <1>6. CASE UNCHANGED vars
    <2>1. FilesTyped' BY <1>6 DEF vars
    <2>2. DataTyped' BY <1>6 DEF vars
    <2>3. PhaseTyped' BY <1>6 DEF vars, PhaseTyped, NoPage
    <2> QED BY <2>1, <2>2, <2>3
  <1>7. CASE \E n \in 0..MaxSize : TruncateObject(n)
    <2>1. PICK n \in 0..MaxSize : TruncateObject(n) BY <1>7
    <2>2. Resized(file, n) \in Seq(Bytes) /\ Len(Resized(file, n)) = n
      BY ResizedFacts, Sizes
    <2>3. FilesTyped' BY <2>1, <2>2, Sizes DEF TruncateObject, PhaseTyped
    <2>4. DataTyped' BY <2>1 DEF TruncateObject
    <2>5. PhaseTyped' BY <2>1 DEF TruncateObject, PhaseTyped, Reads, Writes, NoPage
    <2> QED BY <2>3, <2>4, <2>5
  <1> QED BY <1>2, <1>3, <1>4, <1>5, <1>6, <1>7

\* Every step.
LEMMA NextTyped == Typed /\ [Next]_vars => Typed'
  <1> SUFFICES ASSUME Typed, [Next]_vars PROVE Typed' OBVIOUS
  <1>1. CASE UNCHANGED vars BY <1>1, AroundTyped
  <1>2. CASE Next
    <2>1. FilesTyped BY DEF Typed
    <2>2. CASE \E what, o, n, q : Gets(what, o, n, q) BY <2>2, GetTyped
    <2>3. CASE Block BY <2>3, BlockTyped
    <2>4. CASE Write BY <2>4, WriteTyped
    <2>5. CASE \E what, o, n, got : Receives(what, o, n, got) BY <2>5, ReceiveTyped
    <2>6. CASE ReadUsb BY <2>6, ReadUsbTyped
    <2>7. CASE \E n \in 0..MaxSize : LocalResize(n) BY <2>7, ResizeTyped
    <2>8. CASE \/ \E what \in Reads : OpenFails(what)
               \/ ReadFails \/ GetVerdict \/ ReadEnds \/ SendVerdict \/ Respond
               \/ Overrun \/ OverrunKills
      BY <2>8, PhaseStepTyped
    <2>9. CASE \/ SendObjectInfo \/ EndEditObject \/ Stat \/ Cancel
               \/ \E n \in 0..MaxSize : TruncateObject(n)
      BY <2>9, AroundTyped
    <2> QED BY <1>2, <2>1, <2>2, <2>3, <2>4, <2>5, <2>6, <2>7, <2>8, <2>9, Kinds
  <1> QED BY <1>1, <1>2

\* In every state, the variables are typed.
LEMMA TypedCorrect == Spec => []Typed
  BY InitTyped, NextTyped, PTL DEF Spec

\* The data of a transfer lies within the largest file and within the buffers,
\* and the file is open while it is transferred.
THEOREM TypeCorrect == Spec => []TypeOK
  <1>1. Typed => TypeOK
    <2> SUFFICES ASSUME Typed PROVE TypeOK OBVIOUS
    <2>1. Len(file) \in Nat BY SeqParts DEF Typed, FilesTyped
    <2>2. low \in 0..MaxSize BY <2>1, Sizes DEF Typed, FilesTyped
    <2> QED BY <2>2 DEF Typed, FilesTyped, DataTyped, PhaseTyped, TypeOK, Bytes, Octet, Pages
  <1> QED BY <1>1, TypedCorrect, PTL

-----------------------------------------------------------------------------
(* How far the data phase is.                                               *)

Sending == pc \in {"block", "write", "verdict"}

\* Between the writes, the host has the header and the bytes done so far; a
\* write that is not the last one is full; at the end all is sent.
LengthInv ==
  /\ pc = "block" =>
       /\ Len(wire) = IF done = 0 THEN 0 ELSE HeaderSize + done
       /\ done < actual \/ actual = 0
  /\ pc = "write" =>
       /\ Len(wire) + Len(out) = HeaderSize + done
       /\ done = actual \/ Len(out) = TxBuffer
  /\ (pc = "verdict" /\ ~cancelled) \/ Completed =>
       done = actual /\ Len(wire) = HeaderSize + actual
  /\ Sending \/ Completed =>
       actual = ToSend(offset, asked) /\ announced = Minimum(HeaderSize + actual, Word - 1)

\* The steps after which nothing is being sent, nor has been.
Elsewhere ==
  \/ \E what \in Reads : OpenFails(what)
  \/ ReadFails \/ Respond \/ OverrunKills \/ SendObjectInfo \/ EndEditObject
  \/ \E what, o, n, got : Receives(what, o, n, got)
  \/ ReadUsb \/ ReadEnds \/ SendVerdict \/ Stat
  \/ \E n \in 0..MaxSize : TruncateObject(n)

\* No data phase goes on after the other actions.
LEMMA ElsewherePhase ==
  ASSUME Typed, Elsewhere
  PROVE  ~Sending' /\ ~Completed'
  <1> USE DEF Sending, Completed
  <1>1. CASE \E what \in Reads : OpenFails(what) BY <1>1 DEF OpenFails, Begins, Reads
  <1>2. CASE ReadFails
    <2>1. op \in Reads BY <1>2 DEF ReadFails, Typed, PhaseTyped
    <2> QED BY <1>2, <2>1 DEF ReadFails, Reads
  <1>3. CASE Respond BY <1>3 DEF Respond, Cleared
  <1>4. CASE SendObjectInfo BY <1>4 DEF SendObjectInfo
  <1>5. CASE EndEditObject BY <1>5 DEF EndEditObject
  <1>6. CASE \E what, o, n, got : Receives(what, o, n, got) BY <1>6 DEF Receives, Receive
  <1>7. CASE ReadUsb BY <1>7 DEF ReadUsb
  <1>8. CASE ReadEnds BY <1>8 DEF ReadEnds
  <1>9. CASE SendVerdict BY <1>9 DEF SendVerdict, Typed, PhaseTyped, Writes
  <1>10. CASE Stat BY <1>10 DEF Stat
  <1>11. CASE \E n \in 0..MaxSize : TruncateObject(n) BY <1>11 DEF TruncateObject
  <1>12. CASE OverrunKills BY <1>12 DEF OverrunKills, Cleared
  <1> QED BY <1>1, <1>2, <1>3, <1>4, <1>5, <1>6, <1>7, <1>8, <1>9, <1>10, <1>11, <1>12 DEF Elsewhere

\* The steps that change neither the operation nor what it has sent.
Aside == Cancel \/ (\E n \in 0..MaxSize : LocalResize(n)) \/ UNCHANGED vars

\* A local writer and a cancel leave the transfer alone.
LEMMA AsideKeeps ==
  ASSUME Aside
  PROVE  /\ UNCHANGED <<conf, size, fd, op, pc, dataVars, resp, asked, base, failed>>
         /\ cancelled' = cancelled \/ cancelled' = TRUE
  BY DEF Aside, Cancel, LocalResize, vars, history

\* The steps, by what they are to the data that is sent.
LEMMA SendKinds ==
  ASSUME Typed, [Next]_vars
  PROVE  \/ \E what, o, n, q : Gets(what, o, n, q)
         \/ Block \/ Overrun \/ Write \/ GetVerdict \/ Elsewhere \/ Aside
  <1>1. CASE UNCHANGED vars BY <1>1 DEF Aside
  <1>2. CASE Next
    <2>1. FilesTyped BY DEF Typed
    <2> QED BY <1>2, <2>1, Kinds DEF Elsewhere, Aside
  <1> QED BY <1>1, <1>2

\* LengthInv holds at the start.
LEMMA InitLength == Init => LengthInv
  BY DEF Init, LengthInv, Sending, Completed

\* A block counts the bytes it takes.
LEMMA BlockLength ==
  ASSUME Typed, LengthInv, Block
  PROVE  LengthInv'
  <1>1. /\ pc = "block" /\ pc' = "write" /\ done' = done + Amount
        /\ UNCHANGED <<conf, file, size, fd, op, offset, actual, wire, writes, announced,
                       cancelled, resp, history>>
    BY BlockParts
  <1>2. Len(out') = Len(Lead) + Amount /\ Amount \in Nat BY <1>1, OutTyped, AmountFacts
  <1>3. Len(Lead) = IF done = 0 THEN HeaderSize ELSE 0 BY LeadFacts DEF Typed
  <1>4. Len(wire) = IF done = 0 THEN 0 ELSE HeaderSize + done BY <1>1 DEF LengthInv
  <1>5. done \in Nat /\ actual \in Nat BY <1>1, Sizes DEF Typed, DataTyped
  <1>6. Len(wire) + Len(out') = HeaderSize + done' BY <1>1, <1>2, <1>3, <1>4, <1>5, Sizes
  <1>7. done' = actual \/ Len(out') = TxBuffer BY <1>1, <1>2, AmountFacts
  <1>8. actual' = ToSend(offset, asked)' /\ announced' = Minimum(HeaderSize + actual, Word - 1)
    BY <1>1 DEF LengthInv, Sending, ToSend, history
  <1> QED BY <1>1, <1>6, <1>7, <1>8 DEF LengthInv, Sending, Completed

\* A write adds what was taken to what the host has.
LEMMA WriteLength ==
  ASSUME Typed, LengthInv, Write
  PROVE  LengthInv'
  <1>1. /\ pc = "write" /\ pc' \in {"block", "verdict"}
        /\ pc' = "block" <=> done < actual /\ ~cancelled
        /\ wire' = (IF cancelled THEN wire ELSE wire \o out)
        /\ UNCHANGED <<conf, file, size, fd, op, offset, actual, done, page, cache, out, announced,
                       cancelled, resp, history>>
    BY DEF Write
  <1>2. /\ Len(wire) + Len(out) = HeaderSize + done
        /\ done = actual \/ Len(out) = TxBuffer
        /\ actual = ToSend(offset, asked) /\ announced = Minimum(HeaderSize + actual, Word - 1)
    BY <1>1 DEF LengthInv, Sending
  <1>3. done \in Nat /\ actual \in Nat /\ done <= actual BY <1>1, Sizes DEF Typed, DataTyped
  <1>4. wire \in Seq(Octet) /\ out \in Seq(Octet) /\ Len(wire) \in Nat /\ Len(out) \in Nat
    BY SeqParts DEF Typed, DataTyped
  <1>5. ~cancelled => Len(wire') = HeaderSize + done
    BY <1>1, <1>2, <1>4, ConcatProperties
  <1>6. pc' = "block" => done # 0
    <2>1. pc' = "block" => done < actual BY <1>1
    <2>2. Len(out) = TxBuffer => done # 0 BY <1>2, <1>3, <1>4, Sizes
    <2>3. done < actual => done # actual BY <1>3
    <2> QED BY <1>2, <2>1, <2>2, <2>3
  <1>7. pc' = "verdict" /\ ~cancelled => done = actual BY <1>1, <1>3
  <1>8. ToSend(offset, asked)' = ToSend(offset, asked) BY <1>1 DEF ToSend, history
  <1> QED BY <1>1, <1>2, <1>3, <1>5, <1>6, <1>7, <1>8 DEF LengthInv, Sending, Completed

\* Nothing that a negative length sends counts as a completed data phase.
LEMMA OverrunPhase ==
  ASSUME Typed, Overrun
  PROVE  /\ pc = "overrun" /\ pc' = "respond" /\ ~Sending' /\ ~Completed'
         /\ actual' = actual /\ done' = actual
  <1>1. /\ pc = "overrun" /\ pc' = "respond" /\ done' = actual /\ UNCHANGED <<op, actual>>
    BY DEF Overrun
  <1>2. op = "partial" /\ actual < 0 /\ actual \in Int
    BY <1>1, Sizes DEF Typed, DataTyped, PhaseTyped
  <1>3. ~(actual' >= 0) /\ op' # "get" BY <1>1, <1>2
  <1> QED BY <1>1, <1>3 DEF Sending, Completed

\* Every step keeps LengthInv.
LEMMA LengthStep == Typed /\ LengthInv /\ [Next]_vars => LengthInv'
  <1> SUFFICES ASSUME Typed, LengthInv, [Next]_vars PROVE LengthInv' OBVIOUS
  <1>1. CASE \E what, o, n, q : Gets(what, o, n, q)
    <2>1. PICK what, o, n, q : Gets(what, o, n, q) BY <1>1
    <2>2. /\ resp' = "none" /\ done' = 0 /\ wire' = <<>>
          /\ offset' = o /\ asked' = q /\ size' = size /\ actual' = ToSend(o, n)
          /\ pc' = IF ToSend(o, n) < 0 THEN "overrun" ELSE "block"
          /\ announced' = IF HeaderSize + ToSend(o, n) \in 0..Word - 1
                          THEN HeaderSize + ToSend(o, n) ELSE Word - 1
          /\ o \in 0..MaxSize /\ q \in Nat /\ n \in Int /\ (n >= 0 => n = q)
      BY <2>1, Sizes DEF Gets, Get, Maximum
    <2>3. o \in Nat /\ size \in Nat BY <2>2, Sizes DEF Typed, FilesTyped
    <2>4. CASE ToSend(o, n) < 0
      <3>1. pc' = "overrun" BY <2>2, <2>4
      <3> QED BY <2>2, <3>1 DEF LengthInv, Sending, Completed
    <2>5. CASE ~(ToSend(o, n) < 0)
      <3>1. ToSend(o, n) \in Nat /\ ToSend(o, n) = ToSend(o, q)
        <4>1. CASE n >= 0 BY <2>2, <2>3, <4>1, ToSendFacts
        <4>2. CASE n < 0
          <5>1. ToSend(o, n) = 0 BY <2>2, <2>3, <2>5, <4>2, ToSendFacts
          <5>2. o >= size BY <2>2, <2>3, <2>5, <4>2 DEF ToSend
          <5> QED BY <2>2, <2>3, <5>1, <5>2, ToSendFacts
        <4> QED BY <2>2, <4>1, <4>2
      <3>2. actual' = ToSend(offset, asked)' BY <2>2, <3>1 DEF ToSend
      <3>3. announced' = Minimum(HeaderSize + actual', Word - 1)
        BY <2>2, <3>1, Sizes DEF Minimum
      <3>4. pc' = "block" BY <2>2, <2>5
      <3>5. done' < actual' \/ actual' = 0 BY <2>2, <3>1
      <3>6. Len(wire') = 0 /\ ~Completed' BY <2>2, <3>4 DEF Completed
      <3> QED BY <2>2, <3>2, <3>3, <3>4, <3>5, <3>6 DEF LengthInv, Sending
    <2> QED BY <2>4, <2>5
  <1>2. CASE Block BY <1>2, BlockLength
  <1>3. CASE Write BY <1>3, WriteLength
  <1>4. CASE GetVerdict
    <2>1. /\ pc = "verdict" /\ pc' = "respond" /\ (cancelled => resp' = "no_response")
          /\ UNCHANGED <<size, op, offset, actual, done, wire, announced, asked, failed>>
      BY <1>4 DEF GetVerdict, history
    <2>2. ToSend(offset, asked)' = ToSend(offset, asked) BY <2>1 DEF ToSend
    <2> QED BY <2>1, <2>2 DEF LengthInv, Sending, Completed
  <1>5. CASE Elsewhere BY <1>5, ElsewherePhase DEF LengthInv, Sending
  <1>6. CASE Aside
    <2>1. /\ UNCHANGED <<size, op, pc, offset, actual, done, out, wire, announced, resp, asked,
                         failed>>
          /\ cancelled' = cancelled \/ cancelled' = TRUE
      BY <1>6, AsideKeeps DEF dataVars
    <2>2. ToSend(offset, asked)' = ToSend(offset, asked) BY <2>1 DEF ToSend
    <2>3. Completed' <=> Completed BY <2>1 DEF Completed
    <2> QED BY <2>1, <2>2, <2>3 DEF LengthInv, Sending
  <1>7. CASE Overrun
    <2>1. ~Sending' /\ ~Completed' BY <1>7, OverrunPhase
    <2> QED BY <2>1 DEF LengthInv, Sending
  <1> QED BY <1>1, <1>2, <1>3, <1>4, <1>5, <1>6, <1>7, SendKinds

\* Types and lengths in every state.
LEMMA LengthCorrect == Spec => [](Typed /\ LengthInv)
  BY InitTyped, NextTyped, InitLength, LengthStep, PTL DEF Spec

\* GetObject answers OK only when the host got the announced bytes, all that were
\* asked for and exist; GetPartialObject too unless the file system failed or the
\* length was negative as an int.
THEOREM OkIsCompleteCorrect == Spec => []OkIsComplete
  <1>1. Typed /\ LengthInv => OkIsComplete
    <2> SUFFICES ASSUME Typed, LengthInv, Completed
                 PROVE  /\ Len(wire) = HeaderSize + Minimum(asked, Maximum(0, size - offset))
                        /\ announced = Minimum(Len(wire), Word - 1)
      BY DEF OkIsComplete
    <2>1. offset \in Nat /\ asked \in Nat /\ size \in Nat
      BY Sizes DEF Typed, DataTyped, FilesTyped
    <2>2. actual = Minimum(asked, Maximum(0, size - offset))
      BY <2>1, ToSendFacts DEF LengthInv
    <2> QED BY <2>2 DEF LengthInv
  <1> QED BY <1>1, LengthCorrect, PTL

-----------------------------------------------------------------------------
(* The end of the data phase.                                               *)

\* The remainder is the one number that completes a multiple.
LEMMA Remainder ==
  ASSUME NEW C \in Nat \ {0}, NEW n \in Nat, NEW q \in Nat, NEW r \in 0..C - 1, n = C * q + r
  PROVE  n % C = r
  OBVIOUS

\* Products over a sum, for a solver without nonlinear arithmetic.
LEMMA Distributes ==
  ASSUME NEW a \in Nat, NEW b \in Nat, NEW c \in Nat
  PROVE  a * b \in Nat /\ a * b + a * c = a * (b + c)
  OBVIOUS

\* A multiple of C adds nothing to a remainder by C.
LEMMA RemainderOfSum ==
  ASSUME NEW C \in Nat \ {0}, NEW a \in Nat, NEW b \in Nat, a % C = 0
  PROVE  (a + b) % C = b % C
  <1>1. PICK p \in Nat, q \in Nat, r \in 0..C - 1 : a = C * p /\ b = C * q + r /\ r = b % C
    <2>1. a \div C \in Nat /\ b \div C \in Nat /\ b % C \in 0..C - 1 OBVIOUS
    <2>2. a = C * (a \div C) /\ b = C * (b \div C) + (b % C) OBVIOUS
    <2> QED BY <2>1, <2>2
  <1>2. C * p \in Nat /\ C * q \in Nat /\ C * p + C * q = C * (p + q) BY Distributes
  <1>3. (a + b) % C = r
    <2>1. PICK m \in Nat, j \in Nat : m = a + b /\ j = p + q OBVIOUS
    <2>2. PICK u \in Nat, v \in Nat : u = C * p /\ v = C * q BY <1>2
    <2>3. a = u /\ b = v + r /\ u + v = C * j BY <1>1, <1>2, <2>1, <2>2
    <2>4. m = (u + v) + r BY <2>1, <2>3
    <2>5. m = C * j + r BY <2>3, <2>4
    <2>6. m % C = r BY <2>5, Remainder
    <2> QED BY <2>1, <2>6
  <1> QED BY <1>1, <1>3

\* Products of three numbers, for the same reason.
LEMMA Product ==
  ASSUME NEW a \in Nat, NEW b \in Nat, NEW c \in Nat
  PROVE  a * b \in Nat /\ (a * b) * c = a * (b * c)
  OBVIOUS

\* The remainder by a multiple of C has the same remainder by C.
LEMMA RemainderOfRemainder ==
  ASSUME NEW C \in Nat \ {0}, NEW w \in Nat \ {0}, w % C = 0, NEW n \in Nat
  PROVE  (n % w) % C = n % C
  <1>1. PICK p \in Nat, q \in Nat, r \in Nat : w = C * p /\ n = w * q + r /\ r = n % w
    <2>1. w \div C \in Nat /\ n \div w \in Nat /\ n % w \in Nat OBVIOUS
    <2>2. w = C * (w \div C) OBVIOUS
    <2>3. n = w * (n \div w) + (n % w) OBVIOUS
    <2> QED BY <2>1, <2>2, <2>3
  <1>2. w * q \in Nat /\ p * q \in Nat BY <1>1, Product
  <1>3. w * q = C * (p * q) BY <1>1, Product
  <1>4. (w * q) % C = 0
    <2>1. PICK m \in Nat, j \in Nat : m = w * q /\ j = p * q BY <1>2
    <2>2. m = C * j + 0 /\ 0 \in 0..C - 1 BY <1>3, <2>1
    <2> QED BY <2>1, <2>2, Remainder
  <1>5. PICK m \in Nat : m = w * q BY <1>2
  <1>6. (m + r) % C = r % C
    <2>1. m % C = 0 BY <1>4, <1>5
    <2> QED BY <2>1, RemainderOfSum
  <1>7. n = m + r BY <1>1, <1>5
  <1> QED BY <1>1, <1>6, <1>7

\* A write of n bytes tells the host that the data phase is over.
Ends(n) == n % PacketSize # 0 \/ n = 0

\* The data phase ends with the last write, or with the zero length packet after
\* it; until then every write is a whole number of packets.
EndInv ==
  /\ pc \in {"block", "write"} => \A k \in DOMAIN writes : ~Ends(writes[k])
  /\ pc = "block" /\ done > 0 => (HeaderSize + done) % PacketSize = 0
  /\ pc = "write" =>
       /\ Len(out) > 0
       /\ Len(out) % PacketSize = (HeaderSize + done) % PacketSize
  /\ pc = "verdict" /\ ~cancelled =>
       /\ writes # <<>>
       /\ Ends(writes[Len(writes)]) <=> (HeaderSize + actual) % PacketSize # 0
  /\ ~Sending /\ pc # "respond" => writes = <<>>
  /\ \A k \in DOMAIN writes : Ends(writes[k]) => k = Len(writes) /\ done = actual
  /\ Completed /\ AsInt((HeaderSize + actual) % Word) > 0 => Ends(writes[Len(writes)])

\* EndInv holds at the start.
LEMMA InitEnd == Init => EndInv
  BY DEF Init, EndInv, Sending, Completed

\* One more write: the others keep their places and lengths.
LEMMA WritesAppended ==
  ASSUME writes \in Seq(Nat), NEW n \in Nat, writes' = Append(writes, n)
  PROVE  /\ Len(writes) \in Nat /\ Len(writes') = Len(writes) + 1 /\ writes' # <<>>
         /\ \A k \in DOMAIN writes' : k # Len(writes') => k \in DOMAIN writes /\ writes'[k] = writes[k]
         /\ writes'[Len(writes')] = n
  <1>1. Len(writes) \in Nat /\ DOMAIN writes = 1..Len(writes) BY SeqParts
  <1>2. /\ writes' \in Seq(Nat) /\ Len(writes') = Len(writes) + 1
        /\ \A k \in 1..Len(writes) : writes'[k] = writes[k]
        /\ writes'[Len(writes) + 1] = n
    BY AppendProperties
  <1>3. DOMAIN writes' = 1..Len(writes') BY <1>2, SeqParts
  <1>4. writes' # <<>> BY <1>1, <1>2
  <1> QED BY <1>1, <1>2, <1>3, <1>4

\* A block writes nothing.
LEMMA BlockEnd ==
  ASSUME Typed, LengthInv, EndInv, Block
  PROVE  EndInv'
  <1>1. /\ pc = "block" /\ pc' = "write" /\ done' = done + Amount
        /\ UNCHANGED <<conf, file, size, fd, op, offset, actual, wire, writes, announced,
                       cancelled, resp, history>>
    BY BlockParts
  <1>2. Len(out') = Len(Lead) + Amount /\ Amount \in Nat BY <1>1, OutTyped, AmountFacts
  <1>3. Len(Lead) = IF done = 0 THEN HeaderSize ELSE 0 BY LeadFacts DEF Typed
  <1>4. done \in Nat /\ actual \in Nat /\ done <= actual BY <1>1, Sizes DEF Typed, DataTyped
  <1>5. CASE done = 0
    <2>1. Len(out') = HeaderSize + done' /\ Len(out') > 0 BY <1>1, <1>2, <1>3, <1>5, Sizes
    <2> QED BY <1>1, <2>1 DEF EndInv, Sending, Completed
  <1>6. CASE done # 0
    <2>1. done < actual BY <1>1, <1>4, <1>6 DEF LengthInv
    <2>2. Len(out') = Amount /\ Amount > 0 BY <1>1, <1>2, <1>3, <1>4, <1>6, <2>1, AmountFacts, Sizes
    <2>3. (HeaderSize + done) % PacketSize = 0 BY <1>1, <1>4, <1>6 DEF EndInv
    <2>4. (HeaderSize + done) \in Nat BY <1>4, Sizes
    <2>5. ((HeaderSize + done) + Amount) % PacketSize = Amount % PacketSize
      BY <1>2, <2>3, <2>4, RemainderOfSum, Sizes
    <2>6. HeaderSize + done' = (HeaderSize + done) + Amount BY <1>1, <1>2, <1>4, Sizes
    <2>7. Len(out') % PacketSize = (HeaderSize + done') % PacketSize BY <2>2, <2>5, <2>6
    <2> QED BY <1>1, <2>2, <2>7 DEF EndInv, Sending, Completed
  <1> QED BY <1>5, <1>6

\* A write that ends the data phase is the last one.
LEMMA WriteEnd ==
  ASSUME Typed, LengthInv, EndInv, Write
  PROVE  EndInv'
  <1>1. /\ pc = "write" /\ pc' \in {"block", "verdict"}
        /\ pc' = "block" <=> done < actual /\ ~cancelled
        /\ cancelled => writes' = writes
        /\ ~cancelled => writes' = Append(writes, Len(out))
        /\ UNCHANGED <<done, actual, cancelled, resp>>
    BY DEF Write
  <1>2. done \in Nat /\ actual \in Nat /\ done <= actual BY <1>1, Sizes DEF Typed, DataTyped
  <1>3. writes \in Seq(Nat) /\ Len(out) \in Nat BY SeqParts DEF Typed, DataTyped
  <1>4. /\ \A k \in DOMAIN writes : ~Ends(writes[k])
        /\ Len(out) > 0 /\ Len(out) % PacketSize = (HeaderSize + done) % PacketSize
    BY <1>1 DEF EndInv
  <1>5. done = actual \/ Len(out) = TxBuffer BY <1>1 DEF LengthInv
  <1>6. CASE cancelled
    BY <1>1, <1>4, <1>6 DEF EndInv, Sending, Completed
  <1>7. CASE ~cancelled
    <2>1. /\ writes' # <<>> /\ writes'[Len(writes')] = Len(out)
          /\ \A k \in DOMAIN writes' : k # Len(writes') => ~Ends(writes'[k])
      BY <1>1, <1>3, <1>4, <1>7, WritesAppended
    <2>2. Ends(Len(out)) <=> (HeaderSize + done) % PacketSize # 0 BY <1>4 DEF Ends
    <2>3. done # actual => (HeaderSize + done) % PacketSize = 0 BY <1>4, <1>5, Sizes
    <2>4. \A k \in DOMAIN writes' : Ends(writes'[k]) => k = Len(writes') /\ done = actual
      BY <2>1, <2>2, <2>3
    <2>5. CASE done = actual
      <3>1. pc' = "verdict" BY <1>1, <1>2, <2>5
      <3> QED BY <1>1, <2>1, <2>2, <2>4, <2>5, <3>1 DEF EndInv, Sending, Completed
    <2>6. CASE done # actual
      <3>1. pc' = "block" BY <1>1, <1>2, <1>7, <2>6
      <3>2. \A k \in DOMAIN writes' : ~Ends(writes'[k]) BY <2>4, <2>6
      <3>3. (HeaderSize + done') % PacketSize = 0 BY <1>1, <2>3, <2>6
      <3> QED BY <1>1, <2>4, <3>1, <3>2, <3>3 DEF EndInv, Sending, Completed
    <2> QED BY <2>5, <2>6
  <1> QED BY <1>6, <1>7

\* check_and_send_USB_ZLP adds the empty write exactly where no write was short.
LEMMA VerdictEnd ==
  ASSUME Typed, LengthInv, EndInv, GetVerdict
  PROVE  EndInv'
  <1>1. /\ pc = "verdict" /\ pc' = "respond" /\ (cancelled => resp' = "no_response")
        /\ UNCHANGED <<done, actual>>
        /\ writes' = IF ~cancelled /\ ZlpNeeded(HeaderSize + actual) THEN Append(writes, 0)
                     ELSE writes
    BY DEF GetVerdict
  <1>2. writes \in Seq(Nat) /\ actual \in Nat BY <1>1, Sizes DEF Typed, DataTyped
  <1>3. CASE cancelled BY <1>1, <1>3 DEF EndInv, Sending, Completed
  <1>4. CASE ~cancelled
    <2>n. PICK n \in Nat : n = HeaderSize + actual BY <1>2, Sizes
    <2>s. PICK s \in Nat : s = n % Word BY Sizes
    <2>1. n = HeaderSize + actual /\ s = n % Word BY <2>n, <2>s
    <2>2. s % PacketSize = n % PacketSize BY <2>1, RemainderOfRemainder, Sizes
    <2>3. /\ writes # <<>> /\ done = actual
          /\ Ends(writes[Len(writes)]) <=> n % PacketSize # 0
          /\ \A k \in DOMAIN writes : Ends(writes[k]) => k = Len(writes)
      BY <1>1, <1>4, <2>1 DEF EndInv, LengthInv
    <2>4. ZlpNeeded(HeaderSize + actual) <=> AsInt(s) >= PacketSize /\ AsInt(s) % PacketSize = 0
      BY <2>1 DEF ZlpNeeded
    <2>i. s < Word BY <2>1, Sizes
    <2>j. AsInt(s) \in Int /\ (AsInt(s) >= 0 => AsInt(s) = s)
      BY <2>i, Sizes DEF AsInt
    <2>5. CASE AsInt(s) >= PacketSize /\ AsInt(s) % PacketSize = 0
      <3>1. writes' = Append(writes, 0) BY <1>1, <1>4, <2>4, <2>5
      <3>5. AsInt(s) = s BY <2>5, <2>j, Sizes
      <3>2. \A k \in DOMAIN writes : ~Ends(writes[k])
        BY <2>2, <2>3, <2>5, <3>5
      <3>3. /\ writes'[Len(writes')] = 0
            /\ \A k \in DOMAIN writes' : k # Len(writes') => ~Ends(writes'[k])
        BY <1>2, <3>1, <3>2, WritesAppended
      <3>4. Ends(0) BY DEF Ends
      <3> QED BY <1>1, <2>3, <3>3, <3>4 DEF EndInv, Sending
    <2>6. CASE ~(AsInt(s) >= PacketSize /\ AsInt(s) % PacketSize = 0)
      <3>1. writes' = writes BY <1>1, <2>4, <2>6
      <3>2. AsInt(s) > 0 => n % PacketSize # 0
        <4>1. SUFFICES ASSUME AsInt(s) > 0 PROVE n % PacketSize # 0 OBVIOUS
        <4>2. AsInt(s) = s /\ s # 0 BY <2>j, <4>1
        <4>3. ~(s >= PacketSize /\ s % PacketSize = 0) BY <2>6, <4>2
        <4>4. s < PacketSize => s % PacketSize = s BY <2>1, Sizes
        <4> QED BY <2>1, <2>2, <4>2, <4>3, <4>4, Sizes
      <3>3. AsInt((HeaderSize + actual) % Word)' = AsInt(s)
        <4>1. (HeaderSize + actual') % Word = s BY <1>1, <2>1
        <4> QED BY <4>1 DEF AsInt
      <3> QED BY <1>1, <2>3, <3>1, <3>2, <3>3 DEF EndInv, Sending
    <2> QED BY <2>5, <2>6
  <1> QED BY <1>3, <1>4

\* The other actions end no data phase, or begin with no writes.
LEMMA ElsewhereWrites ==
  ASSUME Typed, EndInv, Elsewhere
  PROVE  \/ writes' = <<>>
         \/ pc' = "respond" /\ writes' = writes /\ \A k \in DOMAIN writes : ~Ends(writes[k])
  <1> USE DEF Sending, dataVars
  <1>1. CASE \E what \in Reads : OpenFails(what) BY <1>1 DEF OpenFails
  <1>2. CASE ReadFails BY <1>2 DEF ReadFails, EndInv
  <1>3. CASE Respond \/ OverrunKills BY <1>3 DEF Respond, OverrunKills, Cleared
  <1>4. CASE SendObjectInfo BY <1>4 DEF SendObjectInfo, EndInv
  <1>5. CASE EndEditObject BY <1>5 DEF EndEditObject, EndInv
  <1>6. CASE \E what, o, n, got : Receives(what, o, n, got)
    BY <1>6 DEF Receives, Receive, Begins, EndInv
  <1>7. CASE ReadUsb BY <1>7 DEF ReadUsb, EndInv
  <1>8. CASE ReadEnds BY <1>8 DEF ReadEnds, EndInv
  <1>9. CASE SendVerdict BY <1>9 DEF SendVerdict, EndInv
  <1>10. CASE Stat BY <1>10 DEF Stat, EndInv
  <1>11. CASE \E n \in 0..MaxSize : TruncateObject(n) BY <1>11 DEF TruncateObject, EndInv
  <1> QED BY <1>1, <1>2, <1>3, <1>4, <1>5, <1>6, <1>7, <1>8, <1>9, <1>10, <1>11 DEF Elsewhere

\* Every step keeps EndInv.
LEMMA EndStep == Typed /\ LengthInv /\ EndInv /\ [Next]_vars => EndInv'
  <1> SUFFICES ASSUME Typed, LengthInv, EndInv, [Next]_vars PROVE EndInv' OBVIOUS
  <1>1. CASE \E what, o, n, q : Gets(what, o, n, q)
    <2>1. pc' \in {"block", "overrun"} /\ done' = 0 /\ writes' = <<>> BY <1>1 DEF Gets, Get
    <2> QED BY <2>1 DEF EndInv, Sending, Completed
  <1>2. CASE Block BY <1>2, BlockEnd
  <1>3. CASE Write BY <1>3, WriteEnd
  <1>4. CASE GetVerdict BY <1>4, VerdictEnd
  <1>5. CASE Elsewhere
    <2>1. ~Sending' /\ ~Completed' BY <1>5, ElsewherePhase
    <2>2. CASE writes' = <<>> BY <2>1, <2>2 DEF EndInv, Sending
    <2>3. CASE pc' = "respond" /\ writes' = writes /\ \A k \in DOMAIN writes : ~Ends(writes[k])
      BY <2>1, <2>3 DEF EndInv, Sending
    <2> QED BY <1>5, <2>2, <2>3, ElsewhereWrites
  <1>6. CASE Aside
    <2>1. /\ UNCHANGED <<op, pc, actual, done, out, writes, resp, failed>>
          /\ cancelled' = cancelled \/ cancelled' = TRUE
      BY <1>6, AsideKeeps DEF dataVars
    <2>2. Completed' <=> Completed BY <2>1 DEF Completed
    <2>3. AsInt((HeaderSize + actual) % Word)' = AsInt((HeaderSize + actual) % Word)
      BY <2>1 DEF AsInt
    <2> QED BY <2>1, <2>2, <2>3 DEF EndInv, Sending
  <1>7. CASE Overrun
    <2>1. /\ pc = "overrun" /\ pc' = "respond" /\ ~Sending' /\ ~Completed'
          /\ actual' = actual /\ done' = actual
      BY <1>7, OverrunPhase
    <2>2. writes = <<>> BY <2>1 DEF EndInv, Sending
    <2>3. writes' = <<>> \/ \E n : writes' = <<n>> BY <1>7, <2>2 DEF Overrun
    <2>4. \A k \in DOMAIN writes' : k = Len(writes')
      <3>1. CASE writes' = <<>> BY <3>1
      <3>2. CASE \E n : writes' = <<n>> BY <3>2
      <3> QED BY <2>3, <3>1, <3>2
    <2> QED BY <2>1, <2>4 DEF EndInv, Sending
  <1> QED BY <1>1, <1>2, <1>3, <1>4, <1>5, <1>6, <1>7, SendKinds

\* The host sees the end of the data phase once, with the last byte.
THEOREM EndSeenOnceCorrect == Spec => []EndSeenOnce
  <1>1. EndInv => EndSeenOnce BY DEF EndInv, EndSeenOnce, EndSeen, Ends
  <1> QED BY <1>1, InitTyped, NextTyped, InitLength, LengthStep, InitEnd, EndStep, PTL DEF Spec

-----------------------------------------------------------------------------
(* The bytes sent.                                                          *)

\* A cache with the page p is that of file f up to length l.
CacheRight(c, p, f, l) ==
  \A b \in 0..CacheSize - 1 : p + b + 1 <= l => c[b] = f[p + b + 1]

\* Bytes that come after n bytes of the data phase are those the host should get
\* of file f from offset o on, up to length l.
Right(bytes, n, o, f, l) ==
  \A k \in DOMAIN bytes :
    IF n + k <= HeaderSize THEN bytes[k] = Header
    ELSE o + n + k - HeaderSize <= l => bytes[k] = f[o + n + k - HeaderSize]

\* The page in the cache, the bytes sent and those about to be sent are those of
\* the file, as far as it was not cut.
BytesInv ==
  /\ page # NoPage => CacheRight(cache, page, file, low)
  /\ Right(wire, 0, offset, file, low)
  /\ pc = "write" => Right(out, Len(wire), offset, file, low)
  /\ op \notin Reads => wire = <<>> /\ page = NoPage

\* No byte is wrong where there is none.
LEMMA RightOfNothing ==
  ASSUME NEW n, NEW o, NEW f, NEW l
  PROVE  Right(<<>>, n, o, f, l)
  BY DEF Right

\* Two right stretches, one after the other, are right.
LEMMA RightOfConcat ==
  ASSUME NEW a \in Seq(Octet), NEW b \in Seq(Octet), NEW n \in Nat, NEW m \in Nat, m = n + Len(a),
         NEW o \in Nat, NEW f, NEW l, Right(a, n, o, f, l), Right(b, m, o, f, l)
  PROVE  Right(a \o b, n, o, f, l)
  <1>1. /\ Len(a) \in Nat /\ DOMAIN a = 1..Len(a)
        /\ Len(b) \in Nat /\ DOMAIN b = 1..Len(b)
    BY SeqParts
  <1>2. /\ a \o b \in Seq(Octet) /\ Len(a \o b) = Len(a) + Len(b)
        /\ \A k \in 1..Len(a) + Len(b) :
             (a \o b)[k] = IF k <= Len(a) THEN a[k] ELSE b[k - Len(a)]
    BY ConcatProperties
  <1>3. DOMAIN (a \o b) = 1..Len(a) + Len(b) BY <1>2, SeqParts
  <1>4. SUFFICES ASSUME NEW k \in 1..Len(a) + Len(b)
                 PROVE  IF n + k <= HeaderSize THEN (a \o b)[k] = Header
                        ELSE o + n + k - HeaderSize <= l => (a \o b)[k] = f[o + n + k - HeaderSize]
    BY <1>3 DEF Right
  <1>5. CASE k <= Len(a)
    <2>1. k \in DOMAIN a BY <1>1, <1>5
    <2> QED BY <1>2, <1>5, <2>1 DEF Right
  <1>6. CASE ~(k <= Len(a))
    <2>0. PICK d \in Nat : d = Len(a) BY <1>1
    <2>1. PICK j \in Nat : j = k - Len(a)
      <3>1. k \in Nat /\ k - d \in Nat BY <1>1, <1>6, <2>0
      <3> QED BY <2>0, <3>1
    <2>2. j \in DOMAIN b /\ m + j = n + k BY <1>1, <1>6, <2>1
    <2>3. (a \o b)[k] = b[j] BY <1>2, <1>6, <2>1
    <2>4. o + m + j - HeaderSize = o + n + k - HeaderSize BY <1>1, <2>1, Sizes
    <2> QED BY <2>2, <2>3, <2>4 DEF Right
  <1> QED BY <1>5, <1>6

\* A stretch of a right page is right where it is sent.
LEMMA RightOfCache ==
  ASSUME NEW c \in [0..CacheSize - 1 -> Octet], NEW at \in Nat, NEW b \in Nat, NEW n \in Nat,
         b + n <= CacheSize, NEW m \in Nat, m >= HeaderSize, NEW o \in Nat,
         o + m - HeaderSize = at + b, NEW f, NEW l, CacheRight(c, at, f, l)
  PROVE  Right(FromCache(c, b, n), m, o, f, l)
  <1>1. /\ FromCache(c, b, n) \in Seq(Octet) /\ Len(FromCache(c, b, n)) = n
        /\ \A k \in 1..n : FromCache(c, b, n)[k] = c[b + k - 1]
    BY FromCacheFacts, Sizes
  <1>2. DOMAIN FromCache(c, b, n) = 1..n BY <1>1, SeqParts
  <1>3. SUFFICES ASSUME NEW k \in 1..n
                 PROVE  IF m + k <= HeaderSize THEN FromCache(c, b, n)[k] = Header
                        ELSE o + m + k - HeaderSize <= l =>
                               FromCache(c, b, n)[k] = f[o + m + k - HeaderSize]
    BY <1>2 DEF Right
  <1>4. ~(m + k <= HeaderSize) BY Sizes
  <1>5. PICK i \in 0..CacheSize - 1 : i = b + k - 1 BY Sizes
  <1>6. at + i + 1 = o + m + k - HeaderSize BY <1>5, Sizes
  <1>7. at + i + 1 <= l => c[i] = f[at + i + 1] BY DEF CacheRight
  <1> QED BY <1>1, <1>4, <1>5, <1>6, <1>7

\* What was right stays right when the file is cut or extended.
LEMMA RightKept ==
  ASSUME NEW bytes \in Seq(Octet), NEW n \in Nat, NEW o \in Nat, NEW f \in Seq(Bytes),
         NEW l \in Nat, l <= Len(f), NEW z \in 0..MaxSize, Right(bytes, n, o, f, l)
  PROVE  Right(bytes, n, o, Resized(f, z), Minimum(l, z))
  <1>1. Len(bytes) \in Nat /\ DOMAIN bytes = 1..Len(bytes) /\ Len(f) \in Nat BY SeqParts
  <1>2. SUFFICES ASSUME NEW k \in 1..Len(bytes)
                 PROVE  IF n + k <= HeaderSize THEN bytes[k] = Header
                        ELSE o + n + k - HeaderSize <= Minimum(l, z) =>
                               bytes[k] = Resized(f, z)[o + n + k - HeaderSize]
    BY <1>1 DEF Right
  <1>3. IF n + k <= HeaderSize THEN bytes[k] = Header
        ELSE o + n + k - HeaderSize <= l => bytes[k] = f[o + n + k - HeaderSize]
    BY <1>1 DEF Right
  <1>4. ASSUME ~(n + k <= HeaderSize), o + n + k - HeaderSize <= Minimum(l, z)
        PROVE  bytes[k] = Resized(f, z)[o + n + k - HeaderSize]
    <2>1. PICK p \in Nat : p = o + n + k - HeaderSize /\ p >= 1 BY <1>4, Sizes
    <2>2. p <= l /\ p <= z /\ p <= Len(f) BY <1>1, <1>4, <2>1, Sizes DEF Minimum
    <2>3. Resized(f, z)[p] = f[p] BY <2>1, <2>2, ResizedFacts, Sizes
    <2> QED BY <1>3, <1>4, <2>1, <2>2, <2>3
  <1> QED BY <1>3, <1>4

\* A page stays right up to the least size the file had since.
LEMMA CacheKept ==
  ASSUME NEW c, NEW p \in Nat, NEW f \in Seq(Bytes),
         NEW l \in Nat, l <= Len(f), NEW z \in 0..MaxSize, CacheRight(c, p, f, l)
  PROVE  CacheRight(c, p, Resized(f, z), Minimum(l, z))
  <1>1. Len(f) \in Nat BY SeqParts
  <1>2. SUFFICES ASSUME NEW b \in 0..CacheSize - 1, p + b + 1 <= Minimum(l, z)
                 PROVE  c[b] = Resized(f, z)[p + b + 1]
    BY DEF CacheRight
  <1>3. PICK q \in Nat : q = p + b + 1 /\ q >= 1 BY Sizes
  <1>4. q <= l /\ q <= z /\ q <= Len(f) BY <1>1, <1>2, <1>3, Sizes DEF Minimum
  <1>5. Resized(f, z)[q] = f[q] BY <1>3, <1>4, ResizedFacts, Sizes
  <1> QED BY <1>3, <1>4, <1>5 DEF CacheRight

\* BytesInv holds at the start.
LEMMA InitBytes == Init => BytesInv
  BY RightOfNothing DEF Init, BytesInv, NoPage

\* The cache of a turn of the loop has the pages it reads from.
LEMMA HereRight ==
  ASSUME Typed, BytesInv, pc = "block"
  PROVE  CacheRight(Here, At, file, low) /\ CacheRight(After, At + CacheSize, file, low)
  <1>1. At \in Nat BY AtFacts
  <1>2. low \in Nat /\ low <= Len(file) /\ Len(file) \in Nat BY SeqParts DEF Typed, FilesTyped
  <1>3. CASE page = At
    <2>1. At # NoPage BY <1>1 DEF NoPage
    <2>2. Here = cache BY <1>3 DEF Here
    <2> QED BY <1>1, <1>2, <1>3, <2>1, <2>2, CacheFacts, Sizes DEF BytesInv, CacheRight
  <1>4. CASE page # At
    <2>1. \A b \in 0..CacheSize - 1 : At + b + 1 <= Len(file) => Here[b] = file[At + b + 1]
      BY <1>4, CacheFacts
    <2>2. \A b \in 0..CacheSize - 1 :
            At + CacheSize + b + 1 <= Len(file) => After[b] = file[At + CacheSize + b + 1]
      BY CacheFacts
    <2> QED BY <1>1, <1>2, <2>1, <2>2, Sizes DEF CacheRight
  <1> QED BY <1>3, <1>4

\* A block takes the right bytes from one page or two.
LEMMA BlockBytes ==
  ASSUME BufferFits, Typed, LengthInv, BytesInv, Block
  PROVE  Right(out', Len(wire), offset, file, low)
  <1>1. pc = "block" BY BlockParts
  <1>2. Lead \in Seq(Octet) /\ Len(Lead) \in Nat BY LeadFacts, Sizes DEF Typed
  <1>3. /\ Amount \in Nat /\ At \in Nat /\ Index \in Nat /\ CacheSize - Index \in Nat
        /\ Amount <= CacheSize /\ Index + (CacheSize - Index) <= CacheSize
        /\ At + Index = offset + done
    BY <1>1, <1>2, AmountFacts, AtFacts, Sizes DEF BufferFits
  <1>4. Here \in [0..CacheSize - 1 -> Octet] /\ After \in [0..CacheSize - 1 -> Octet]
    BY <1>1, CacheFacts
  <1>5. CacheRight(Here, At, file, low) /\ CacheRight(After, At + CacheSize, file, low)
    BY <1>1, HereRight
  <1>6. offset \in Nat /\ done \in Nat /\ HeaderSize + done \in Nat /\ HeaderSize + done >= HeaderSize
    BY <1>1, Sizes DEF Typed, DataTyped
  <1>7. Len(wire) \in Nat /\ Len(wire) + Len(Lead) = HeaderSize + done
    <2>1. Len(wire) = IF done = 0 THEN 0 ELSE HeaderSize + done BY <1>1 DEF LengthInv
    <2>2. Len(Lead) = IF done = 0 THEN HeaderSize ELSE 0 BY LeadFacts DEF Typed
    <2> QED BY <1>6, <2>1, <2>2, Sizes
  <1>8. Right(Lead, Len(wire), offset, file, low)
    <2>1. CASE done = 0
      <3>1. Len(wire) = 0 /\ Len(Lead) = HeaderSize BY <1>1, <2>1, LeadFacts DEF LengthInv, Typed
      <3>2. \A k \in 1..HeaderSize : Lead[k] = Header BY <3>1, LeadFacts DEF Typed
      <3>3. DOMAIN Lead = 1..HeaderSize BY <1>2, <3>1, SeqParts
      <3> QED BY <3>1, <3>2, <3>3, Sizes DEF Right
    <2>2. CASE done # 0
      <3>1. Lead = <<>> BY <2>2 DEF Lead
      <3> QED BY <3>1, RightOfNothing
    <2> QED BY <2>1, <2>2
  <1>9. CASE Index + Amount < CacheSize
    <2> DEFINE f == FromCache(Here, Index, Amount)
    <2>1. Index + Amount <= CacheSize BY <1>3, <1>9, Sizes
    <2>2. f \in Seq(Octet) BY <1>3, <1>4, <2>1, FromCacheFacts, Sizes
    <2>3. offset + (HeaderSize + done) - HeaderSize = At + Index BY <1>3, <1>6, Sizes
    <2>4. Right(f, HeaderSize + done, offset, file, low)
      BY <1>3, <1>4, <1>5, <1>6, <2>1, <2>3, RightOfCache
    <2>5. out' = Lead \o f BY <1>9, BlockParts DEF WithinPage
    <2> HIDE DEF f
    <2>6. Right(Lead \o f, Len(wire), offset, file, low)
      BY <1>2, <1>6, <1>7, <1>8, <2>2, <2>4, RightOfConcat
    <2> QED BY <2>5, <2>6
  <1>10. CASE ~(Index + Amount < CacheSize)
    <2>n. PICK n \in Nat : n = CacheSize - Index BY <1>3
    <2>r. PICK r \in Nat : r = Amount - (CacheSize - Index) BY <1>3, <1>10, Sizes
    <2>m. PICK m \in Nat : m = HeaderSize + done + n BY <1>6
    <2> DEFINE f == FromCache(Here, Index, n)
               g == FromCache(After, 0, r)
    <2>1. 0 + r <= CacheSize /\ Index + n <= CacheSize /\ Index + n = CacheSize
      BY <1>3, <1>10, <2>n, <2>r, Sizes
    <2>2. /\ m >= HeaderSize /\ At + CacheSize \in Nat
          /\ offset + m - HeaderSize = (At + CacheSize) + 0
      BY <1>3, <1>6, <2>1, <2>m, Sizes
    <2>3. offset + (HeaderSize + done) - HeaderSize = At + Index BY <1>3, <1>6, Sizes
    <2>4. f \in Seq(Octet) /\ Len(f) = n
      BY <1>3, <1>4, <2>1, FromCacheFacts, Sizes
    <2>5. Right(f, HeaderSize + done, offset, file, low)
      BY <1>3, <1>4, <1>5, <1>6, <2>1, <2>3, RightOfCache
    <2>6. g \in Seq(Octet) BY <1>4, <2>1, FromCacheFacts, Sizes
    <2>g. Right(g, m, offset, file, low)
      BY <1>4, <1>5, <1>6, <2>1, <2>2, RightOfCache
    <2>7. out' = (Lead \o f) \o g BY <1>10, <2>n, <2>r, BlockParts, Zenon DEF OverPages
    <2> HIDE DEF f, g
    <2>c. Lead \o f \in Seq(Octet) /\ Len(Lead \o f) = Len(Lead) + Len(f)
      BY <1>2, <2>4, ConcatProperties
    <2>8. m = Len(wire) + Len(Lead \o f) BY <1>2, <1>6, <1>7, <2>4, <2>c, <2>m, Sizes
    <2>9. Right(Lead \o f, Len(wire), offset, file, low)
      BY <1>2, <1>6, <1>7, <1>8, <2>4, <2>5, RightOfConcat
    <2>10. Right((Lead \o f) \o g, Len(wire), offset, file, low)
      BY <1>6, <1>7, <2>6, <2>c, <2>g, <2>8, <2>9, RightOfConcat
    <2> QED BY <2>7, <2>10
  <1> QED BY <1>9, <1>10

\* Every step keeps BytesInv.
LEMMA BytesStep ==
  ASSUME BufferFits, Typed, LengthInv, BytesInv, [Next]_vars PROVE BytesInv'
  <1> USE DEF dataVars
  <1>1. CASE \E what, o, n, q : Gets(what, o, n, q)
    <2>1. pc' \in {"block", "overrun"} /\ wire' = <<>> /\ page' = NoPage BY <1>1 DEF Gets, Get
    <2> QED BY <2>1, RightOfNothing DEF BytesInv
  <1>2. CASE Block
    <2>1. /\ pc = "block" /\ pc' = "write"
          /\ UNCHANGED <<file, op, offset, wire, low>>
      BY <1>2, BlockParts DEF history
    <2>2. Right(out, Len(wire), offset, file, low)' BY <1>2, <2>1, BlockBytes
    <2>3. CacheRight(cache, page, file, low)' BY <1>2, <2>1, BlockParts, HereRight
    <2>4. op \in Reads BY <2>1 DEF Typed, PhaseTyped
    <2> QED BY <2>1, <2>2, <2>3, <2>4 DEF BytesInv
  <1>3. CASE Write
    <2>1. /\ pc = "write" /\ pc' # "write" /\ UNCHANGED <<file, op, offset, page, cache, low>>
          /\ wire' = wire \/ wire' = wire \o out
      BY <1>3 DEF Write, history
    <2>2. wire \in Seq(Octet) /\ out \in Seq(Octet) /\ offset \in Nat /\ Len(wire) \in Nat
      BY SeqParts, Sizes DEF Typed, DataTyped
    <2>3. Right(wire, 0, offset, file, low) /\ Right(out, Len(wire), offset, file, low)
      BY <2>1 DEF BytesInv
    <2>4. Len(wire) = 0 + Len(wire) BY <2>2
    <2>5. Right(wire \o out, 0, offset, file, low) BY <2>2, <2>3, <2>4, RightOfConcat
    <2>6. Right(wire, 0, offset, file, low)' BY <2>1, <2>3, <2>5
    <2>7. op \in Reads BY <2>1 DEF Typed, PhaseTyped
    <2> QED BY <2>1, <2>6, <2>7 DEF BytesInv
  <1>4. CASE GetVerdict
    <2>1. pc' # "write" /\ UNCHANGED <<file, op, offset, page, cache, wire, low>>
      BY <1>4 DEF GetVerdict, history
    <2> QED BY <2>1 DEF BytesInv
  <1>5. CASE \E what \in Reads : OpenFails(what)
    <2>1. pc' # "write" /\ wire' = <<>> /\ page' = NoPage
      BY <1>5 DEF OpenFails, Begins, Typed, PhaseTyped
    <2> QED BY <2>1, RightOfNothing DEF BytesInv
  <1>6. CASE ReadFails
    <2>1. pc' # "write" /\ UNCHANGED <<file, op, offset, page, cache, wire, low>>
      BY <1>6 DEF ReadFails
    <2> QED BY <2>1 DEF BytesInv
  <1>7. CASE Respond \/ OverrunKills
    <2>1. pc' # "write" /\ wire' = <<>> /\ page' = NoPage
      BY <1>7 DEF Respond, OverrunKills, Cleared
    <2> QED BY <2>1, RightOfNothing DEF BytesInv
  <1>8. CASE \/ SendObjectInfo \/ EndEditObject \/ Stat
             \/ \E n \in 0..MaxSize : TruncateObject(n)
    <2>1. /\ pc = "idle" /\ UNCHANGED <<pc, wire, page>>
      BY <1>8 DEF SendObjectInfo, EndEditObject, Stat, TruncateObject
    <2>2. op \notin Reads BY <2>1 DEF Typed, PhaseTyped, Reads
    <2> QED BY <2>1, <2>2, RightOfNothing DEF BytesInv
  <1>9. CASE \/ \E what, o, n, got : Receives(what, o, n, got)
             \/ ReadUsb \/ ReadEnds \/ SendVerdict
    <2>1. pc \in {"idle", "read", "stored"} /\ pc' # "write" /\ UNCHANGED <<wire, page>>
      <3>1. CASE \E what, o, n, got : Receives(what, o, n, got)
        BY <3>1 DEF Receives, Receive, Begins
      <3>2. CASE ReadUsb \/ ReadEnds \/ SendVerdict
        BY <3>2 DEF ReadUsb, ReadEnds, SendVerdict
      <3> QED BY <1>9, <3>1, <3>2
    <2>2. op \notin Reads BY <2>1 DEF Typed, PhaseTyped, Reads, Writes
    <2> QED BY <2>1, <2>2, RightOfNothing DEF BytesInv
  <1>10. CASE Cancel \/ UNCHANGED vars
    <2>1. UNCHANGED <<file, op, pc, offset, page, cache, wire, out, low>>
      BY <1>10 DEF Cancel, vars, history
    <2> QED BY <2>1 DEF BytesInv
  <1>11. CASE \E n \in 0..MaxSize : LocalResize(n)
    <2>1. PICK n \in 0..MaxSize : LocalResize(n) BY <1>11
    <2>2. /\ UNCHANGED <<op, pc, offset, page, cache, wire, out>>
          /\ file' = Resized(file, n) /\ low' = IF pc = "idle" THEN low ELSE Minimum(low, n)
      BY <2>1 DEF LocalResize
    <2>3. CASE op \notin Reads
      <3>1. pc # "write" BY <2>3 DEF Typed, PhaseTyped
      <3> QED BY <2>2, <2>3, <3>1, RightOfNothing DEF BytesInv
    <2>4. CASE op \in Reads
      <3>1. pc # "idle" BY <2>4 DEF Typed, PhaseTyped, Reads
      <3>2. low' = Minimum(low, n) BY <2>2, <3>1
      <3>3. /\ file \in Seq(Bytes) /\ low \in Nat /\ low <= Len(file) /\ offset \in Nat
            /\ wire \in Seq(Octet) /\ out \in Seq(Octet) /\ Len(wire) \in Nat
        BY SeqParts, Sizes DEF Typed, FilesTyped, DataTyped
      <3>4. Right(wire, 0, offset, Resized(file, n), Minimum(low, n))
        BY <3>3, RightKept DEF BytesInv
      <3>5. pc = "write" => Right(out, Len(wire), offset, Resized(file, n), Minimum(low, n))
        BY <3>3, RightKept DEF BytesInv
      <3>6. page # NoPage => page \in Nat
        <4>1. \A k \in 0..2 * MaxSize : k * CacheSize \in Nat BY Sizes, Distributes
        <4> QED BY <4>1 DEF Typed, DataTyped, Pages, NoPage
      <3>7. page # NoPage => CacheRight(cache, page, Resized(file, n), Minimum(low, n))
        BY <3>3, <3>6, CacheKept DEF BytesInv
      <3> QED BY <2>2, <2>4, <3>2, <3>4, <3>5, <3>7 DEF BytesInv
    <2> QED BY <2>3, <2>4
  <1>12. CASE Overrun
    <2>1. /\ pc = "overrun" /\ pc' = "respond" /\ page' = PageOf(offset)
          /\ cache' = Loaded(cache, PageOf(offset)) /\ UNCHANGED <<file, op, offset, low>>
          /\ wire' = wire \/ \E n : wire' = [k \in 1..n |-> Header] /\ n = HeaderSize + actual
      BY <1>12 DEF Overrun, history
    <2>2. /\ offset \in 0..MaxSize /\ cache \in [0..CacheSize - 1 -> Octet] /\ actual < 0
          /\ file \in Seq(Bytes) /\ low \in Nat /\ low <= Len(file) /\ Len(file) \in Nat
          /\ op \in Reads /\ actual \in Int
      BY <2>1, SeqParts, Sizes DEF Typed, DataTyped, FilesTyped, PhaseTyped
    <2>3. PICK p \in Nat : p = PageOf(offset) BY <2>2, FirstPage
    <2>4. CacheRight(Loaded(cache, p), p, file, low)
      BY <2>2, <2>3, LoadedFacts, Sizes DEF CacheRight
    <2>5. Right(wire', 0, offset, file, low)
      <3>1. CASE wire' = wire BY <3>1 DEF BytesInv
      <3>2. CASE \E n : wire' = [k \in 1..n |-> Header] /\ n = HeaderSize + actual
        <4>1. PICK n : wire' = [k \in 1..n |-> Header] /\ n = HeaderSize + actual BY <3>2
        <4>2. DOMAIN wire' = 1..n /\ n \in Int /\ n < HeaderSize BY <2>2, <4>1, Sizes
        <4> QED BY <4>1, <4>2, Sizes DEF Right
      <3> QED BY <2>1, <3>1, <3>2
    <2> QED BY <2>1, <2>2, <2>3, <2>4, <2>5 DEF BytesInv
  <1> QED BY <1>1, <1>2, <1>3, <1>4, <1>5, <1>6, <1>7, <1>8, <1>9, <1>10, <1>11, <1>12, SendKinds
          DEF Elsewhere, Aside

\* The host gets the header and then the bytes of the file from the offset on, as
\* far as they were not cut off meanwhile, where a page holds a whole USB write, as
\* buildconf.h asks for.
THEOREM SentIsFileCorrect == ASSUME BufferFits PROVE Spec => []SentIsFile
  <1>1. Typed /\ BytesInv => SentIsFile
    <2> SUFFICES ASSUME Typed, BytesInv, NEW k \in DOMAIN wire
                 PROVE  IF k <= HeaderSize THEN wire[k] = Header
                        ELSE offset + k - HeaderSize <= low => wire[k] = file[offset + k - HeaderSize]
      BY DEF SentIsFile
    <2>1. k \in Nat /\ offset \in Nat BY SeqParts, Sizes DEF Typed, DataTyped
    <2>2. 0 + k = k /\ offset + 0 + k - HeaderSize = offset + k - HeaderSize BY <2>1, Sizes
    <2> QED BY <2>2 DEF BytesInv, Right
  <1>2. Typed /\ LengthInv /\ BytesInv /\ [Next]_vars => BytesInv' BY BytesStep
  <1> QED BY <1>1, <1>2, InitTyped, NextTyped, InitLength, LengthStep, InitBytes, PTL DEF Spec

-----------------------------------------------------------------------------
(* The bytes received.                                                      *)

\* The first d bytes the host sends.
Given(d) == [k \in 1..d |-> Sent(k)]

\* While nothing fails and nobody else changes the file, the bytes received so far
\* are in it, in their place; those of SendObject come to an empty file. The
\* reads end with the last byte, or with the header of SendObject.
StoredInv ==
  /\ op = "info" /\ locals = 0 => file = <<>>
  /\ op \in Writes /\ ~failed /\ locals = 0 =>
       /\ file = Written(base, offset, Given(done))
       /\ (pc = "stored" /\ ~cancelled) \/ resp = "ok" =>
            done = actual \/ (op = "send" /\ done = 0)

\* The first bytes of what the host sends.
LEMMA GivenFacts ==
  ASSUME NEW d \in Nat, d <= MaxSize
  PROVE  /\ Given(d) \in Seq(Bytes) /\ Len(Given(d)) = d
         /\ \A k \in 1..d : Given(d)[k] = Sent(k)
  <1>1. \A k \in 1..d : Sent(k) \in Bytes BY Sizes DEF Sent, Bytes
  <1>2. Given(d) \in [1..d -> Bytes] BY <1>1 DEF Given
  <1>3. Given(d) \in Seq(Bytes) /\ Len(Given(d)) = d BY <1>2, MadeSeq
  <1>4. \A k \in 1..d : Given(d)[k] = Sent(k) BY DEF Given
  <1> QED BY <1>3, <1>4

\* What the host sends next continues what it sent before.
LEMMA NextContinues ==
  ASSUME NEW d \in Nat, NEW n \in Nat, done' = d + n, d + n <= MaxSize
  PROVE  /\ NextBytes(n) \in Seq(Bytes) /\ Len(NextBytes(n)) = n
         /\ \A k \in 1..n : NextBytes(n)[k] = Sent(d + k)
  <1>1. PICK e \in Nat : e = d + n OBVIOUS
  <1>2. /\ NextBytes(n) \in Seq(Bytes) /\ Len(NextBytes(n)) = n
        /\ \A k \in 1..n : NextBytes(n)[k] = Sent(e - n + k)
    BY <1>1, NextBytesFacts, Sizes
  <1>3. \A k \in 1..n : e - n + k = d + k BY <1>1
  <1> QED BY <1>2, <1>3

\* What is received so far and the next bytes are what the host sends.
LEMMA NextIsGiven ==
  ASSUME NEW n \in Nat, done' = n, n <= MaxSize
  PROVE  NextBytes(n) = Given(n)
  <1>1. done' = 0 + n /\ 0 + n <= MaxSize BY Sizes
  <1>2. /\ NextBytes(n) \in Seq(Bytes) /\ Len(NextBytes(n)) = n
        /\ \A k \in 1..n : NextBytes(n)[k] = Sent(0 + k)
    BY <1>1, NextContinues
  <1>3. \A k \in 1..n : NextBytes(n)[k] = Given(n)[k] BY <1>2, GivenFacts
  <1> QED BY <1>2, <1>3, GivenFacts, SeqEqual

\* The l bytes w are f, z bytes long, with the n bytes b written at o.
WrittenAs(w, l, f, z, o, b, n) ==
  /\ w \in Seq(Bytes) /\ Len(w) = l
  /\ \A p \in 1..l : w[p] = IF p \in o + 1..o + n THEN b[p - o]
                            ELSE IF p <= z THEN f[p] ELSE Blank

\* WrittenFacts, with a name for each part.
LEMMA WrittenIs ==
  ASSUME NEW f \in Seq(Bytes), NEW z \in Nat, z = Len(f), NEW o \in Nat,
         NEW b \in Seq(Bytes), NEW n \in Nat \ {0}, n = Len(b),
         NEW w, w = Written(f, o, b), NEW l \in Nat, l = Maximum(z, o + n)
  PROVE  WrittenAs(w, l, f, z, o, b, n)
  <1>1. b # <<>> OBVIOUS
  <1>2. /\ Written(f, o, b) \in Seq(Bytes)
        /\ Len(Written(f, o, b)) = Maximum(Len(f), o + Len(b))
        /\ \A p \in 1..Maximum(Len(f), o + Len(b)) :
             Written(f, o, b)[p] = IF p \in o + 1..o + Len(b) THEN b[p - o]
                                   ELSE IF p <= Len(f) THEN f[p] ELSE Blank
    BY <1>1, WrittenFacts, Sizes
  <1>3. l = Maximum(Len(f), o + Len(b)) OBVIOUS
  <1> QED BY <1>2, <1>3 DEF WrittenAs

\* Two writes, the second where the first ended, are one.
LEMMA WrittenOn ==
  ASSUME NEW f \in Seq(Bytes), NEW o \in Nat, NEW d \in Nat, NEW n \in Nat, NEW e \in Nat,
         e = d + n, done' = e, e <= MaxSize, NEW q \in Nat, q = o + d
  PROVE  Written(Written(f, o, Given(d)), q, NextBytes(n)) = Written(f, o, Given(e))
  <1>1. Given(d) \in Seq(Bytes) /\ Len(Given(d)) = d /\ \A k \in 1..d : Given(d)[k] = Sent(k)
    BY GivenFacts, Sizes
  <1>2. Given(e) \in Seq(Bytes) /\ Len(Given(e)) = e /\ \A k \in 1..e : Given(e)[k] = Sent(k)
    BY GivenFacts, Sizes
  <1>3. /\ NextBytes(n) \in Seq(Bytes) /\ Len(NextBytes(n)) = n
        /\ \A k \in 1..n : NextBytes(n)[k] = Sent(d + k)
    BY NextContinues, Sizes
  <1>4. CASE d = 0
    <2>1. Given(d) = <<>> BY <1>1, <1>4, EmptySeq
    <2>2. Written(f, o, Given(d)) = f BY <2>1 DEF Written
    <2>3. n = e /\ q = o BY <1>4
    <2>4. NextBytes(n) = Given(e) BY <2>3, NextIsGiven
    <2> QED BY <2>2, <2>3, <2>4
  <1>5. CASE n = 0
    <2>1. NextBytes(n) = <<>> BY <1>3, <1>5, EmptySeq
    <2>2. d = e BY <1>5
    <2> QED BY <2>1, <2>2 DEF Written
  <1>6. CASE d # 0 /\ n # 0
    <2>1. PICK z \in Nat : z = Len(f) BY SeqParts
    <2>2. PICK l \in Nat, m \in Nat : l = Maximum(z, o + d) /\ m = Maximum(z, o + e)
      BY DEF Maximum
    <2>3. /\ z <= l /\ o + d <= l /\ (l = z \/ l = o + d)
          /\ z <= m /\ o + e <= m /\ (m = z \/ m = o + e)
          /\ m = Maximum(l, q + n) /\ l <= m
      BY <2>2 DEF Maximum
    <2>4. PICK w : w = Written(f, o, Given(d)) OBVIOUS
    <2>5. PICK v : v = Written(f, o, Given(e)) OBVIOUS
    <2>6. PICK u : u = Written(w, q, NextBytes(n)) OBVIOUS
    <2>7. /\ w \in Seq(Bytes) /\ Len(w) = l
          /\ \A p \in 1..l : w[p] = IF p \in o + 1..o + d THEN Given(d)[p - o]
                                    ELSE IF p <= z THEN f[p] ELSE Blank
      <3>1. PICK h : h = Given(d) OBVIOUS
      <3>2. h \in Seq(Bytes) /\ d = Len(h) /\ d \in Nat \ {0} BY <1>1, <1>6, <3>1
      <3>3. w = Written(f, o, h) BY <2>4, <3>1
      <3>4. WrittenAs(w, l, f, z, o, h, d) BY <2>1, <2>2, <3>2, <3>3, WrittenIs
      <3> QED BY <3>1, <3>4 DEF WrittenAs
    <2>8. /\ v \in Seq(Bytes) /\ Len(v) = m
          /\ \A p \in 1..m : v[p] = IF p \in o + 1..o + e THEN Given(e)[p - o]
                                    ELSE IF p <= z THEN f[p] ELSE Blank
      <3>1. PICK h : h = Given(e) OBVIOUS
      <3>2. h \in Seq(Bytes) /\ e = Len(h) /\ e \in Nat \ {0} BY <1>2, <1>6, <3>1
      <3>3. v = Written(f, o, h) BY <2>5, <3>1
      <3>4. WrittenAs(v, m, f, z, o, h, e) BY <2>1, <2>2, <3>2, <3>3, WrittenIs
      <3> QED BY <3>1, <3>4 DEF WrittenAs
    <2>9. /\ u \in Seq(Bytes) /\ Len(u) = m
          /\ \A p \in 1..m : u[p] = IF p \in q + 1..q + n THEN NextBytes(n)[p - q]
                                    ELSE IF p <= l THEN w[p] ELSE Blank
      <3>1. PICK h : h = NextBytes(n) OBVIOUS
      <3>2. h \in Seq(Bytes) /\ n = Len(h) /\ n \in Nat \ {0} BY <1>3, <1>6, <3>1
      <3>3. u = Written(w, q, h) BY <2>6, <3>1
      <3>4. w \in Seq(Bytes) /\ l = Len(w) /\ m = Maximum(l, q + n) BY <2>3, <2>7
      <3>5. WrittenAs(u, m, w, l, q, h, n) BY <3>2, <3>3, <3>4, WrittenIs
      <3> QED BY <3>1, <3>5 DEF WrittenAs
    <2>10. ASSUME NEW p \in 1..m PROVE u[p] = v[p]
      <3>1. CASE p \in q + 1..q + n
        <4>1. p - q \in 1..n /\ p - o \in 1..e /\ d + (p - q) = p - o /\ p \in o + 1..o + e
          BY <3>1
        <4>2. u[p] = Sent(d + (p - q)) BY <1>3, <2>9, <3>1, <4>1
        <4>3. v[p] = Sent(p - o) BY <1>2, <2>8, <4>1
        <4> QED BY <4>1, <4>2, <4>3
      <3>2. CASE p \in o + 1..o + d
        <4>1. /\ p \notin q + 1..q + n /\ p \in 1..l /\ p <= l /\ p \in o + 1..o + e
              /\ p - o \in 1..d /\ p - o \in 1..e
          BY <2>3, <3>2
        <4>2. u[p] = w[p] BY <2>9, <4>1
        <4>3. w[p] = Sent(p - o) BY <1>1, <2>7, <3>2, <4>1
        <4>4. v[p] = Sent(p - o) BY <1>2, <2>8, <4>1
        <4> QED BY <4>2, <4>3, <4>4
      <3>3. CASE p \notin q + 1..q + n /\ p \notin o + 1..o + d
        <4>1. p \notin o + 1..o + e BY <3>3
        <4>2. v[p] = IF p <= z THEN f[p] ELSE Blank BY <2>8, <4>1
        <4>3. p \in 1..l => w[p] = IF p <= z THEN f[p] ELSE Blank BY <2>7, <3>3
        <4>4. u[p] = IF p <= l THEN w[p] ELSE Blank BY <2>9, <3>3
        <4>5. (p <= l => p \in 1..l) /\ (~(p <= l) => ~(p <= z)) BY <2>3
        <4> QED BY <4>2, <4>3, <4>4, <4>5
      <3> QED BY <3>1, <3>2, <3>3
    <2>11. u = v BY <2>8, <2>9, <2>10, SeqEqual
    <2> QED BY <2>4, <2>5, <2>6, <2>11
  <1> QED BY <1>4, <1>5, <1>6

\* StoredInv holds at the start.
LEMMA InitStored == Init => StoredInv
  BY DEF Init, StoredInv, Writes

\* A write of what comes with the first read puts it at the offset of the request.
LEMMA ReceiveStored ==
  ASSUME Typed, StoredInv, NEW what, NEW o, NEW n, NEW got, Receives(what, o, n, got)
  PROVE  StoredInv'
  <1>1. /\ what \in Writes /\ n \in Nat /\ got \in Nat /\ got <= n /\ n <= MaxSize
        /\ op' = what /\ base' = file /\ offset' = o /\ actual' = n /\ done' = got
        /\ locals' = locals /\ resp' = "none"
    BY Sizes DEF Receives, Receive, Begins
  <1>2. PICK stored \in {0, got} :
          /\ file' = Written(IF what = "send" /\ ~fd THEN <<>> ELSE file, o, NextBytes(stored))
          /\ failed' = (stored < got)
    BY DEF Receives, Receive
  <1>3. (what = "send" => op = "info") /\ got \in {0, Minimum(n, RxBuffer - HeaderSize)}
    BY DEF Receives, FirstData
  <1>4. ASSUME ~failed', locals = 0 PROVE file' = Written(file, o, Given(got))
    <2>1. ~(stored < got) BY <1>2, <1>4, Zenon
    <2>2. stored = got BY <1>1, <2>1
    <2>3. what = "send" => file = <<>> BY <1>3, <1>4 DEF StoredInv
    <2>6. (IF what = "send" /\ ~fd THEN <<>> ELSE file) = file BY <2>3
    <2>4. file' = Written(file, o, NextBytes(got)) BY <1>2, <2>2, <2>6, Zenon
    <2>5. NextBytes(got) = Given(got)
      <3>1. done' = got /\ got \in Nat /\ got <= MaxSize BY <1>1, Sizes
      <3> QED BY <3>1, NextIsGiven
    <2> QED BY <2>4, <2>5
  <1>5. pc' = "stored" => got = n \/ (what = "send" /\ got = 0)
    <2>1. pc' = "stored" => ~ReadsOn(got, TRUE) /\ ~(what = "send_partial" /\ n > got)
      BY DEF Receives, Receive
    <2>2. what = "send" /\ ~ReadsOn(got, TRUE) => got = n \/ got = 0
      BY <1>1, <1>3, Sizes DEF ReadsOn, Minimum
    <2>3. ~(n > got) => got = n BY <1>1
    <2> QED BY <1>1, <2>1, <2>2, <2>3 DEF Writes
  <1>6. op' # "info" BY <1>1 DEF Writes
  <1> QED BY <1>1, <1>4, <1>5, <1>6 DEF StoredInv

\* The next read is written behind what was stored before.
LEMMA ReadUsbStored ==
  ASSUME Typed, StoredInv, ReadUsb
  PROVE  StoredInv'
  <1>1. PICK got : got = Minimum(RxBuffer, actual - done) OBVIOUS
  <1>2. /\ pc = "read" /\ done' = done + got
        /\ pc' = IF ReadsOn(got, FALSE) THEN "read" ELSE "stored"
        /\ ~failed' => ~failed /\ file' = Written(file, offset + done, NextBytes(got))
        /\ UNCHANGED <<op, offset, actual, cancelled, resp, locals, base>>
    <2>1. \/ failed' = TRUE
          \/ failed /\ failed' = failed
          \/ ~failed /\ file' = Written(file, offset + done, NextBytes(got))
      BY <1>1 DEF ReadUsb
    <2> QED BY <1>1, <2>1 DEF ReadUsb
  <1>3. done \in Nat /\ actual \in Nat /\ done <= actual /\ offset \in Nat /\ actual <= MaxSize
    BY <1>2, Sizes DEF Typed, DataTyped
  <1>4. got \in Nat /\ done + got <= actual /\ (got # RxBuffer => done + got = actual)
    BY <1>1, <1>3, Sizes DEF Minimum
  <1>5. op \in Writes /\ resp = "none" BY <1>2 DEF Typed, PhaseTyped
  <1>6. ASSUME ~failed', locals = 0 PROVE file' = Written(base, offset, Given(done'))
    <2>1. PICK e \in Nat, q \in Nat : e = done + got /\ q = offset + done BY <1>3, <1>4
    <2>2. file = Written(base, offset, Given(done)) BY <1>2, <1>5, <1>6 DEF StoredInv
    <2>3. base \in Seq(Bytes) BY DEF Typed, FilesTyped
    <2>4. done' = e /\ e <= MaxSize BY <1>2, <1>3, <1>4, <2>1, Sizes
    <2>5. Written(Written(base, offset, Given(done)), q, NextBytes(got))
            = Written(base, offset, Given(e))
      BY <1>3, <1>4, <2>1, <2>3, <2>4, WrittenOn
    <2> QED BY <1>2, <1>6, <2>1, <2>2, <2>4, <2>5
  <1>7. pc' = "stored" => done' = actual BY <1>2, <1>4 DEF ReadsOn
  <1> QED BY <1>2, <1>5, <1>6, <1>7 DEF StoredInv, Writes

\* Every step keeps StoredInv.
LEMMA StoredStep == Typed /\ StoredInv /\ [Next]_vars => StoredInv'
  <1> SUFFICES ASSUME Typed, StoredInv, [Next]_vars PROVE StoredInv' OBVIOUS
  <1> USE DEF history, dataVars
  <1>1. CASE \E what, o, n, got : Receives(what, o, n, got) BY <1>1, ReceiveStored
  <1>2. CASE ReadUsb BY <1>2, ReadUsbStored
  <1>3. CASE \/ \E what, o, n, q : Gets(what, o, n, q)
             \/ \E what \in Reads : OpenFails(what)
    <2>1. op' \in Reads BY <1>3 DEF Gets, Get, OpenFails, Begins
    <2> QED BY <2>1 DEF StoredInv, Reads, Writes
  <1>4. CASE Block \/ Overrun \/ ReadFails \/ Write \/ GetVerdict
    <2>1. op' = op /\ pc \in {"block", "overrun", "write", "verdict"}
      BY <1>4 DEF Block, Overrun, ReadFails, Write, GetVerdict
    <2>2. op \in Reads BY <2>1 DEF Typed, PhaseTyped
    <2> QED BY <2>1, <2>2 DEF StoredInv, Reads, Writes
  <1>5. CASE SendObjectInfo BY <1>5 DEF SendObjectInfo, StoredInv, Writes
  <1>6. CASE EndEditObject \/ Stat \/ Respond \/ OverrunKills \/ \E n \in 0..MaxSize : TruncateObject(n)
    <2>1. op' = "none"
      BY <1>6 DEF EndEditObject, Stat, Respond, OverrunKills, Cleared, TruncateObject
    <2> QED BY <2>1 DEF StoredInv, Writes
  <1>7. CASE ReadEnds
    <2>1. /\ pc = "read" /\ pc' = "stored" /\ (cancelled \/ failed' = TRUE)
          /\ failed' = failed \/ failed' = TRUE
          /\ UNCHANGED <<file, op, offset, actual, done, cancelled, resp, locals, base>>
      BY <1>7 DEF ReadEnds
    <2>2. resp = "none" /\ op # "info" BY <2>1 DEF Typed, PhaseTyped
    <2> QED BY <2>1, <2>2 DEF StoredInv
  <1>8. CASE SendVerdict
    <2>1. /\ pc = "stored" /\ pc' = "respond" /\ (resp' = "ok" => ~cancelled)
          /\ UNCHANGED <<file, op, offset, actual, done, locals, base, failed>>
      BY <1>8 DEF SendVerdict
    <2> QED BY <2>1 DEF StoredInv
  <1>9. CASE Cancel \/ UNCHANGED vars
    <2>1. /\ UNCHANGED <<file, op, pc, offset, actual, done, resp, locals, base, failed>>
          /\ cancelled' = cancelled \/ cancelled' = TRUE
      BY <1>9 DEF Cancel, vars
    <2> QED BY <2>1 DEF StoredInv
  <1>10. CASE \E n \in 0..MaxSize : LocalResize(n)
    <2>1. locals' = locals + 1 BY <1>10 DEF LocalResize
    <2>2. locals' # 0 BY <2>1 DEF Typed, FilesTyped
    <2> QED BY <2>2 DEF StoredInv
  <1> QED BY <1>1, <1>2, <1>3, <1>4, <1>5, <1>6, <1>7, <1>8, <1>9, <1>10, SendKinds
          DEF Elsewhere, Aside

\* SendObject and SendPartialObject store the bytes received at the offset, however
\* they were cut into reads, and answer OK only when they got all of them, or
\* when SendObject got its header alone.
THEOREM StoredIsGivenCorrect == Spec => []StoredIsGiven
  <1>1. StoredInv => StoredIsGiven
    BY DEF StoredInv, StoredIsGiven, Writes, Given
  <1> QED BY <1>1, InitTyped, NextTyped, InitStored, StoredStep, PTL DEF Spec
=============================================================================
