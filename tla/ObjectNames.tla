---------------------------- MODULE ObjectNames ----------------------------
(***************************************************************************)
(* The two ways of an object's name.  A host sends UTF-16 units, which     *)
(* become the bytes of a file name (unicode2charstring) and are cleaned    *)
(* (sanitize_name) before a file is created or renamed.  A file name of    *)
(* the disk, cleaned or not, is told to the host as UTF-16 units           *)
(* (poke_string, char2unicodestring).                                      *)
(*                                                                         *)
(* A file name is a sequence of bytes other than 0, a name on the wire a   *)
(* sequence of units other than 0; the terminating 0 is left out.          *)
(***************************************************************************)
EXTENDS Naturals, FiniteSetsExt, SequencesExt

CONSTANTS
  MaxBytes,   \* FS_HANDLE_MAX_FILENAME_SIZE, 256: bytes kept of a name that is sent
  MaxUnits,   \* 254: units told of a name
  NoName

ASSUME NamesAssumption == MaxBytes \in Nat \ {0} /\ MaxUnits \in Nat \ {0}

\* A unit of a name on the wire: 16 bits, not 0.
Unit == {u \in Nat : 0 < u /\ u < 65536}

Dot   == 46
Space == 32
Under == 95

\* The byte at i, the 0 that ends the string behind the last one.
At(s, i) == IF i \in DOMAIN s THEN s[i] ELSE 0

Tail2(b) == b \in 128..191   \* 10xxxxxx

-----------------------------------------------------------------------------
(* From the host: units to bytes.                                           *)

\* utf8_encode of a 16-bit unit: a surrogate is encoded like any other.
utf8_encode(u) ==
  IF u < 128 THEN <<u>>
  ELSE IF u < 2048 THEN <<192 + (u \div 64), 128 + (u % 64)>>
  ELSE <<224 + (u \div 4096), 128 + ((u \div 64) % 64), 128 + (u % 64)>>

Encoded(w) == FlattenSeq([i \in DOMAIN w |-> utf8_encode(w[i])])

\* Units are encoded while they fit; the rest of the name is dropped, and no
\* caller looks at the result that says so.
unicode2charstring(w) ==
  Encoded(SubSeq(w, 1, Max({k \in 0..Len(w) : Len(Encoded(SubSeq(w, 1, k))) <= MaxBytes})))

\* Halves of a character beyond 16 bits.
Surrogate == 55296..57343

\* UTF-8 by the number of bytes: the lead bytes, the least character.
Lead  == <<1..127, 192..223, 224..239, 240..247>>
Least == <<1, 128, 2048, 65536>>

\* The bits of the n bytes at i.
Bits(s, i, n) ==
  LET b(k) == At(s, i + k) % 64
  IN CASE n = 1 -> At(s, i)
       [] n = 2 -> (At(s, i) % 32) * 64 + b(1)
       [] n = 3 -> (At(s, i) % 16) * 4096 + b(1) * 64 + b(2)
       [] n = 4 -> (At(s, i) % 8) * 262144 + b(1) * 4096 + b(2) * 64 + b(3)

\* A UTF-8 character of n bytes at i: neither overlong, nor a surrogate, nor
\* beyond U+10FFFF.
Character(s, i, n) ==
  /\ At(s, i) \in Lead[n] /\ \A k \in 1..n - 1 : Tail2(At(s, i + k))
  /\ Bits(s, i, n) >= Least[n] /\ Bits(s, i, n) \notin Surrogate /\ Bits(s, i, n) <= 1114111

utf8_validate(s) ==
  LET valid[i \in 1..Len(s) + 1] ==
        \/ i = Len(s) + 1
        \/ \E n \in 1..4 : Character(s, i, n) /\ valid[i + n]
  IN valid[1]

\* Control characters and / \ : * ? " < > | ;
is_forbidden_ascii(b) == b < 32 \/ b \in {127, 47, 92, 58, 42, 63, 34, 60, 62, 124, 59}

TwoDots(s) == \E i \in 1..Len(s) - 1 : s[i] = Dot /\ s[i + 1] = Dot

\* Mutant: one trailing character is stripped (if in the place of while).
sanitize_name_StripsOne(s) ==
  LET mapped == [i \in DOMAIN s |-> IF is_forbidden_ascii(s[i]) THEN Under ELSE s[i]]
      solid  == {i \in DOMAIN s : mapped[i] \notin {Dot, Space}}
      last   == IF s # <<>> /\ mapped[Len(s)] \in {Dot, Space} THEN Len(s) - 1 ELSE Len(s)
  IN IF TwoDots(s) \/ ~utf8_validate(s) \/ solid = {} THEN NoName
     ELSE SubSeq(mapped, Min({i \in DOMAIN s : mapped[i] # Space}), last)

\* Two dots or bad UTF-8 are refused.  Forbidden characters become '_', leading
\* spaces and trailing dots and spaces go; nothing left is refused.  (The limit
\* max_len is above what the callers' buffers hold.)
sanitize_name(s) ==
  LET mapped == [i \in DOMAIN s |-> IF is_forbidden_ascii(s[i]) THEN Under ELSE s[i]]
      solid  == {i \in DOMAIN s : mapped[i] \notin {Dot, Space}}
  IN IF TwoDots(s) \/ ~utf8_validate(s) \/ solid = {} THEN NoName
     ELSE SubSeq(mapped, Min({i \in DOMAIN s : mapped[i] # Space}), Max(solid))

\* getObjectPropFilename, and parse_incoming_dataset with its own buffers.
NameSent(w) == sanitize_name(unicode2charstring(w))

-----------------------------------------------------------------------------
(* To the host: bytes to units.                                             *)

\* Mutant: the second byte of three is taken with five bits.
utf2unicode_FiveBits(s, i) ==
  LET b1 == At(s, i)
      b2 == At(s, i + 1)
      b3 == At(s, i + 2)
  IN CASE b1 < 192 -> [unit |-> b1, ofs |-> 1]
       [] b1 \in 192..223 /\ Tail2(b2) -> [unit |-> (b1 % 32) * 64 + (b2 % 64), ofs |-> 2]
       [] b1 \in 224..239 /\ Tail2(b2) /\ Tail2(b3) ->
            [unit |-> (b1 % 16) * 4096 + (b2 % 32) * 64 + (b3 % 64), ofs |-> 3]
       [] OTHER -> [unit |-> 0, ofs |-> 0]

\* utf2unicode: the unit at i and the bytes it takes; 0 for four bytes and for
\* a lead byte without its tail.  A stray tail byte is taken for a character.
utf2unicode(s, i) ==
  LET b1 == At(s, i)
      b2 == At(s, i + 1)
      b3 == At(s, i + 2)
  IN CASE b1 < 192 -> [unit |-> b1, ofs |-> 1]
       [] b1 \in 192..223 /\ Tail2(b2) -> [unit |-> (b1 % 32) * 64 + (b2 % 64), ofs |-> 2]
       [] b1 \in 224..239 /\ Tail2(b2) /\ Tail2(b3) ->
            [unit |-> (b1 % 16) * 4096 + (b2 % 64) * 64 + (b3 % 64), ofs |-> 3]
       [] OTHER -> [unit |-> 0, ofs |-> 0]

\* char2unicodestring: the units up to the first 0.
char2unicodestring(s) ==
  LET from[i \in 1..Len(s) + 1] ==
        LET c == utf2unicode(s, i)
        IN IF c.unit = 0 THEN <<>> ELSE <<c.unit>> \o from[i + c.ofs]
      units == from[1]
  IN SubSeq(units, 1, Min({Len(units), MaxUnits}))

=============================================================================
