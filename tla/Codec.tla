---- MODULE Codec ----
(***************************************************************************)
(* write_msg and read_msg of src/crates/rs9p/src/serialize.rs: a message   *)
(* is written, its bytes may be cut short on the way, and what is left is  *)
(* read.  A byte is a digit of base Base, so that an integer of w bytes    *)
(* wraps at Base^w: lengths overflow at Base^2 = 16 instead of 65536.      *)
(* Runs over fields, items and bytes are recursive functions of how many   *)
(* are done.                                                               *)
(***************************************************************************)
EXTENDS Layout, SequencesExt

CONSTANTS
  Base,      \* values of a byte
  Known,     \* bits of a mask below this value have a name
  Samples    \* messages to send

ASSUME BaseAssumption == Base \in Nat \ {0, 1} /\ Known \in Nat \ {0}

Byte == 0..(Base - 1)
Width == [u8 |-> 1, u16 |-> 2, u32 |-> 4, u64 |-> 8,
          mask8 |-> 1, mask32 |-> 4, mask64 |-> 8, pad |-> 8]
Masks == {"mask8", "mask32", "mask64"}

\* n without its i low bytes; nothing is left of a number that fits them.
High(n, i) == LET high[k \in 0..i] == IF k = 0 THEN n ELSE high[k - 1] \div Base IN high[i]
InBytes(n, w) == High(n, w) = 0

\* Little endian, keeping the low bytes: what `as u16` and write_u16 do.
Bytes(n, w) == [i \in 1..w |-> High(n, i - 1) % Base]
Number(bytes) ==
  LET last[k \in 0..Len(bytes)] ==
        IF k = 0 THEN 0 ELSE bytes[Len(bytes) + 1 - k] + Base * last[k - 1]
  IN last[Len(bytes)]

-----------------------------------------------------------------------------
(* Encodable.                                                              *)

EncScalar(kind, v) ==
  IF kind = "str" THEN Bytes(Len(v), 2) \o v ELSE Bytes(v, Width[kind])

EncFields(layout, vals) == FlattenSeq([i \in DOMAIN layout |-> EncScalar(layout[i], vals[i])])

\* DirEntry.size and DirEntryData.size: the bytes of the entries.
DirEntrySize(e) == (1 + 4 + 8) + 8 + 1 + 2 + Len(e[6])
DirSize(entries) ==
  LET size[k \in 0..Len(entries)] ==
        IF k = 0 THEN 0 ELSE size[k - 1] + DirEntrySize(entries[k])
  IN size[Len(entries)]

EncVec(layout, v) == Bytes(Len(v), 2) \o FlattenSeq([i \in DOMAIN v |-> EncFields(layout, v[i])])
EncData(v) == Bytes(Len(v), 4) \o v
\* Mutant: the size of the entries as the decoder would want it.
EncDirCount(v) == Bytes(Len(v), 4) \o FlattenSeq([i \in DOMAIN v |-> EncFields(EncDirEntry, v[i])])
\* Mutant: the entries counted before the last one is added.
EncDirStale(v) ==
  Bytes(IF v = <<>> THEN 0 ELSE Len(v) - 1, 4)
    \o FlattenSeq([i \in DOMAIN v |-> EncFields(EncDirEntry, v[i])])
EncDirEntries(v) ==
  Bytes(DirSize(v), 4) \o FlattenSeq([i \in DOMAIN v |-> EncFields(EncDirEntry, v[i])])

EncodeField(kind, v) ==
  CASE kind = "strs" -> EncVec(<<"str">>, v)
    [] kind = "qids" -> EncVec(EncQId, v)
    [] kind = "data" -> EncData(v)
    [] kind = "dirents" -> EncDirEntries(v)
    [] OTHER -> EncScalar(kind, v)

\* A message on the wire: its type, its tag, its fields.
Encode(m) ==
  <<m.typ>> \o Bytes(m.tag, 2)
    \o FlattenSeq([i \in DOMAIN m.vals |-> EncodeField(EncodeLayout(m.typ)[i], m.vals[i])])

-----------------------------------------------------------------------------
(* Decodable.  A decoder is a cursor over the bytes of a body, with the    *)
(* values it has read; reading past the end is an error, and errors stay.  *)

Reader(bytes, pos, vals) == [ok |-> TRUE, bytes |-> bytes, pos |-> pos, vals |-> vals]
Stuck == [ok |-> FALSE]
Got(d, v, n) == Reader(d.bytes, d.pos + n, Append(d.vals, v))
Has(d, n) == d.ok /\ d.pos + n <= Len(d.bytes)

Peek(d, w) == Number(SubSeq(d.bytes, d.pos + 1, d.pos + w))

\* Mutant: a string that is cut short is taken for what is there.
DecBytesLenient(d, w) ==
  IF ~Has(d, w) THEN Stuck
  ELSE LET n == IF Has(d, w + Peek(d, w)) THEN Peek(d, w) ELSE Len(d.bytes) - d.pos - w
       IN Got(d, SubSeq(d.bytes, d.pos + w + 1, d.pos + w + n), w + n)
\* read_exact of a length and as many bytes.
DecBytes(d, w) ==
  IF ~Has(d, w) \/ ~Has(d, w + Peek(d, w)) THEN Stuck
  ELSE LET n == Peek(d, w) IN Got(d, SubSeq(d.bytes, d.pos + w + 1, d.pos + w + n), w + n)

DecScalar(d, kind) ==
  IF kind = "str" THEN DecBytes(d, 2)
  ELSE IF ~Has(d, Width[kind]) THEN Stuck
  ELSE LET v == Peek(d, Width[kind])
       IN Got(d, IF kind \in Masks THEN v % Known ELSE v, Width[kind])

DecFields(d, layout) ==
  LET at[k \in 0..Len(layout)] == IF k = 0 THEN d ELSE DecScalar(at[k - 1], layout[k])
  IN at[Len(layout)]

\* One item of a vector: its fields become one value.
DecItem(d, layout) ==
  IF ~d.ok THEN Stuck
  ELSE LET item == DecFields(Reader(d.bytes, d.pos, <<>>), layout)
       IN IF item.ok THEN Reader(d.bytes, item.pos, Append(d.vals, item.vals)) ELSE Stuck

\* A count of w bytes and as many items; an item takes a byte at least, so that
\* more items than there are bytes run into the end.
DecItems(d, w, layout) ==
  IF ~Has(d, w) \/ ~Has(d, w + Peek(d, w)) THEN Stuck
  ELSE LET n == Peek(d, w)
           at[k \in 0..n] ==
             IF k = 0 THEN Reader(d.bytes, d.pos + w, <<>>) ELSE DecItem(at[k - 1], layout)
       IN IF at[n].ok THEN Reader(d.bytes, at[n].pos, Append(d.vals, at[n].vals)) ELSE Stuck

DecodeField(d, kind) ==
  CASE kind = "strs" -> DecItems(d, 2, <<"str">>)
    [] kind = "qids" -> DecItems(d, 2, DecQId)
    [] kind = "data" -> DecBytes(d, 4)
    [] kind = "dirents" -> DecItems(d, 4, DecDirEntry)
    [] OTHER -> DecScalar(d, kind)

DecBody(bytes, layout) ==
  LET at[k \in 0..Len(layout)] ==
        IF k = 0 THEN Reader(bytes, 0, <<>>) ELSE DecodeField(at[k - 1], layout[k])
  IN at[Len(layout)]

Failure == [typ |-> "error", tag |-> 0, vals |-> <<>>]

\* An unknown type is an error; bytes left over after the body are not.
Decode(bytes) ==
  IF Len(bytes) < 3 \/ bytes[1] \notin MsgTypes THEN Failure
  ELSE LET body == DecBody(SubSeq(bytes, 4, Len(bytes)), DecodeLayout(bytes[1]))
       IN IF body.ok THEN [typ |-> bytes[1], tag |-> Number(SubSeq(bytes, 2, 3)), vals |-> body.vals]
          ELSE Failure

-----------------------------------------------------------------------------
(* The messages: values of the types of fcall.rs.  What a frame holds, the *)
(* data and the entries of a message with it, four bytes can count.        *)

IsSeq(s) == Len(s) \in Nat /\ s = [i \in 1..Len(s) |-> s[i]]

IsScalar(kind, v) ==
  CASE kind = "str" -> v \in Seq(Byte)
    [] kind \in Masks -> v \in 0..(Known - 1) /\ InBytes(v, Width[kind])
    [] OTHER -> v \in Nat /\ InBytes(v, Width[kind])

IsItem(layout, x) ==
  IsSeq(x) /\ DOMAIN x = DOMAIN layout /\ \A i \in DOMAIN layout : IsScalar(layout[i], x[i])

IsVec(layout, v) == IsSeq(v) /\ \A i \in DOMAIN v : IsItem(layout, v[i])

IsValue(kind, v) ==
  CASE kind = "strs" -> IsVec(<<"str">>, v)
    [] kind = "qids" -> IsVec(EncQId, v)
    [] kind = "data" -> v \in Seq(Byte) /\ InBytes(Len(v), 4)
    [] kind = "dirents" -> IsVec(EncDirEntry, v) /\ InBytes(DirSize(v), 4)
    [] OTHER -> IsScalar(kind, v)

IsMessage(m) ==
  /\ m = [typ |-> m.typ, tag |-> m.tag, vals |-> m.vals]
  /\ m.typ \in MsgTypes
  /\ m.tag \in Nat /\ InBytes(m.tag, 2)
  /\ IsSeq(m.vals) /\ DOMAIN m.vals = DOMAIN EncodeLayout(m.typ)
  /\ \A i \in DOMAIN m.vals : IsValue(EncodeLayout(m.typ)[i], m.vals[i])

ASSUME SamplesAssumption == \A m \in Samples : IsMessage(m)

-----------------------------------------------------------------------------
VARIABLES msg, wire, got, stage
vars == <<msg, wire, got, stage>>

Init == msg \in Samples /\ wire = <<>> /\ got = Failure /\ stage = "new"

write_msg == stage = "new" /\ stage' = "sent" /\ wire' = Encode(msg) /\ UNCHANGED <<msg, got>>

\* The frame is shorter than the message it should hold.
Cut(n) ==
  /\ stage = "sent"
  /\ n < Len(wire)
  /\ stage' = "cut"
  /\ wire' = SubSeq(wire, 1, n)
  /\ UNCHANGED <<msg, got>>

read_msg ==
  /\ stage \in {"sent", "cut"}
  /\ got' = Decode(wire)
  /\ stage' = IF stage = "sent" THEN "read" ELSE "readCut"
  /\ UNCHANGED <<msg, wire>>

Next == write_msg \/ (\E n \in 0..(Len(wire) - 1) : Cut(n)) \/ read_msg
Spec == Init /\ [][Next]_vars

-----------------------------------------------------------------------------
\* Lengths fit the two bytes they are written in.
FitsKind(kind, v) ==
  CASE kind = "str" -> InBytes(Len(v), 2)
    [] kind = "strs" -> InBytes(Len(v), 2) /\ \A i \in DOMAIN v : InBytes(Len(v[i][1]), 2)
    [] kind = "qids" -> InBytes(Len(v), 2)
    [] OTHER -> TRUE
Fits(m) == \A i \in DOMAIN m.vals : FitsKind(EncodeLayout(m.typ)[i], m.vals[i])

(* What read_msg makes of what write_msg wrote is the message              *)
(* (serialize.rs:890-897), for every type but RReadDir and all lengths     *)
(* that fit: the two sides agree on order, widths and counts.              *)
RoundTrip == stage = "read" /\ msg.typ # "RReadDir" /\ Fits(msg) => got = msg

(* A frame too short for its message, whose lengths fit, is an error       *)
(* (serialize.rs:20-23), not some other message.                           *)
CutIsAnError == stage = "readCut" /\ Fits(msg) => got = Failure

(* The count in front of the entries of an RReadDir is the number of bytes *)
(* that follow it (fcall.rs:449-457, 478-480; serialize.rs:261-272).       *)
ReadDirCountsBytes ==
  stage = "sent" /\ msg.typ = "RReadDir" =>
    Number(SubSeq(wire, 4, 7)) = Len(wire) - 7

(* That count is read as one of entries (serialize.rs:622-631), so that    *)
(* the entries run out: an RReadDir is read as itself or is an error, and  *)
(* never some other message.                                               *)
ReadDirNeverOther == stage = "read" /\ msg.typ = "RReadDir" => got \in {msg, Failure}
====
