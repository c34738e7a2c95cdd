---------------------------- MODULE BufferLayout ----------------------------
(***************************************************************************)
(* The layout combinators of @native-to-anchor/buffer-layout that the      *)
(* generated coders of the ITS program are built from, and the Node Buffer *)
(* they write into.  The package is imported by the coders and is not part *)
(* of the repository: every definition here is modelled from the byte      *)
(* layout the repository's specification gives (sections 4.4 and 6) and    *)
(* from the documented behaviour of buffer-layout's Structure, Union,      *)
(* Sequence and Blob.                                                      *)
(*                                                                         *)
(* A layout is a record [kind, span, property]; span is the number of      *)
(* bytes of a fixed-size layout and -1 for one whose size depends on the   *)
(* value.  A JavaScript string is the sequence of its code points, a       *)
(* Buffer, an array of numbers and a PublicKey are sequences of bytes, a   *)
(* BN is a natural number, and an object with a single key (the source     *)
(* form of a union variant) is that key.                                   *)
(***************************************************************************)
EXTENDS Integers, Sequences, FiniteSets
LOCAL INSTANCE SequencesExt
LOCAL INSTANCE TLC

CONSTANTS
  Null,       (* JavaScript null: an absent optional value.                *)
  Undefined   (* JavaScript undefined: a key the source object lacks.      *)

Byte == 0 .. 255

(* NaN, the sum of a size expression one of whose terms is undefined.  NaN *)
(* absorbs every sum it enters and is no valid size: it is a number below  *)
(* the negative of every finite size of the model.                         *)
NaN == -1000000

-----------------------------------------------------------------------------
(* Values and their conversions.                                           *)

(* v.length of a string (UTF-16 code units: an astral code point counts    *)
(* two) and of a Buffer or array (its elements, all below 65536).          *)
length(v) == Len(v) + Cardinality({i \in DOMAIN v : v[i] >= 65536})

(* The UTF-8 bytes of one code point. *)
Utf8Char(c) ==
  LET tail(shift) == 128 + ((c \div shift) % 64)
  IN  CASE c < 128   -> <<c>>
        [] c < 2048  -> <<192 + (c \div 64), tail(1)>>
        [] c < 65536 -> <<224 + (c \div 4096), tail(64), tail(1)>>
        [] OTHER     -> <<240 + (c \div 262144), tail(4096), tail(64), tail(1)>>

(* Buffer.from(s, "utf-8") *)
Utf8(s) == FlattenSeq([i \in DOMAIN s |-> Utf8Char(s[i])])

(* The n little-endian bytes of the unsigned integer v. *)
RECURSIVE LE(_, _)
LE(v, n) == IF n = 0 THEN <<>> ELSE <<v % 256>> \o LE(v \div 256, n - 1)

(* The unsigned integer of the little-endian bytes bs. *)
RECURSIVE FromLE(_)
FromLE(bs) == IF bs = <<>> THEN 0 ELSE Head(bs) + 256 * FromLE(Tail(bs))

(* Buffer.alloc(size): size zero bytes. *)
Alloc(size) == [i \in 1 .. size |-> 0]

-----------------------------------------------------------------------------
(* Layout constructors, named as the package names them.                   *)

u8(p)        == [kind |-> "u8",        span |-> 1,  property |-> p]
bool(p)      == [kind |-> "bool",      span |-> 1,  property |-> p]
u64(p)       == [kind |-> "u64",       span |-> 8,  property |-> p]
publicKey(p) == [kind |-> "publicKey", span |-> 32, property |-> p]
utf8Str(p)   == [kind |-> "utf8Str",   span |-> -1, property |-> p]
bytes(p)     == [kind |-> "bytes",     span |-> -1, property |-> p]

(* seq(elementLayout, count, property): count elements, back to back. *)
seq(elo, count, p) ==
  [kind |-> "seq", span |-> count * elo.span, property |-> p]

(* option(layout, property): a presence byte, then the value iff present. *)
option(lo, p) == [kind |-> "option", span |-> -1, property |-> p]

(* struct(fields): the fields in declared order. *)
struct(fields) == fields

(* U.addVariant(variant, layout, property): the variant of discriminator   *)
(* variant, whose content is a struct and whose source key is property.    *)
addVariant(variant, layout, property) ==
  [variant |-> variant, layout |-> layout, property |-> property]

(* union(u8 discriminator, no default layout, property) and the variants   *)
(* added to it, in the order of the addVariant calls.                      *)
union(variants, p) ==
  [kind |-> "union", span |-> -1, property |-> p, variants |-> variants]

(* The variants of union U whose source key is key. *)
VariantsNamed(U, key) ==
  {i \in DOMAIN U.variants : U.variants[i].property = key}

(* getSourceVariant: the registry is walked by ascending discriminator and *)
(* the first variant whose key the source holds is taken.                  *)
SourceVariant(U, key) ==
  LET named == {U.variants[i] : i \in VariantsNamed(U, key)}
  IN  CHOOSE vlo \in named : \A other \in named : vlo.variant <= other.variant

-----------------------------------------------------------------------------
(* Encoding.                                                               *)

(* Layout f's own encode rejects v whatever the buffer is: a union cannot  *)
(* infer the variant of an unknown key, writeUInt8 refuses what is no byte.*)
Rejects(f, v) ==
  \/ f.kind = "union" /\ VariantsNamed(f, v) = {}
  \/ f.kind = "u8" /\ v \notin Byte

(* The bytes layout f's encode writes for the value v, from its offset on. *)
(* A sequence writes as many elements as the array has, whatever its count.*)
Written(f, v) ==
  CASE f.kind = "u8"      -> <<v>>
    [] f.kind = "bool"    -> <<IF v THEN 1 ELSE 0>>
    [] f.kind = "u64"     -> LE(v, 8)
    [] f.kind \in {"seq", "publicKey"} -> v
    [] f.kind = "bytes"   -> LE(Len(v), 4) \o v
    [] f.kind = "utf8Str" -> LE(Len(Utf8(v)), 4) \o Utf8(v)
    [] f.kind = "option"  -> IF v = Null THEN <<0>> ELSE <<1>> \o v
    [] f.kind = "union"   -> <<SourceVariant(f, v).variant>>

(* A struct's offset moves by the span of a fixed-size field whatever was  *)
(* written, and by the span read back from the buffer of a variable one.   *)
Advance(f, v) == IF f.span >= 0 THEN f.span ELSE Len(Written(f, v))

(* The buffer b with bs written from offset off (counted from 0) on. *)
Overwrite(b, off, bs) ==
  [i \in DOMAIN b |-> IF i - off \in DOMAIN bs THEN bs[i - off] ELSE b[i]]

(* A write in progress: the buffer, the offset of the next field, the end  *)
(* of what the last field wrote (Structure.encode returns it) and whether  *)
(* an encode has thrown.                                                   *)
Writing(b, off) == [b |-> b, off |-> off, end |-> off, err |-> FALSE]

(* One field of Structure.encode: a field the source lacks is skipped and  *)
(* the offset moves by its span (-1 for a variable one); a write outside   *)
(* the buffer throws RangeError; a written field moves the offset on.  The *)
(* end is the field's offset and what it wrote, or its span when skipped.  *)
EncodeField(st, f, src) ==
  LET v   == IF f.property \in DOMAIN src THEN src[f.property] ELSE Undefined
      bs  == Written(f, v)
  IN  CASE st.err        -> st
        [] v = Undefined -> [st EXCEPT !.off = @ + f.span,
                                       !.end = st.off + IF f.span > 0 THEN f.span ELSE 0]
        [] \/ Rejects(f, v)
           \/ st.off < 0
           \/ st.off + Len(bs) > Len(st.b) -> [st EXCEPT !.err = TRUE]
        [] OTHER -> [b   |-> Overwrite(st.b, st.off, bs),
                     off |-> st.off + Advance(f, v),
                     end |-> st.off + Len(bs),
                     err |-> FALSE]

(* Structure.encode(src, b, offset): the fields in declared order. *)
StructEncode(fields, src, st) ==
  FoldLeft(LAMBDA acc, f : EncodeField(acc, f, src), st, fields)

(* Union.encode of the source {key: src} into a fresh buffer b: the        *)
(* variant's discriminator, then its struct from offset 1 on.  A key no    *)
(* variant has, and any write outside b, throw.                            *)
UnionEncode(U, key, src, b) ==
  IF VariantsNamed(U, key) = {} \/ Len(b) = 0
  THEN [Writing(b, 0) EXCEPT !.err = TRUE]
  ELSE LET vlo == SourceVariant(U, key)
       IN  StructEncode(vlo.layout, src,
                        Writing(Overwrite(b, 0, <<vlo.variant>>), 1))

-----------------------------------------------------------------------------
(* Decoding.                                                               *)

(* b.slice(off, off + n): the bytes that are there, with no complaint      *)
(* about the ones that are not.                                            *)
Slice(b, off, n) ==
  SubSeq(b, off + 1, IF off + n <= Len(b) THEN off + n ELSE Len(b))

(* The reads of n bytes at off that Buffer's readUInt methods allow. *)
InBounds(b, off, n) == off >= 0 /\ off + n <= Len(b)

(* new PublicKey(bytes).toBuffer(): a big-endian number of at most 32      *)
(* bytes, padded with zeros on the left.                                   *)
PadLeft32(bs) ==
  [i \in 1 .. 32 |-> IF i <= 32 - Len(bs) THEN 0 ELSE bs[i - (32 - Len(bs))]]

(* The variants of union U whose discriminator is d. *)
VariantsTagged(U, d) == {i \in DOMAIN U.variants : U.variants[i].variant = d}

(* Buffer.toString("utf8"): the code points of UTF-8 bytes, U+FFFD for a   *)
(* byte that starts no complete character.                                 *)
RECURSIVE FromUtf8(_)
FromUtf8(bs) ==
  IF bs = <<>> THEN <<>>
  ELSE LET n == CASE bs[1] < 128 -> 1 [] bs[1] < 224 -> 2
                  [] bs[1] < 240 -> 3 [] OTHER -> 4
           low(k) == bs[k] % 64
           c == CASE n = 1 -> bs[1]
                  [] n = 2 -> ((bs[1] % 32) * 64) + low(2)
                  [] n = 3 -> ((bs[1] % 16) * 4096) + (low(2) * 64) + low(3)
                  [] n = 4 -> ((bs[1] % 8) * 262144) + (low(2) * 4096)
                                + (low(3) * 64) + low(4)
       IN  IF n > Len(bs) \/ bs[1] \in 128 .. 191
           THEN <<65533>> \o FromUtf8(Tail(bs))
           ELSE <<c>> \o FromUtf8(SubSeq(bs, n + 1, Len(bs)))

(* Layout f's decode at off throws: an integer read outside the buffer, a  *)
(* discriminator no variant has, a byte that is no boolean or no presence  *)
(* flag.  The layouts that slice the buffer (u64, publicKey, the content   *)
(* of a text or a blob) never throw.                                       *)
DecodeThrows(f, b, off) ==
  \/ f.kind \in {"u8", "bool", "union", "option"} /\ ~InBounds(b, off, 1)
  \/ f.kind \in {"utf8Str", "bytes"} /\ ~InBounds(b, off, 4)
  \/ f.kind = "seq" /\ ~InBounds(b, off, f.span)
  \/ f.kind \in {"bool", "option"} /\ b[off + 1] \notin {0, 1}
  \/ f.kind = "union" /\ VariantsTagged(f, b[off + 1]) = {}

(* The content of the text or blob at off: as many bytes as its length     *)
(* prefix says, or as are left.                                            *)
Content(b, off) == Slice(b, off + 4, FromLE(Slice(b, off, 4)))

(* The value layout f's decode reads at off, when it does not throw. *)
Decoded(f, b, off) ==
  CASE f.kind = "u8"        -> b[off + 1]
    [] f.kind = "bool"      -> b[off + 1] = 1
    [] f.kind = "u64"       -> FromLE(Slice(b, off, 8))
    [] f.kind = "seq"       -> Slice(b, off, f.span)
    [] f.kind = "publicKey" -> PadLeft32(Slice(b, off, 32))
    [] f.kind = "bytes"     -> Content(b, off)
    [] f.kind = "utf8Str"   -> FromUtf8(Content(b, off))
    [] f.kind = "option"    -> IF b[off + 1] = 0 THEN Null
                               ELSE PadLeft32(Slice(b, off + 1, 32))
    [] f.kind = "union"     ->
         LET i == CHOOSE i \in VariantsTagged(f, b[off + 1]) : TRUE
         IN  f.variants[i].property

(* The span layout f reads back from the buffer: every variant of the      *)
(* unions here is an empty struct behind its discriminator.                *)
SpanAt(f, b, off) ==
  CASE f.span >= 0                    -> f.span
    [] f.kind = "union"               -> 1
    [] f.kind = "option"              -> IF b[off + 1] = 0 THEN 1 ELSE 33
    [] f.kind \in {"utf8Str", "bytes"} -> 4 + FromLE(Slice(b, off, 4))

(* A read in progress: the object decoded so far, the offset of the next   *)
(* field and whether a decode has thrown.                                  *)
Reading(off) == [dest |-> <<>>, off |-> off, err |-> FALSE]

(* One field of Structure.decode. *)
DecodeField(st, f, b) ==
  CASE st.err -> st
    [] DecodeThrows(f, b, st.off) -> [st EXCEPT !.err = TRUE]
    [] OTHER -> [dest |-> (f.property :> Decoded(f, b, st.off)) @@ st.dest,
                 off  |-> st.off + SpanAt(f, b, st.off),
                 err  |-> FALSE]

(* Structure.decode(b, offset): the fields in declared order. *)
StructDecode(fields, b, off) ==
  FoldLeft(LAMBDA acc, f : DecodeField(acc, f, b), Reading(off), fields)

(* Union.decode(b): the variant of the discriminator at 0 and its struct   *)
(* from offset 1 on, as the object {key: fields}.  An empty buffer and a   *)
(* discriminator no variant has throw.                                     *)
UnionDecode(U, b) ==
  IF b = <<>> \/ VariantsTagged(U, b[1]) = {}
  THEN [Reading(0) EXCEPT !.err = TRUE]
  ELSE LET vlo == U.variants[CHOOSE i \in VariantsTagged(U, b[1]) : TRUE]
           st  == StructDecode(vlo.layout, b, 1)
       IN  [st EXCEPT !.dest = [key |-> vlo.property, fields |-> st.dest]]

=============================================================================
