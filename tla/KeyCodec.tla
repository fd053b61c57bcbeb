------------------------------ MODULE KeyCodec ------------------------------
(***************************************************************************)
(* The key suffix codec of the local backend (src/unnamed/part_001 1-65): *)
(* EncodeKeySuffix writes codec.EncodeBytes(key), the memcomparable       *)
(* encoding (8-byte groups padded with 0x00, each followed by the marker  *)
(* 0xFF - padCount), then uint64(rowID) and uint64(offset) big-endian;    *)
(* DecodeKeySuffix reverses it.                                           *)
(*                                                                         *)
(* Bytes are 0..255 and keys sequences of bytes.  rowID and offset are    *)
(* int64; their bytes are computed digit by digit, so the 64-bit two's    *)
(* complement is exact for the small magnitudes the inputs use.           *)
(***************************************************************************)
EXTENDS Integers, Sequences, SequencesExt

CONSTANTS
    Keys,   \* user keys to encode
    Ints    \* int64 values for rowID and offset

EncGroupSize == 8
EncMarker == 255
EncPad == 0

Zeros(n) == [i \in 1..n |-> EncPad]

\* codec.EncodeBytes: every full group of 8 is followed by the marker 0xFF;
\* the last group (empty when len(key) is a multiple of 8) is padded and
\* followed by 0xFF - padCount.
RECURSIVE EncodeBytes(_)
EncodeBytes(key) ==
    IF Len(key) >= EncGroupSize
      THEN SubSeq(key, 1, EncGroupSize) \o <<EncMarker>>
             \o EncodeBytes(SubSeq(key, EncGroupSize + 1, Len(key)))
      ELSE LET pad == EncGroupSize - Len(key)
           IN  key \o Zeros(pad) \o <<EncMarker - pad>>

\* codec.EncodedBytesLength
EncodedBytesLength(n) == (n \div EncGroupSize + 1) * (EncGroupSize + 1)

\* codec.DecodeBytes: group by group; a group needs 9 bytes, a padCount
\* above 8 or a non-zero pad byte is an error, a padded group ends the key.
RECURSIVE DecodeBytes(_)
DecodeBytes(b) ==
    IF Len(b) < EncGroupSize + 1 THEN [ok |-> FALSE]
    ELSE LET padCount == EncMarker - b[EncGroupSize + 1]
             real     == EncGroupSize - padCount
             rest     == SubSeq(b, EncGroupSize + 2, Len(b))
         IN  IF padCount > EncGroupSize THEN [ok |-> FALSE]
             ELSE IF padCount = 0
               THEN LET r == DecodeBytes(rest)
                    IN  IF r.ok THEN [ok |-> TRUE, key |-> SubSeq(b, 1, EncGroupSize) \o r.key]
                                ELSE r
             ELSE IF SubSeq(b, real + 1, EncGroupSize) # Zeros(padCount) THEN [ok |-> FALSE]
             ELSE [ok |-> TRUE, key |-> SubSeq(b, 1, real)]

\* The 8 big-endian bytes of uint64(x) for an int64 x: byte i counts from
\* the least significant; a negative x has the bytes of -x-1 complemented.
ByteOf(x, i) ==
    LET RECURSIVE Shift(_, _)
        Shift(v, n) == IF n = 0 THEN v ELSE Shift(v \div 256, n - 1)
    IN  IF x >= 0 THEN Shift(x, i) % 256 ELSE 255 - (Shift(-x - 1, i) % 256)

\* binary.BigEndian.PutUint64(buf, uint64(x))
Uint64BE(x) == [j \in 1..8 |-> ByteOf(x, 8 - j)]

\* int64(binary.BigEndian.Uint64(bs))
Int64FromBE(bs) ==
    IF bs[1] < 128
      THEN FoldLeft(LAMBDA acc, byte : acc * 256 + byte, 0, bs)
      ELSE -1 - FoldLeft(LAMBDA acc, byte : acc * 256 + (255 - byte), 0, bs)

minEncodedKeyLen == EncodedBytesLength(0) + 16

\* Mutant: offset is written before rowID.
EncodeKeySuffixSwapped(key, rowID, offset) ==
    EncodeBytes(key) \o Uint64BE(offset) \o Uint64BE(rowID)

\* EncodeKeySuffix(buf, key, rowID, offset)
EncodeKeySuffix(key, rowID, offset) ==
    EncodeBytes(key) \o Uint64BE(rowID) \o Uint64BE(offset)

\* Mutant: rowID and offset are read from each other's bytes.
DecodeKeySuffixSwapped(data) ==
    LET n == Len(data)
        d == DecodeBytes(SubSeq(data, 1, n - 16))
    IN  IF n < minEncodedKeyLen THEN [err |-> "short"]
        ELSE IF ~d.ok THEN [err |-> "corrupt"]
        ELSE [err |-> "none", key |-> d.key,
              rowID |-> Int64FromBE(SubSeq(data, n - 7, n)),
              offset |-> Int64FromBE(SubSeq(data, n - 15, n - 8))]

\* DecodeKeySuffix(buf, data): too short is an error, then the key is
\* decoded from all but the last 16 bytes, which hold rowID and offset.
DecodeKeySuffix(data) ==
    LET n == Len(data)
        d == DecodeBytes(SubSeq(data, 1, n - 16))
    IN  IF n < minEncodedKeyLen THEN [err |-> "short"]
        ELSE IF ~d.ok THEN [err |-> "corrupt"]
        ELSE [err |-> "none", key |-> d.key,
              rowID |-> Int64FromBE(SubSeq(data, n - 15, n - 8)),
              offset |-> Int64FromBE(SubSeq(data, n - 7, n))]

-----------------------------------------------------------------------------
(* Reference orders.                                                      *)

\* Lexicographic order on byte strings, as bytes.Compare and pebble use.
LexLess(s, t) ==
    \/ IsStrictPrefix(s, t)
    \/ \E i \in 1..Len(s) :
          /\ i <= Len(t)
          /\ SubSeq(s, 1, i - 1) = SubSeq(t, 1, i - 1)
          /\ s[i] < t[i]

\* x < y as uint64 values.
UnsignedLess(x, y) == IF (x < 0) = (y < 0) THEN x < y ELSE y < 0

\* The order the spec asks encoded keys to have: user key, then rowID,
\* then offset, the integers compared as unsigned.
KeyLess(p, q) ==
    \/ LexLess(p.key, q.key)
    \/ p.key = q.key /\ UnsignedLess(p.rowID, q.rowID)
    \/ p.key = q.key /\ p.rowID = q.rowID /\ UnsignedLess(p.offset, q.offset)

Inputs == [key : Keys, rowID : Ints, offset : Ints]

Enc(p) == EncodeKeySuffix(p.key, p.rowID, p.offset)

VARIABLES a, b   \* two keys with their suffixes, as the iterator compares them

Init == a \in Inputs /\ b \in Inputs

\* The functions are pure: every pair of inputs is an initial state.
Next == UNCHANGED <<a, b>>

Spec == Init /\ [][Next]_<<a, b>>

-----------------------------------------------------------------------------
\* DecodeKeySuffix inverts EncodeKeySuffix (spec invariant 2), for keys
\* that end inside, exactly at, and past an 8-byte group, and for negative
\* rowIDs and offsets.
RoundTrip ==
    DecodeKeySuffix(Enc(a)) = [err |-> "none", key |-> a.key,
                               rowID |-> a.rowID, offset |-> a.offset]

\* Byte order of encoded keys is the order of (key, rowID, offset) (spec
\* invariant 3): a key that is a prefix of another, or that holds 0x00 or
\* 0xFF bytes, still sorts before it whatever the suffixes.
OrderPreserved == KeyLess(a, b) <=> LexLess(Enc(a), Enc(b))
=============================================================================
