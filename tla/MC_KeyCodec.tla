----------------------------- MODULE MC_KeyCodec -----------------------------
EXTENDS KeyCodec

\* Keys that end inside a group, at a group's end and one byte past it,
\* a prefix of another key, and keys made of the pad byte 0x00 and of 0xFF.
MCKeys == { <<>>, <<0>>, <<0, 0>>, <<1>>, <<255>>, <<255, 0>>,
            [i \in 1..7 |-> 255], [i \in 1..8 |-> 0], [i \in 1..8 |-> 255],
            [i \in 1..9 |-> 0], [i \in 1..8 |-> 255] \o <<0>> }

\* rowIDs and offsets: zero, a one-byte and a two-byte value, and -1 (all
\* bytes 0xFF, the largest uint64).
MCInts == {-1, 0, 1, 256}
=============================================================================
