-------------------------------- MODULE Pkce --------------------------------
(***************************************************************************)
(* The byte arithmetic of pkce.cpp: base64url_encode, which moves bits     *)
(* through an unsigned buffer, and the padding sha256 gives a message.     *)
(* The 64 rounds of SHA-256 are not modelled.                              *)
(***************************************************************************)
EXTENDS Naturals, Sequences, SequencesExt

CONSTANT BufferSize     \* how many values the buffer has: 2^32 in the code

\* The bits of a byte and the four left over before it are 12.
ASSUME PkceAssumption == BufferSize \in Nat \ {0} /\ BufferSize % 2^12 = 0

\* A character of the alphabet is its index, 0..63.
Take6(bits) ==
    [buffer |-> bits.buffer, count |-> bits.count - 6,
     encoded |-> Append(bits.encoded, (bits.buffer \div 2^(bits.count - 6)) % 64)]

\* One turn of the loop: shift a byte in, take six bits out while there are six.
Feed(bits, byte) ==
    LET full == [buffer |-> (bits.buffer * 256 + byte) % BufferSize, count |-> bits.count + 8,
                 encoded |-> bits.encoded]
        once == Take6(full)
    IN  IF once.count >= 6 THEN Take6(once) ELSE once

Empty == [buffer |-> 0, count |-> 0, encoded |-> << >>]

\* Mutant: the bits left over are not moved to the top of the last character.
base64url_encode_LastUnshifted(bytes) ==
    LET bits == FoldLeft(Feed, Empty, bytes)
    IN  IF bits.count > 0 THEN Append(bits.encoded, bits.buffer % 64) ELSE bits.encoded

base64url_encode(bytes) ==
    LET bits == FoldLeft(Feed, Empty, bytes)
    IN  IF bits.count > 0
        THEN Append(bits.encoded, (bits.buffer * 2^(6 - bits.count)) % 64)
        ELSE bits.encoded

\* Mutant: zeros up to the end of the chunk, and then the length.
PaddedSize_LengthOutside(length) ==
    LET grow[n \in Nat] == IF n % 64 = 0 THEN n ELSE grow[n + 1]
    IN  grow[length + 1] + 8

\* The size of the message sha256 hashes for an input of this size: one byte
\* 0x80, zeros up to 56 modulo 64, and eight bytes of length.
PaddedSize(length) ==
    LET grow[n \in Nat] == IF n % 64 = 56 THEN n ELSE grow[n + 1]
    IN  grow[length + 1] + 8
=============================================================================
