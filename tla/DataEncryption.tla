--------------------------- MODULE DataEncryption ---------------------------
(***************************************************************************)
(* The encryption of data with the keystream of module Ascon:              *)
(* CCDataEncryption of crypto/cc_encoding.h and its callers.  A byte is    *)
(* the function of its bits, a buffer the function of its offsets.         *)
(***************************************************************************)
EXTENDS Ascon

Byte == [0 .. 7 -> Bit]

DataKey == [k0 : Word, k1 : Word]

Buffer(size) == [0 .. size - 1 -> Byte]

\* The bits of an address, and byte b of a word in memory.
LaBits(la) == [i \in 0 .. 63 |-> IF (la \div 2^i) % 2 = 1 THEN 1 ELSE 0]

ByteOf(word, b) == [k \in 0 .. 7 |-> word[8 * b + k]]

XorByte(x, y) == [k \in 0 .. 7 |-> xor(x[k], y[k])]

\* A keystream word for every 8 bytes of memory that the access touches.
get_countermode_mask(la, data_key, size) ==
  LET la_base == 8 * (la \div 8)
      blocks  == (la + size - la_base + 7) \div 8
  IN  [j \in 0 .. 8 * blocks - 1 |->
         ByteOf(ascon64b_stream(LaBits(la_base + 8 * (j \div 8)), data_key), j % 8)]

encrypt_decrypt_bytes(la, data_key, input, size) ==
  LET mask == get_countermode_mask(la, data_key, size)
  IN  [i \in 0 .. size - 1 |-> XorByte(input[i], mask[i + (la % 8)])]

\* In chunks of 64 bytes, what the mask buffer holds.
encrypt_decrypt_many_bytes(la, data_key, input, size) ==
  [i \in 0 .. size - 1 |->
     LET c == 64 * (i \div 64)
         n == IF size - c > 64 THEN 64 ELSE size - c
     IN  encrypt_decrypt_bytes(la + c, data_key, [j \in 0 .. n - 1 |-> input[c + j]], n)[i - c]]

\* A word put together from its bytes.
WordOf(bytes) == [i \in 0 .. 63 |-> bytes[i \div 8][i % 8]]

\* A word is taken apart into bytes and put together again.
encrypt_decrypt_u64(tweak, val, data_key) ==
  WordOf(encrypt_decrypt_bytes(tweak, data_key, [b \in 0 .. 7 |-> ByteOf(val, b)], 8))

(***************************************************************************)
(* SWEncoder::encrypt_decrypt_bytes, for tools: the first n bytes of the   *)
(* buffer, at most what is left of the slot.  The code computes n from a   *)
(* mask for the low byte of the CA where its size field is meant, by a     *)
(* shift that may be too long, so n is any number.                         *)
(***************************************************************************)
sw_encrypt_decrypt_bytes(ca, data_key, buf, len, n) ==
  [i \in 0 .. len - 1 |->
     IF i < n THEN encrypt_decrypt_bytes(ca, data_key, buf, n)[i] ELSE buf[i]]

c3c_encrypt_decrypt_bytes(ca, data_key, buf, len, n) ==
  sw_encrypt_decrypt_bytes(ca, data_key, buf, len, n)

-----------------------------------------------------------------------------
\* The keystream byte of an address, which all of them must agree on.
StreamAt(data_key, a) ==
  ByteOf(ascon64b_stream(LaBits(8 * (a \div 8)), data_key), a % 8)
=============================================================================
