----------------------------- MODULE PtrEncoding -----------------------------
(***************************************************************************)
(* Cryptographic addresses: the format of c3lib/c3/generic/ca.h, the       *)
(* encoding and decoding of crypto/cc_encoding.h, the boxes of             *)
(* malloc/try_box.h, and the instructions of ptrencdec_isa.h.              *)
(*                                                                         *)
(* A pointer is a record of the bit fields of ca_t: the low bits, which    *)
(* stay in the clear, the ciphertext field, the bit s_prime above them, the *)
(* size field and the sign s.  A linear address has the size and version   *)
(* of its sign, 0 or all ones, here -1.  The cipher is symbolic: a         *)
(* ciphertext remembers its tweak, and under another tweak decrypts to     *)
(* noise.                                                                  *)
(***************************************************************************)
EXTENDS Integers, FiniteSets, FiniteSetsExt

CONSTANTS PLAINTEXT_SIZE,   \* number of bits in the clear
          AddrBits,         \* number of bits below s_prime
          Noise             \* upper address bits that nothing has

ASSUME PtrEncodingAssumption ==
  /\ PLAINTEXT_SIZE \in Nat /\ AddrBits \in Nat /\ PLAINTEXT_SIZE <= AddrBits
  /\ Noise \in Nat
  /\ \A k \in 0 .. AddrBits : 2^k \in Nat \ {0}
  /\ \A k \in 0 .. PLAINTEXT_SIZE : 2^PLAINTEXT_SIZE % 2^k = 0

Region == 2^PLAINTEXT_SIZE

\* s_extended_: the sign bit in every place
Extended(bit) == 0 - bit

\* A canonical address, in the lower or upper half (bit 0 or 1).
Linear(a, bit) ==
  [s |-> bit, size |-> Extended(bit), s_prime |-> bit, low |-> a % Region,
   ct |-> [up |-> a \div Region, version |-> Extended(bit), tweak |-> <<>>]]

\* The address bits below s_prime.
AddrOf(p) == p.ct.up * Region + p.low

is_encoded_cc_ptr(p) == p.size \notin {0, -1}

is_canonical(p) == /\ p.s = p.s_prime
                   /\ p.size = Extended(p.s) /\ p.ct.version = Extended(p.s)

-----------------------------------------------------------------------------
\* decode_size: the power of two a size field stands for.
decode_size(size) == 2^(size - 1)

\* The bits that the size leaves fixed.
ca_get_tweak_bits(low, size) == low - (low % decode_size(size))

\* Those bits and the size itself.
generate_tweak(low, size) == <<ca_get_tweak_bits(low, size), size>>

encrypt(ct, tweak) ==
  IF ct.tweak = <<>> THEN [ct EXCEPT !.tweak = tweak] ELSE [ct EXCEPT !.up = Noise]

decrypt(ct, tweak) ==
  IF ct.tweak = tweak THEN [ct EXCEPT !.tweak = <<>>]
  ELSE [ct EXCEPT !.up = Noise, !.tweak = <<>>]

decorate_ptr(p, md) == [p EXCEPT !.ct.version = md.version, !.size = md.size]

encrypt_ptr(p, md) == [p EXCEPT !.ct = encrypt(@, generate_tweak(p.low, md.size))]

\* The size of a CA is in the clear.
get_pointer_metadata(p) == [size |-> p.size]

decrypt_ptr(p) == [p EXCEPT !.ct = decrypt(@, generate_tweak(p.low, get_pointer_metadata(p).size))]

undecorate_ptr(p) == [p EXCEPT !.ct.version = Extended(p.s_prime), !.size = Extended(p.s_prime)]

encode_pointer(p, md) == encrypt_ptr(decorate_ptr(p, md), md)

decode_pointer(p) == undecorate_ptr(decrypt_ptr(p))

decode_pointer_if_encoded(p) == IF is_encoded_cc_ptr(p) THEN decode_pointer(p) ELSE p

-----------------------------------------------------------------------------
\* How many low bits differ between the first and the last byte of a block; an empty block
\* counts as one byte.
DifferingBits(a, n) ==
  LET last == a + (IF n < 1 THEN 1 ELSE n) - 1
  IN  Min({k \in 0 .. AddrBits : a \div 2^k = last \div 2^k})

cc_can_box(a, n) == DifferingBits(a, n) <= PLAINTEXT_SIZE

\* A bug: the size of the block alone decides.
try_box_by_size(a, n) == 1 + Min({k \in 0 .. AddrBits : n <= 2^k})

\* The size field for a block that can be boxed.
try_box(a, n) == DifferingBits(a, n) + 1

cc_isa_encptr_sv(a, bit, n, version) ==
  IF cc_can_box(a, n)
  THEN encode_pointer(Linear(a, bit), [size |-> try_box(a, n), version |-> version])
  ELSE Linear(a, bit)

\* The same in software, for tools outside the simulation: SWEncoder and its C interface.
encode_ptr(p, n, version) ==
  IF cc_can_box(AddrOf(p), n)
  THEN encode_pointer(p, [size |-> try_box(AddrOf(p), n), version |-> version]) ELSE p

c3c_encode_ptr(p, n, version) == encode_ptr(p, n, version)

decode_ptr_if_ca(p) == IF is_encoded_cc_ptr(p) THEN decode_pointer(p) ELSE p

\* Only for CAs: anything else ends in an assertion.
c3c_decode_ptr(p) == decode_pointer(p)

\* ccptrenc_emulation and ccptrdec_emulation, with their enable flags.
ccptrenc_emulation(p, md, on) == IF on THEN encode_pointer(p, md) ELSE p

ccptrdec_emulation(p, on) == IF on THEN decode_pointer_if_encoded(p) ELSE p

\* The largest offset up to i that stays in the pointer's slot.
ca_get_inbound_offset(p, i) ==
  LET max == decode_size(p.size) - 1 - (p.low % decode_size(p.size))
  IN  IF i < max THEN i ELSE max

\* Pointer arithmetic inside the bits in the clear.
Moved(p, a) == [p EXCEPT !.low = a % Region]
=============================================================================
