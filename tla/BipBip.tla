------------------------------- MODULE BipBip -------------------------------
(***************************************************************************)
(* The pointer cipher, crypto/bipbip.cpp: a 24-bit block cipher with a     *)
(* 40-bit tweak and a 256-bit key.  A word is the function of its bits.    *)
(* The cached tweak schedule of PointerCipher24b is in module Context.     *)
(***************************************************************************)
EXTENDS Words, Sequences

Block == [0 .. 23 -> Bit]
Tweak == [0 .. 52 -> Bit]

Sbox_table ==
  <<0, 1, 2, 3, 4, 6, 62, 60, 8, 17, 14, 23, 43, 51, 53, 45, 25, 28, 9, 12, 21, 19, 61,
    59, 49, 44, 37, 56, 58, 38, 54, 42, 52, 29, 55, 30, 48, 26, 11, 33, 46, 31, 41, 24,
    15, 63, 16, 32, 40, 5, 57, 20, 36, 10, 13, 35, 18, 39, 7, 50, 27, 47, 22, 34>>

Sbox_inv_table ==
  <<0, 1, 2, 3, 4, 49, 5, 58, 8, 18, 53, 38, 19, 54, 10, 44, 46, 9, 56, 21, 51, 20, 62,
    11, 43, 16, 37, 60, 17, 33, 35, 41, 47, 39, 63, 55, 52, 26, 29, 57, 48, 42, 31, 12,
    25, 15, 40, 61, 36, 24, 59, 13, 32, 14, 30, 34, 27, 50, 28, 23, 7, 22, 6, 45>>

PI1 ==
  <<1, 7, 6, 0, 2, 8, 12, 18, 19, 13, 14, 20, 21, 15, 16, 22, 23, 17, 9, 3, 4, 10, 11,
    5>>

PI2 ==
  <<0, 1, 4, 5, 8, 9, 2, 3, 6, 7, 10, 11, 16, 12, 13, 17, 20, 21, 15, 14, 18, 19, 22,
    23>>

PI3 ==
  <<16, 22, 11, 5, 2, 8, 0, 6, 19, 13, 12, 18, 14, 15, 1, 7, 21, 20, 4, 3, 17, 23, 10,
    9>>

PI1_inv ==
  <<3, 0, 4, 19, 20, 23, 2, 1, 5, 18, 21, 22, 6, 9, 10, 13, 14, 17, 7, 8, 11, 12, 15,
    16>>

PI2_inv ==
  <<0, 1, 6, 7, 2, 3, 8, 9, 4, 5, 10, 11, 13, 14, 19, 18, 12, 15, 20, 21, 16, 17, 22,
    23>>

PI3_inv ==
  <<6, 14, 4, 19, 18, 3, 7, 15, 5, 23, 22, 2, 10, 9, 12, 13, 0, 20, 11, 8, 17, 16, 1,
    21>>

PI4 ==
  <<0, 13, 26, 39, 52, 12, 25, 38, 51, 11, 24, 37, 50, 10, 23, 36, 49, 9, 22, 35, 48,
    8, 21, 34, 47, 7, 20, 33, 46, 6, 19, 32, 45, 5, 18, 31, 44, 4, 17, 30, 43, 3, 16,
    29, 42, 2, 15, 28, 41, 1, 14, 27, 40>>

PI5 ==
  <<0, 11, 22, 33, 44, 2, 13, 24, 35, 46, 4, 15, 26, 37, 48, 6, 17, 28, 39, 50, 8, 19,
    30, 41, 52, 10, 21, 32, 43, 1, 12, 23, 34, 45, 3, 14, 25, 36, 47, 5, 16, 27, 38,
    49, 7, 18, 29, 40, 51, 9, 20, 31, 42>>

\* Tables count from 0.
At(table, i) == table[i + 1]

-----------------------------------------------------------------------------
(***************************************************************************)
(* The data path.                                                          *)
(***************************************************************************)
\* The value of six bits, and the bits of a value.
ChunkVal(b) == b[0] + 2 * b[1] + 4 * b[2] + 8 * b[3] + 16 * b[4] + 32 * b[5]

BitOf(v, k) == (v \div At(<<1, 2, 4, 8, 16, 32>>, k)) % 2

Chunk(s, c) == [k \in 0 .. 5 |-> s[6 * c + k]]

sbox(s, table) == [i \in 0 .. 23 |-> BitOf(At(table, ChunkVal(Chunk(s, i \div 6))), i % 6)]

SBL(s) == sbox(s, Sbox_table)

SBL_inv(s) == sbox(s, Sbox_inv_table)

\* Rotations are to the right: bit i takes bit i + n.
LML1(s) == [i \in 0 .. 23 |-> xor(xor(s[i], s[(i + 2) % 24]), s[(i + 12) % 24])]

LML1_inv(s) == [i \in 0 .. 23 |-> LML1(s)[(i + 20) % 24]]

\* The bit permutation layer, for blocks.
BPL(s, PI) == [i \in 0 .. 23 |-> s[At(PI, i)]]

KAD(s, k) == [i \in 0 .. 23 |-> xor(s[i], k[i])]

RFC(s) == BPL(LML1(BPL(SBL(s), PI1)), PI2)

RFC_inv(s) == SBL_inv(BPL(LML1_inv(BPL(s, PI2_inv)), PI1_inv))

RFS(s) == BPL(SBL(s), PI3)

RFS_inv(s) == SBL_inv(BPL(s, PI3_inv))

\* Three shell rounds, five core rounds, three shell rounds, each after a key addition.
BipBipEnc(p, t) ==
  LET a == RFS_inv(KAD(RFS_inv(KAD(RFS_inv(KAD(p, t[11])), t[10])), t[9]))
      b == RFC_inv(KAD(RFC_inv(KAD(RFC_inv(KAD(a, t[8])), t[7])), t[6]))
      c == RFC_inv(KAD(RFC_inv(KAD(b, t[5])), t[4]))
      d == RFS_inv(KAD(RFS_inv(KAD(RFS_inv(KAD(c, t[3])), t[2])), t[1]))
  IN  KAD(d, t[0])

BipBipDec(x, t) ==
  LET d == RFS(KAD(RFS(KAD(RFS(KAD(x, t[0])), t[1])), t[2]))
      c == RFC(KAD(RFC(KAD(d, t[3])), t[4]))
      b == RFC(KAD(RFC(KAD(RFC(KAD(c, t[5])), t[6])), t[7]))
      a == RFS(KAD(RFS(KAD(RFS(KAD(b, t[8])), t[9])), t[10]))
  IN  KAD(a, t[11])

-----------------------------------------------------------------------------
(***************************************************************************)
(* The tweak path.                                                         *)
(***************************************************************************)
CHI(w) == [i \in 0 .. 52 |-> xor(w[i], (1 - w[(i + 1) % 53]) * w[(i + 2) % 53])]

LML2(w) == [i \in 0 .. 52 |-> xor(xor(w[i], w[(i + 1) % 53]), w[(i + 8) % 53])]

\* A shift, not a rotation.
LML3(w) == [i \in 0 .. 52 |-> IF i = 52 THEN w[i] ELSE xor(w[i], w[i + 1])]

BPL53(w, PI) == [i \in 0 .. 52 |-> w[At(PI, i)]]

KAD53(w, k) == [i \in 0 .. 52 |-> xor(w[i], k[i])]

\* Even and odd bits, compacted by deinterleave_odd_bits.
RKE0(w) == [i \in 0 .. 23 |-> w[2 * i]]

RKE1(w) == [i \in 0 .. 23 |-> w[2 * i + 1]]

RGC(w) == CHI(BPL53(LML2(BPL53(w, PI4)), PI5))

RGP(w) == CHI(BPL53(LML3(BPL53(w, PI4)), PI5))

\* The twelve round keys of a padded tweak.
TwkSc(w, ks) ==
  LET w1 == CHI(KAD53(w, ks.tweak_round_key[0]))
      w2 == RGC(KAD53(w1, ks.tweak_round_key[1]))
      w3 == RGP(RGC(KAD53(w2, ks.tweak_round_key[2])))
      w4 == RGC(KAD53(w3, ks.tweak_round_key[3]))
      w5 == RGP(w4)
      w6 == RGC(KAD53(w5, ks.tweak_round_key[4]))
      w7 == RGP(w6)
      w8 == RGC(KAD53(w7, ks.tweak_round_key[5]))
  IN  [r \in 0 .. 11 |->
         CASE r = 0  -> ks.data_round_key
           [] r = 1  -> RKE0(w1) [] r = 2 -> RKE1(w1)
           [] r = 3  -> RKE0(w2) [] r = 4 -> RKE1(w2)
           [] r = 5  -> RKE0(w3) [] r = 6 -> RKE0(w4)
           [] r = 7  -> RKE0(w5) [] r = 8 -> RKE0(w6)
           [] r = 9  -> RKE0(w7)
           [] r = 10 -> RKE0(w8) [] r = 11 -> RKE1(w8)]

\* The 40 bits of the tweak, then a one, then zeros.
pad_tweak(tweak) ==
  [i \in 0 .. 52 |-> IF i > 12 THEN tweak[i - 13] ELSE IF i = 12 THEN 1 ELSE 0]

\* Where the bits of the data round key are in the master key: powers of 3 modulo 256.
KeyPos[i \in 0 .. 23] == IF i = 0 THEN 3 ELSE (KeyPos[i - 1] * 3) % 256

GenKeySchedule(mk) ==
  [data_round_key  |-> [i \in 0 .. 23 |-> mk[KeyPos[i]]],
   tweak_round_key |-> [i \in 0 .. 5 |-> [j \in 0 .. 52 |-> mk[(53 * (i + 1) + j) % 256]]]]

-----------------------------------------------------------------------------
\* PointerCipher24b under the schedule of the key and the tweak.
Schedule(mk, tweak) == TwkSc(pad_tweak(tweak), GenKeySchedule(mk))

encrypt24(mk, plaintext, tweak) == BipBipEnc(plaintext, Schedule(mk, tweak))

decrypt24(mk, ciphertext, tweak) == BipBipDec(ciphertext, Schedule(mk, tweak))

-----------------------------------------------------------------------------
\* What the tables must satisfy, and what the representation of six bits does.
ASSUME TableAssumption ==
  /\ \A v \in 0 .. 63 : At(Sbox_inv_table, v) \in 0 .. 63 /\ At(Sbox_table, v) \in 0 .. 63
  /\ \A v \in 0 .. 63 : At(Sbox_table, At(Sbox_inv_table, v)) = v
  /\ \A i \in 0 .. 23 : /\ At(PI1, i) \in 0 .. 23 /\ At(PI1_inv, At(PI1, i)) = i
                        /\ At(PI2, i) \in 0 .. 23 /\ At(PI2_inv, At(PI2, i)) = i
                        /\ At(PI3, i) \in 0 .. 23 /\ At(PI3_inv, At(PI3, i)) = i
                        /\ At(PI1_inv, i) \in 0 .. 23 /\ At(PI2_inv, i) \in 0 .. 23
                        /\ At(PI3_inv, i) \in 0 .. 23

ASSUME TweakAssumption ==
  /\ \A i \in 0 .. 52 : At(PI4, i) \in 0 .. 52 /\ At(PI5, i) \in 0 .. 52
  /\ \A i \in 0 .. 23 : KeyPos[i] \in 0 .. 255

ASSUME BitsAssumption ==
  /\ \A v \in 0 .. 63 : /\ ChunkVal([k \in 0 .. 5 |-> BitOf(v, k)]) = v
                        /\ \A k \in 0 .. 5 : BitOf(v, k) \in Bit
  /\ \A b \in [0 .. 5 -> Bit] : /\ ChunkVal(b) \in 0 .. 63
                                /\ \A k \in 0 .. 5 : BitOf(ChunkVal(b), k) = b[k]
=============================================================================
