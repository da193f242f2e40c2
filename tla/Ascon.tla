-------------------------------- MODULE Ascon --------------------------------
(***************************************************************************)
(* The data cipher, crypto/ascon_cipher.cpp: a keystream word per 8 bytes  *)
(* of memory, from two applications of the Ascon permutation.              *)
(***************************************************************************)
EXTENDS Words, Sequences

Word == [0 .. 63 -> Bit]

State == [0 .. 4 -> Word]

\* The word with the given bits set, and the bits of a round constant.
Ones(S) == [i \in 0 .. 63 |-> IF i \in S THEN 1 ELSE 0]

Constant(c) == [i \in 0 .. 63 |-> IF i < 8 /\ (c \div 2^i) % 2 = 1 THEN 1 ELSE 0]

Xor(x, y) == [i \in 0 .. 63 |-> xor(x[i], y[i])]

ROR(x, n) == [i \in 0 .. 63 |-> x[(i + n) % 64]]

\* The s-box layer, on one bit of each of the five words: without the inversion of word 2,
\* which comes after the linear layer.
SboxBits(b) ==
  LET x0 == xor(b[0], b[4])
      x4 == xor(b[4], b[3])
      x2 == xor(b[2], b[1])
      t0 == xor(x0, (1 - b[1]) * x2)
      t2 == xor(x2, (1 - b[3]) * x4)
      t4 == xor(x4, (1 - x0) * b[1])
      t1 == xor(b[1], (1 - x2) * b[3])
      t3 == xor(b[3], (1 - x4) * x0)
  IN  [w \in 0 .. 4 |-> CASE w = 0 -> xor(t0, t4) [] w = 1 -> xor(t1, t0) [] w = 2 -> t2
                          [] w = 3 -> xor(t3, t2) [] w = 4 -> t4]

\* The bits i of the state, the constant added to word 2.
Column(s, c, i) == [w \in 0 .. 4 |-> IF w = 2 THEN xor(s[w][i], Constant(c)[i]) ELSE s[w][i]]

\* The two rotations of each word of the linear layer, the second of them inside the first.
Outer(w) == CASE w = 0 -> 19 [] w = 1 -> 39 [] w = 2 -> 1 [] w = 3 -> 10 [] w = 4 -> 7

Inner(w) == CASE w = 0 -> 28 - 19 [] w = 1 -> 61 - 39 [] w = 2 -> 6 - 1 [] w = 3 -> 17 - 10
              [] w = 4 -> 41 - 7

\* The constant, the substitution layer, then the linear layer, word by word.
Substituted(s, c) == [w \in 0 .. 4 |-> [i \in 0 .. 63 |-> SboxBits(Column(s, c, i))[w]]]

Diffused(x, w) == Xor(x, ROR(Xor(x, ROR(x, Inner(w))), Outer(w)))

Not(x) == [i \in 0 .. 63 |-> 1 - x[i]]

ROUND(s, c) ==
  [w \in 0 .. 4 |-> IF w = 2 THEN Not(Diffused(Substituted(s, c)[w], w))
                    ELSE Diffused(Substituted(s, c)[w], w)]

RC == <<240, 225, 210, 195, 180, 165, 150, 135, 120, 105, 90, 75>>

P12ROUNDS(s) ==
  LET s0 == ROUND(s, RC[1])    s1 == ROUND(s0, RC[2])    s2  == ROUND(s1, RC[3])
      s3 == ROUND(s2, RC[4])   s4 == ROUND(s3, RC[5])    s5  == ROUND(s4, RC[6])
      s6 == ROUND(s5, RC[7])   s7 == ROUND(s6, RC[8])    s8  == ROUND(s7, RC[9])
      s9 == ROUND(s8, RC[10])  sa == ROUND(s9, RC[11])
  IN  ROUND(sa, RC[12])

\* S_X0_INIT and the words with the key.
Loaded(key) ==
  [w \in 0 .. 4 |-> CASE w = 0 -> Ones({63, 55, 47, 43, 42}) [] w = 1 -> key.k0
                      [] w = 2 -> key.k1 [] OTHER -> Ones({})]

\* The input, the padding PAD(0) and the domain separation.
Absorbed(s, data_in) ==
  [w \in 0 .. 4 |-> CASE w = 0 -> Xor(s[0], data_in) [] w = 1 -> Xor(s[1], Ones({63}))
                      [] w = 4 -> Xor(s[4], Ones({0})) [] OTHER -> s[w]]

ascon64b_stream(data_in, key) == P12ROUNDS(Absorbed(P12ROUNDS(Loaded(key)), data_in))[0]

-----------------------------------------------------------------------------
(***************************************************************************)
(* The round of the Ascon specification: constant, substitution by a       *)
(* table, and a linear layer of three rotations.                           *)
(***************************************************************************)
SboxTable == <<4, 11, 31, 20, 26, 21, 9, 2, 27, 5, 8, 18, 29, 3, 6, 28,
               30, 19, 7, 14, 0, 13, 17, 24, 16, 12, 1, 25, 22, 10, 15, 23>>

\* Word 0 holds the most significant bit of a column.
SboxSpec(b) ==
  LET v == SboxTable[16 * b[0] + 8 * b[1] + 4 * b[2] + 2 * b[3] + b[4] + 1]
  IN  [w \in 0 .. 4 |-> (v \div <<16, 8, 4, 2, 1>>[w + 1]) % 2]

Sigma(w) == CASE w = 0 -> <<19, 28>> [] w = 1 -> <<61, 39>> [] w = 2 -> <<1, 6>>
              [] w = 3 -> <<10, 17>> [] w = 4 -> <<7, 41>>

SubstitutedSpec(s, c) == [w \in 0 .. 4 |-> [i \in 0 .. 63 |-> SboxSpec(Column(s, c, i))[w]]]

RoundSpec(s, c) ==
  [w \in 0 .. 4 |-> [i \in 0 .. 63 |->
     LET x == SubstitutedSpec(s, c)[w]
     IN  xor(xor(x[i], x[(i + Sigma(w)[1]) % 64]), x[(i + Sigma(w)[2]) % 64])]]

\* The bit operations compute the table, but for the inversion.
ASSUME SboxAssumption ==
  \A b \in [0 .. 4 -> Bit] : \A w \in 0 .. 4 :
    /\ SboxBits(b)[w] \in Bit
    /\ SboxSpec(b)[w] = IF w = 2 THEN 1 - SboxBits(b)[w] ELSE SboxBits(b)[w]
=============================================================================
