--------------------------- MODULE PipelineProofs ----------------------------
(***************************************************************************)
(* The invariants of module Pipeline, for every address space, page size,  *)
(* set of boxes and number of warnings.                                    *)
(***************************************************************************)
EXTENDS Pipeline, FiniteSetTheorems, WellFoundedInduction, TLAPS

-----------------------------------------------------------------------------
(***************************************************************************)
(* Numbers.                                                                *)
(***************************************************************************)
\* A set of numbers has a least one.
LEMMA Least ==
  ASSUME NEW S \in SUBSET Nat, S # {}
  PROVE  \E m \in S : \A k \in S : m <= k
<1>1. \E x \in S : \A y \in S : ~ (<<y, x>> \in OpToRel(<, Nat))
  BY WFMin, NatLessThanWellFounded, Zenon
<1>2. \A x, y \in Nat : <<y, x>> \in OpToRel(<, Nat) <=> y < x
  BY Zenon DEF OpToRel
<1>3. \E x \in S : \A y \in S : ~ (y < x)
  BY <1>1, <1>2, Zenon
<1> QED BY <1>3

LEMMA DivMod ==
  ASSUME NEW r \in Nat \ {0}, NEW a \in Nat
  PROVE  a = r * (a \div r) + (a % r) /\ a % r \in 0 .. r - 1 /\ a \div r \in Nat
OBVIOUS

LEMMA DivUnique ==
  ASSUME NEW r \in Nat \ {0}, NEW q \in Nat, NEW x \in 0 .. r - 1
  PROVE  (r * q + x) \div r = q /\ (r * q + x) % r = x
OBVIOUS

LEMMA NextLow ==
  ASSUME NEW r \in Nat \ {0}, NEW a \in Nat, a \div r = (a + 1) \div r
  PROVE  (a + 1) % r = (a % r) + 1
OBVIOUS

\* The parts of a number in a block of d inside a block of r = d * q.
Parts(a, d, q, r) ==
  /\ (a % r) % d = a % d
  /\ (a % r) - ((a % r) % d) = d * ((a % r) \div d)
  /\ a \div d = q * (a \div r) + ((a % r) \div d)
  /\ (a \div d) \div q = a \div r
  /\ (a % r) \div d \in Nat /\ a \div r \in Nat

LEMMA Nested ==
  ASSUME NEW d \in Nat \ {0}, NEW q \in Nat \ {0}, NEW r \in Nat \ {0}, r = d * q, NEW a \in Nat
  PROVE  Parts(a, d, q, r)
<1> DEFINE A == a \div r
<1> DEFINE x == a % r
<1>2. a = r * A + x /\ x \in 0 .. r - 1 /\ A \in Nat
  BY DivMod
<1> HIDE DEF A, x
<1> DEFINE u == x \div d
<1> DEFINE v == x % d
<1>3. x = d * u + v /\ v \in 0 .. d - 1 /\ u \in Nat
  <2>1. x \in Nat
    BY <1>2
  <2> QED BY <2>1, DivMod
<1> HIDE DEF u, v
<1>4. a = d * (q * A + u) + v /\ q * A + u \in Nat
  <2>1. r * A = d * (q * A) /\ q * A \in Nat
    BY <1>2
  <2>2. d * (q * A + u) = d * (q * A) + d * u
    BY <2>1, <1>3
  <2> QED BY <1>2, <1>3, <2>1, <2>2
<1>5. a \div d = q * A + u /\ a % d = v
  BY <1>3, <1>4, DivUnique
<1>6. u \in 0 .. q - 1
  <2> SUFFICES ASSUME u >= q PROVE FALSE
    BY <1>3
  <2>1. d * u >= d * q
    BY <1>3
  <2> QED BY <2>1, <1>2, <1>3
<1>7. (a \div d) \div q = A
  BY <1>2, <1>5, <1>6, DivUnique
<1>8. x - v = d * u
  BY <1>2, <1>3
<1> QED BY <1>2, <1>3, <1>5, <1>7, <1>8 DEF A, x, u, v, Parts

LEMMA RegionType == Region \in Nat \ {0}
BY PtrEncodingAssumption DEF Region

\* A slot divides the region.
LEMMA SlotDivides ==
  ASSUME NEW k \in 0 .. PLAINTEXT_SIZE
  PROVE  2^k \in Nat \ {0} /\ \E q \in Nat \ {0} : Region = 2^k * q
<1>1. 2^k \in Nat \ {0} /\ Region % 2^k = 0
  BY PtrEncodingAssumption DEF Region
<1> DEFINE d == 2^k
<1>2. d \in Nat \ {0} /\ Region % d = 0
  BY <1>1
<1> HIDE DEF d
<1>3. Region = d * (Region \div d) /\ Region \div d \in Nat
  <2>1. Region = d * (Region \div d) + (Region % d) /\ Region \div d \in Nat
    BY <1>2, RegionType, DivMod
  <2> QED BY <1>2, <2>1
<1>4. Region \div d # 0
  BY <1>2, <1>3, RegionType
<1> QED BY <1>1, <1>3, <1>4 DEF d

\* The bits in which the first and the last byte of a block differ: the least number of low
\* bits without which they are the same.
LEMMA DifferingBitsLeast ==
  ASSUME NEW a \in Nat, NEW n \in Nat, a < 2^AddrBits, a + n <= 2^AddrBits,
         NEW last, last = a + (IF n < 1 THEN 1 ELSE n) - 1
  PROVE  /\ DifferingBits(a, n) \in 0 .. AddrBits
         /\ a \div 2^DifferingBits(a, n) = last \div 2^DifferingBits(a, n)
         /\ last \in Nat /\ a <= last
<1> DEFINE holds == {k \in 0 .. AddrBits : a \div 2^k = last \div 2^k}
<1>1. last \in Nat /\ a <= last /\ last < 2^AddrBits
  BY PtrEncodingAssumption
<1>2. a \div 2^AddrBits = 0 /\ last \div 2^AddrBits = 0
  <2>1. 2^AddrBits \in Nat \ {0}
    BY PtrEncodingAssumption
  <2> QED BY <1>1, <2>1
<1>3. AddrBits \in holds
  BY <1>2, PtrEncodingAssumption
<1>4. holds \in SUBSET Nat
  BY PtrEncodingAssumption
<1>5. PICK m \in holds : \A k \in holds : m <= k
  BY <1>3, <1>4, Least
<1>6. DifferingBits(a, n) = Min(holds)
  BY DEF DifferingBits
<1>7. Min(holds) \in holds
  BY <1>5 DEF Min
<1> QED BY <1>1, <1>6, <1>7

-----------------------------------------------------------------------------
(***************************************************************************)
(* Pointers as records, field by field.                                    *)
(***************************************************************************)
MkCt(up, version, tweak) == [up |-> up, version |-> version, tweak |-> tweak]

MkPtr(s, size, s_prime, low, ct) ==
  [s |-> s, size |-> size, s_prime |-> s_prime, low |-> low, ct |-> ct]

LEMMA LinearForm ==
  ASSUME NEW a, NEW bit
  PROVE  Linear(a, bit) = MkPtr(bit, 0 - bit, bit, a % Region, MkCt(a \div Region, 0 - bit, <<>>))
BY DEF Linear, Extended, MkPtr, MkCt

\* What decorate_ptr and undecorate_ptr do: replace version and size.
Redecorated(p, version, size) == [p EXCEPT !.ct.version = version, !.size = size]

LEMMA Versioned ==
  ASSUME NEW s, NEW size, NEW sp, NEW low, NEW up, NEW v, NEW t, NEW x, NEW y
  PROVE  Redecorated(MkPtr(s, size, sp, low, MkCt(up, v, t)), x, y)
           = MkPtr(s, y, sp, low, MkCt(up, x, t))
<1> DEFINE p == MkPtr(s, size, sp, low, MkCt(up, v, t))
<1>1. [p EXCEPT !.ct.version = x] = MkPtr(s, size, sp, low, MkCt(up, x, t))
  BY DEF MkPtr, MkCt
<1>2. \A c : [MkPtr(s, size, sp, low, c) EXCEPT !.size = y] = MkPtr(s, y, sp, low, c)
  BY DEF MkPtr
<1> HIDE DEF p
<1>3. [p EXCEPT !.ct.version = x, !.size = y] = [[p EXCEPT !.ct.version = x] EXCEPT !.size = y]
  OBVIOUS
<1> QED BY <1>1, <1>2, <1>3 DEF p, Redecorated

LEMMA EncodeForm ==
  ASSUME NEW a, NEW bit, NEW size, NEW version
  PROVE  encode_pointer(Linear(a, bit), [size |-> size, version |-> version])
           = MkPtr(bit, size, bit, a % Region,
                   MkCt(a \div Region, version, generate_tweak(a % Region, size)))
<1> DEFINE md == [size |-> size, version |-> version]
<1>1. decorate_ptr(Linear(a, bit), md)
        = MkPtr(bit, size, bit, a % Region, MkCt(a \div Region, version, <<>>))
  <2>1. \A p : decorate_ptr(p, md) = Redecorated(p, version, size)
    BY DEF decorate_ptr, Redecorated
  <2> QED BY <2>1, LinearForm, Versioned
<1>2. \A t : encrypt(MkCt(a \div Region, version, <<>>), t) = MkCt(a \div Region, version, t)
  BY DEF encrypt, MkCt
<1>3. md.size = size
  OBVIOUS
<1> HIDE DEF md
<1>4. encrypt_ptr(decorate_ptr(Linear(a, bit), md), md)
        = MkPtr(bit, size, bit, a % Region,
                encrypt(MkCt(a \div Region, version, <<>>), generate_tweak(a % Region, size)))
  BY <1>1, <1>3 DEF encrypt_ptr, MkPtr
<1> QED BY <1>2, <1>4 DEF encode_pointer, md

LEMMA DecodeForm ==
  ASSUME NEW s, NEW size, NEW sp, NEW low, NEW up, NEW v, NEW t
  PROVE  decode_pointer(MkPtr(s, size, sp, low, MkCt(up, v, t)))
           = MkPtr(s, 0 - sp, sp, low,
                   MkCt(IF t = generate_tweak(low, size) THEN up ELSE Noise, 0 - sp, <<>>))
<1> DEFINE up2 == IF t = generate_tweak(low, size) THEN up ELSE Noise
<1>1. decrypt(MkCt(up, v, t), generate_tweak(low, size)) = MkCt(up2, v, <<>>)
  BY DEF decrypt, MkCt
<1> HIDE DEF up2
<1>2. decrypt_ptr(MkPtr(s, size, sp, low, MkCt(up, v, t)))
        = MkPtr(s, size, sp, low, decrypt(MkCt(up, v, t), generate_tweak(low, size)))
  BY DEF decrypt_ptr, get_pointer_metadata, MkPtr
<1>3. undecorate_ptr(MkPtr(s, size, sp, low, MkCt(up2, v, <<>>)))
        = MkPtr(s, 0 - sp, sp, low, MkCt(up2, 0 - sp, <<>>))
  <2>1. MkPtr(s, size, sp, low, MkCt(up2, v, <<>>)).s_prime = sp
    BY DEF MkPtr
  <2>2. \A p : undecorate_ptr(p) = Redecorated(p, 0 - p.s_prime, 0 - p.s_prime)
    BY DEF undecorate_ptr, Redecorated, Extended
  <2> QED BY <2>1, <2>2, Versioned
<1> QED BY <1>1, <1>2, <1>3 DEF decode_pointer, up2

LEMMA MovedForm ==
  ASSUME NEW s, NEW size, NEW sp, NEW low, NEW ct, NEW a
  PROVE  Moved(MkPtr(s, size, sp, low, ct), a) = MkPtr(s, size, sp, a % Region, ct)
BY DEF Moved, MkPtr

LEMMA PtrFields ==
  ASSUME NEW s, NEW size, NEW sp, NEW low, NEW ct
  PROVE  LET p == MkPtr(s, size, sp, low, ct)
         IN  p.s = s /\ p.size = size /\ p.s_prime = sp /\ p.low = low /\ p.ct = ct
BY DEF MkPtr

LEMMA CtFields ==
  ASSUME NEW up, NEW v, NEW t
  PROVE  MkCt(up, v, t).up = up /\ MkCt(up, v, t).version = v /\ MkCt(up, v, t).tweak = t
BY DEF MkCt

-----------------------------------------------------------------------------
(***************************************************************************)
(* The pointers of the program.                                            *)
(***************************************************************************)
LEMMA AddrType == Addr \subseteq Nat
BY PipelineAssumption DEF Addr

LEMMA BoxType ==
  ASSUME NEW b \in Boxes
  PROVE  /\ b[1] \in Addr /\ b[1] \in Nat /\ b[2] \in Nat /\ b[3] \in Nat
         /\ b[1] < 2^AddrBits /\ b[1] + b[2] <= 2^AddrBits
BY AddrType, PipelineAssumption

Boxed(b, on) == on /\ cc_can_box(b[1], b[2])

Sign(flip) == IF flip THEN 1 ELSE 0

SizeOf(b, on) == IF Boxed(b, on) THEN try_box(b[1], b[2]) ELSE 0

CtOf(b, on) ==
  IF Boxed(b, on)
  THEN MkCt(b[1] \div Region, b[3], generate_tweak(b[1] % Region, try_box(b[1], b[2])))
  ELSE MkCt(b[1] \div Region, 0, <<>>)

LEMMA PointerForm ==
  ASSUME NEW b, NEW on \in BOOLEAN, NEW a, NEW flip \in BOOLEAN
  PROVE  Pointer(b, on, a, flip) = MkPtr(Sign(flip), SizeOf(b, on), 0, a % Region, CtOf(b, on))
<1> DEFINE md == [size |-> try_box(b[1], b[2]), version |-> b[3]]
<1> DEFINE p == IF cc_can_box(b[1], b[2]) THEN ccptrenc_emulation(Linear(b[1], 0), md, on)
                ELSE Linear(b[1], 0)
<1>1. Linear(b[1], 0) = MkPtr(0, 0, 0, b[1] % Region, MkCt(b[1] \div Region, 0, <<>>))
  <2>1. 0 - 0 = 0
    OBVIOUS
  <2> QED BY <2>1, LinearForm
<1>2. encode_pointer(Linear(b[1], 0), md)
        = MkPtr(0, try_box(b[1], b[2]), 0, b[1] % Region,
                MkCt(b[1] \div Region, b[3], generate_tweak(b[1] % Region, try_box(b[1], b[2]))))
  BY EncodeForm
<1>3. p = MkPtr(0, SizeOf(b, on), 0, b[1] % Region, CtOf(b, on))
  BY <1>1, <1>2 DEF ccptrenc_emulation, Boxed, SizeOf, CtOf
<1>4. Pointer(b, on, a, flip) = [Moved(p, a) EXCEPT !.s = Sign(flip)]
  BY DEF Pointer, Sign
<1> HIDE DEF p, md
<1>5. Moved(p, a) = MkPtr(0, SizeOf(b, on), 0, a % Region, CtOf(b, on))
  BY <1>3, MovedForm
<1>6. \A x, z, c, l : [MkPtr(0, z, 0, l, c) EXCEPT !.s = x] = MkPtr(x, z, 0, l, c)
  BY DEF MkPtr
<1> QED BY <1>4, <1>5, <1>6

\* Moving a pointer of the program gives the pointer to the other address.
LEMMA PointerMoved ==
  ASSUME NEW b, NEW on \in BOOLEAN, NEW a, NEW x, NEW flip \in BOOLEAN
  PROVE  Moved(Pointer(b, on, a, flip), x) = Pointer(b, on, x, flip)
<1>1. Pointer(b, on, a, flip) = MkPtr(Sign(flip), SizeOf(b, on), 0, a % Region, CtOf(b, on))
  BY PointerForm
<1>2. Pointer(b, on, x, flip) = MkPtr(Sign(flip), SizeOf(b, on), 0, x % Region, CtOf(b, on))
  BY PointerForm
<1> QED BY <1>1, <1>2, MovedForm

LEMMA BoxBits ==
  ASSUME NEW b \in Boxes
  PROVE  /\ DifferingBits(b[1], b[2]) \in 0 .. AddrBits
         /\ try_box(b[1], b[2]) = DifferingBits(b[1], b[2]) + 1
         /\ try_box(b[1], b[2]) - 1 = DifferingBits(b[1], b[2])
<1>1. DifferingBits(b[1], b[2]) \in 0 .. AddrBits
  BY BoxType, DifferingBitsLeast
<1> QED BY <1>1, PtrEncodingAssumption DEF try_box

\* What the pipeline sees of a pointer of the program.
LEMMA PointerFacts ==
  ASSUME NEW b \in Boxes, NEW on \in BOOLEAN, NEW a \in Addr, NEW flip \in BOOLEAN,
         NEW p, p = Pointer(b, on, a, flip)
  PROVE  /\ p.low = a % Region
         /\ is_encoded_cc_ptr(p) <=> Boxed(b, on)
         /\ is_encoded_cc_ptr(p) =>
              /\ ~is_canonical(p)
              /\ is_canonical(decode_pointer(p)) <=> ~flip
              /\ AddrOf(decode_pointer(p)) \in Nat
<1>1. p = MkPtr(Sign(flip), SizeOf(b, on), 0, a % Region, CtOf(b, on))
  BY PointerForm
<1>2. p.low = a % Region /\ p.s = Sign(flip) /\ p.s_prime = 0 /\ p.size = SizeOf(b, on)
  BY <1>1, PtrFields
<1>3. is_encoded_cc_ptr(p) <=> Boxed(b, on)
  BY <1>2, BoxBits DEF is_encoded_cc_ptr, SizeOf, Boxed
<1>4. ASSUME is_encoded_cc_ptr(p)
      PROVE  /\ ~is_canonical(p)
             /\ is_canonical(decode_pointer(p)) <=> ~flip
             /\ AddrOf(decode_pointer(p)) \in Nat
  <2>1. ~is_canonical(p)
    BY <1>2, <1>4 DEF is_canonical, is_encoded_cc_ptr, Extended, Sign
  <2>2. \E up \in Nat : decode_pointer(p) = MkPtr(Sign(flip), 0, 0, a % Region, MkCt(up, 0, <<>>))
    <3>1. b[1] \div Region \in Nat /\ Noise \in Nat /\ 0 - 0 = 0
      <4>1. b[1] \in Nat
        BY BoxType
      <4> QED BY <4>1, RegionType, DivMod, PtrEncodingAssumption
    <3>2. CtOf(b, on) = MkCt(b[1] \div Region, b[3],
                             generate_tweak(b[1] % Region, try_box(b[1], b[2])))
      BY <1>3, <1>4 DEF CtOf
    <3> QED BY <1>1, <3>1, <3>2, DecodeForm
  <2>3. PICK up \in Nat : decode_pointer(p) = MkPtr(Sign(flip), 0, 0, a % Region, MkCt(up, 0, <<>>))
    BY <2>2
  <2>4. /\ decode_pointer(p).s = Sign(flip) /\ decode_pointer(p).s_prime = 0
        /\ decode_pointer(p).size = 0 /\ decode_pointer(p).low = a % Region
        /\ decode_pointer(p).ct.version = 0 /\ decode_pointer(p).ct.up = up
    BY <2>3, PtrFields, CtFields
  <2>5. is_canonical(decode_pointer(p)) <=> ~flip
    <3>1. CASE flip
      <4>1. decode_pointer(p).s = 1
        BY <2>4, <3>1 DEF Sign
      <4>2. ~is_canonical(decode_pointer(p))
        BY <2>4, <4>1 DEF is_canonical
      <4> QED BY <3>1, <4>2
    <3>2. CASE ~flip
      <4>1. decode_pointer(p).s = 0 /\ 0 - 0 = 0
        BY <2>4, <3>2 DEF Sign
      <4>2. is_canonical(decode_pointer(p))
        BY <2>4, <4>1 DEF is_canonical, Extended
      <4> QED BY <3>2, <4>2
    <3> QED BY <3>1, <3>2
  <2>6. AddrOf(decode_pointer(p)) \in Nat
    <3>1. a % Region \in Nat
      BY AddrType, RegionType, DivMod
    <3>2. up * Region \in Nat
      BY RegionType
    <3> QED BY <2>4, <3>1, <3>2 DEF AddrOf
  <2> QED BY <2>1, <2>5, <2>6
<1> QED BY <1>2, <1>3, <1>4

-----------------------------------------------------------------------------
(***************************************************************************)
(* Slots: a CA decodes to the address it was moved to exactly as long as   *)
(* that stays in the slot the CA was made for.                             *)
(***************************************************************************)
SameSlot(a, x, k) == a \div 2^k = x \div 2^k

LEMMA SlotInRegion ==
  ASSUME NEW k \in 0 .. PLAINTEXT_SIZE, NEW a \in Nat, NEW x \in Nat, SameSlot(a, x, k)
  PROVE  a \div Region = x \div Region
<1> DEFINE d == 2^k
<1>1. a \div d = x \div d
  BY DEF SameSlot
<1>2. d \in Nat \ {0} /\ \E q \in Nat \ {0} : Region = d * q
  BY SlotDivides
<1> HIDE DEF d
<1>3. PICK q \in Nat \ {0} : Region = d * q
  BY <1>2
<1>4. Parts(a, d, q, Region) /\ Parts(x, d, q, Region)
  BY <1>2, <1>3, RegionType, Nested
<1> QED BY <1>1, <1>4 DEF Parts

LEMMA TweakIsSlot ==
  ASSUME NEW k \in 0 .. PLAINTEXT_SIZE, NEW a \in Nat, NEW x \in Nat,
         a \div Region = x \div Region
  PROVE  generate_tweak(a % Region, k + 1) = generate_tweak(x % Region, k + 1)
           <=> SameSlot(a, x, k)
<1> DEFINE d == 2^k
<1>1. d \in Nat \ {0} /\ \E q \in Nat \ {0} : Region = d * q
  BY SlotDivides
<1>3. \A l : generate_tweak(l, k + 1) = <<l - (l % d), k + 1>>
  <2>1. (k + 1) - 1 = k
    BY PtrEncodingAssumption
  <2> QED BY <2>1 DEF generate_tweak, ca_get_tweak_bits, decode_size
<1> HIDE DEF d
<1>2. PICK q \in Nat \ {0} : Region = d * q
  BY <1>1
<1> DEFINE u(y) == (y % Region) \div d
<1>4. \A y \in Nat : /\ (y % Region) - ((y % Region) % d) = d * u(y)
                      /\ y \div d = q * (y \div Region) + u(y)
                      /\ u(y) \in Nat /\ q * (y \div Region) \in Nat
  <2> TAKE y \in Nat
  <2>1. Parts(y, d, q, Region)
    BY <1>1, <1>2, RegionType, Nested
  <2>2. q * (y \div Region) \in Nat
    BY <1>2, <2>1 DEF Parts
  <2> QED BY <2>1, <2>2 DEF Parts
<1> HIDE DEF u
<1>5. a \div d = x \div d <=> u(a) = u(x)
  <2> DEFINE m == q * (a \div Region)
  <2>1. a \div d = m + u(a) /\ x \div d = m + u(x) /\ m \in Nat /\ u(a) \in Nat /\ u(x) \in Nat
    BY <1>4
  <2> HIDE DEF m
  <2> QED BY <2>1
<1>6. d * u(a) = d * u(x) <=> u(a) = u(x)
  <2>1. \A m, n \in Nat : d * m = d * n <=> m = n
    BY <1>1
  <2> QED BY <1>4, <2>1
<1>7. generate_tweak(a % Region, k + 1) = generate_tweak(x % Region, k + 1)
        <=> d * u(a) = d * u(x)
  <2>1. generate_tweak(a % Region, k + 1) = <<d * u(a), k + 1>>
    BY <1>3, <1>4
  <2>2. generate_tweak(x % Region, k + 1) = <<d * u(x), k + 1>>
    BY <1>3, <1>4
  <2> QED BY <2>1, <2>2
<1> QED BY <1>5, <1>6, <1>7 DEF d, SameSlot

\* Between two numbers of one block all are of that block.
LEMMA DivBetween ==
  ASSUME NEW d \in Nat \ {0}, NEW a \in Nat, NEW l \in Nat, NEW x \in a .. l,
         a \div d = l \div d
  PROVE  x \div d = a \div d
<1> DEFINE A == a \div d
<1> DEFINE X == x \div d
<1>1. a = d * A + (a % d) /\ a % d \in 0 .. d - 1 /\ A \in Nat
  BY DivMod
<1>2. l = d * A + (l % d) /\ l % d \in 0 .. d - 1
  BY DivMod
<1>3. x \in Nat /\ x = d * X + (x % d) /\ x % d \in 0 .. d - 1 /\ X \in Nat
  <2>1. x \in Nat
    OBVIOUS
  <2> QED BY <2>1, DivMod
<1> HIDE DEF A, X
<1>4. x - d * A \in 0 .. d - 1
  BY <1>1, <1>2, <1>3
<1>5. x = d * A + (x - d * A)
  BY <1>1, <1>3
<1>6. X = A
  BY <1>1, <1>4, <1>5, DivUnique DEF X
<1> QED BY <1>6 DEF A, X

\* The CA made for a with a slot of 2^k bytes, moved to x.
MadeFor(a, k, bit, v, x) ==
  MkPtr(bit, k + 1, bit, x % Region,
        MkCt(a \div Region, v, generate_tweak(a % Region, k + 1)))

LEMMA MadeForDecodes ==
  ASSUME NEW a, NEW k, NEW bit, NEW v, NEW x
  PROVE  decode_pointer(MadeFor(a, k, bit, v, x))
           = MkPtr(bit, 0 - bit, bit, x % Region,
                   MkCt(IF generate_tweak(a % Region, k + 1) = generate_tweak(x % Region, k + 1)
                        THEN a \div Region ELSE Noise, 0 - bit, <<>>))
BY DecodeForm DEF MadeFor

LEMMA DecodedInSlot ==
  ASSUME NEW k \in 0 .. PLAINTEXT_SIZE, NEW a \in Nat, NEW x \in Nat, NEW bit, NEW v,
         SameSlot(a, x, k)
  PROVE  decode_pointer(MadeFor(a, k, bit, v, x)) = Linear(x, bit)
<1>1. a \div Region = x \div Region
  BY SlotInRegion
<1>2. generate_tweak(a % Region, k + 1) = generate_tweak(x % Region, k + 1)
  BY <1>1, TweakIsSlot
<1> QED BY <1>1, <1>2, MadeForDecodes, LinearForm

LEMMA DecodedOutside ==
  ASSUME NEW k \in 0 .. PLAINTEXT_SIZE, NEW a \in Nat, NEW x \in Nat, NEW bit, NEW v,
         a \div Region = x \div Region, ~SameSlot(a, x, k)
  PROVE  /\ decode_pointer(MadeFor(a, k, bit, v, x)).ct.up = Noise
         /\ decode_pointer(MadeFor(a, k, bit, v, x)).low = x % Region
<1>1. generate_tweak(a % Region, k + 1) # generate_tweak(x % Region, k + 1)
  BY TweakIsSlot
<1>2. decode_pointer(MadeFor(a, k, bit, v, x))
        = MkPtr(bit, 0 - bit, bit, x % Region, MkCt(Noise, 0 - bit, <<>>))
  BY <1>1, MadeForDecodes
<1> QED BY <1>2, PtrFields, CtFields

LEMMA AddrOfLinear ==
  ASSUME NEW a \in Nat, NEW bit
  PROVE  AddrOf(Linear(a, bit)) = a
<1>1. Linear(a, bit).ct.up = a \div Region /\ Linear(a, bit).low = a % Region
  BY LinearForm, PtrFields, CtFields
<1>2. a = Region * (a \div Region) + (a % Region) /\ a \div Region \in Nat /\ a % Region \in Nat
  BY RegionType, DivMod
<1> DEFINE A == a \div Region
<1>3. A * Region = Region * A
  BY <1>2, RegionType
<1> QED BY <1>1, <1>2, <1>3 DEF AddrOf

\* The slot of a box is its block.
LEMMA BlockIsSlot ==
  ASSUME NEW b \in Boxes, NEW a \in Addr
  PROVE  a \in Block(b) <=> SameSlot(b[1], a, DifferingBits(b[1], b[2]))
<1> DEFINE last == b[1] + (IF b[2] = 0 THEN 1 ELSE b[2]) - 1
<1> DEFINE holds == {k \in 0 .. AddrBits : b[1] \div 2^k = last \div 2^k}
<1>1. (IF b[2] < 1 THEN 1 ELSE b[2]) = (IF b[2] = 0 THEN 1 ELSE b[2])
  BY BoxType
<1>2. DifferingBits(b[1], b[2]) = Min(holds)
  BY <1>1 DEF DifferingBits
<1>3. Min(holds) = CHOOSE i \in holds : \A j \in holds : i <= j
  BY DEF Min
<1>4. Block(b) = {x \in Addr : x \div 2^Min(holds) = b[1] \div 2^Min(holds)}
  BY <1>3 DEF Block
<1> HIDE DEF holds
<1> QED BY <1>2, <1>4 DEF SameSlot

LEMMA SlotExact ==
  ASSUME NEW b \in Boxes, NEW a \in Addr, NEW p, p = Pointer(b, TRUE, a, FALSE), Boxed(b, TRUE)
  PROVE  AddrOf(decode_pointer(p)) = a <=> a \in Block(b)
<1> DEFINE k == DifferingBits(b[1], b[2])
<1>1. k \in 0 .. PLAINTEXT_SIZE /\ try_box(b[1], b[2]) = k + 1
  BY BoxBits, PtrEncodingAssumption DEF Boxed, cc_can_box
<1>2. b[1] \in Nat /\ a \in Nat /\ b[1] \in Addr
  BY BoxType, AddrType
<1>3. b[1] \div Region = a \div Region /\ a \div Region # Noise
  BY <1>2, PipelineAssumption
<1>4. a \in Block(b) <=> SameSlot(b[1], a, k)
  BY BlockIsSlot
<1> HIDE DEF k
<1>5. p = MadeFor(b[1], k, 0, b[3], a)
  BY <1>1, PointerForm DEF Sign, SizeOf, CtOf, MadeFor
<1>6. CASE SameSlot(b[1], a, k)
  <2>1. decode_pointer(MadeFor(b[1], k, 0, b[3], a)) = Linear(a, 0)
    BY <1>1, <1>2, <1>6, DecodedInSlot
  <2> QED BY <1>2, <1>4, <1>5, <1>6, <2>1, AddrOfLinear
<1>7. CASE ~SameSlot(b[1], a, k)
  <2>1. decode_pointer(p).ct.up = Noise /\ decode_pointer(p).low = a % Region
    <3>1. /\ decode_pointer(MadeFor(b[1], k, 0, b[3], a)).ct.up = Noise
          /\ decode_pointer(MadeFor(b[1], k, 0, b[3], a)).low = a % Region
      BY <1>1, <1>2, <1>3, <1>7, DecodedOutside
    <3> QED BY <1>5, <3>1
  <2>2. Noise \in Nat /\ Region \in Nat \ {0} /\ a % Region \in 0 .. Region - 1
    BY <1>2, RegionType, DivMod, PtrEncodingAssumption
  <2>3. AddrOf(decode_pointer(p)) = Region * Noise + (a % Region)
    <3>1. Noise * Region = Region * Noise
      BY <2>2
    <3> QED BY <2>1, <3>1 DEF AddrOf
  <2> DEFINE low == a % Region
  <2>4. low \in 0 .. Region - 1 /\ AddrOf(decode_pointer(p)) = Region * Noise + low
    BY <2>2, <2>3
  <2> HIDE DEF low
  <2>5. (Region * Noise + low) \div Region = Noise
    BY <2>2, <2>4, DivUnique
  <2> QED BY <1>3, <1>4, <1>7, <2>4, <2>5
<1> QED BY <1>6, <1>7

LEMMA MadeForMoved ==
  ASSUME NEW a, NEW k, NEW bit, NEW v, NEW x, NEW y
  PROVE  Moved(MadeFor(a, k, bit, v, x), y) = MadeFor(a, k, bit, v, y)
BY MovedForm DEF MadeFor

LEMMA MadeForEncoded ==
  ASSUME NEW a, NEW k \in Nat, NEW bit, NEW v, NEW x
  PROVE  is_encoded_cc_ptr(MadeFor(a, k, bit, v, x))
<1>1. MadeFor(a, k, bit, v, x).size = k + 1
  BY PtrFields DEF MadeFor
<1> QED BY <1>1 DEF is_encoded_cc_ptr

\* off is the way from a to the last byte of its slot of d bytes, the slot lying in a region of
\* r = d * q.
LeadsToLast(off, a, d, q, r) ==
  /\ off \in Nat /\ off < r
  /\ (a + off) \div d = a \div d
  /\ (a + off + 1) \div d # a \div d

LEMMA LastOfSlot ==
  ASSUME NEW d \in Nat \ {0}, NEW q \in Nat \ {0}, NEW r \in Nat \ {0}, r = d * q, NEW a \in Nat,
         NEW off, off = d - 1 - ((a % r) % d)
  PROVE  LeadsToLast(off, a, d, q, r)
<1>1. Parts(a, d, q, r)
  BY Nested
<1> DEFINE A == a \div d
<1> DEFINE w == a % d
<1>2. off = d - 1 - w
  BY <1>1 DEF Parts
<1>3. a = d * A + w /\ w \in 0 .. d - 1 /\ A \in Nat
  BY DivMod
<1> HIDE DEF A, w
<1>4. d <= r
  <2>1. d * 1 <= d * q
    OBVIOUS
  <2> QED BY <2>1
<1>5. off \in Nat /\ off < r
  BY <1>2, <1>3, <1>4
<1>6. a + off = d * A + (d - 1) /\ d - 1 \in 0 .. d - 1
  BY <1>2, <1>3
<1>7. (a + off) \div d = A
  BY <1>3, <1>6, DivUnique
<1>8. a + off + 1 = d * (A + 1) + 0 /\ A + 1 \in Nat
  <2>1. d * (A + 1) = d * A + d
    BY <1>3
  <2> QED BY <1>3, <1>6, <2>1
<1>9. (a + off + 1) \div d = A + 1
  <2>1. (d * (A + 1) + 0) \div d = A + 1
    BY <1>8, DivUnique
  <2> QED BY <1>8, <2>1
<1> QED BY <1>3, <1>5, <1>7, <1>9 DEF A, LeadsToLast

\* The CA p of the block of n bytes at a decodes all over the block and to the end of its slot,
\* off bytes on.
RoundTrips(a, n, bit, p, off) ==
  /\ \A x \in a .. a + n - 1 :
       /\ ccptrdec_emulation(Moved(p, x), TRUE) = Linear(x, bit)
       /\ decode_ptr_if_ca(Moved(p, x)) = Linear(x, bit)
       /\ c3c_decode_ptr(Moved(p, x)) = Linear(x, bit)
  /\ c3c_encode_ptr(Linear(a, bit), n, 1) = p
  /\ ccptrdec_emulation(Moved(p, a + off), TRUE) = Linear(a + off, bit)
  /\ (a + off + 1) \div Region = a \div Region
       => ccptrdec_emulation(Moved(p, a + off + 1), TRUE).ct.up = Noise

\* Whatever block can be boxed: its CA decodes to every address in it, and in the whole slot.
LEMMA RoundTrip ==
  ASSUME NEW a \in 0 .. 2^AddrBits - 1, NEW n \in 0 .. Region, NEW bit \in 0 .. 1,
         a + n <= 2^AddrBits, cc_can_box(a, n),
         NEW p, p = cc_isa_encptr_sv(a, bit, n, 1),
         NEW off, off = ca_get_inbound_offset(p, Region)
  PROVE  RoundTrips(a, n, bit, p, off)
<1> DEFINE k == DifferingBits(a, n)
<1> DEFINE last == a + (IF n < 1 THEN 1 ELSE n) - 1
<1>1. a \in Nat /\ n \in Nat /\ a < 2^AddrBits
  BY RegionType, PtrEncodingAssumption
<1>2. k \in 0 .. AddrBits /\ SameSlot(a, last, k) /\ last \in Nat /\ a <= last
  BY <1>1, DifferingBitsLeast DEF SameSlot
<1>3. k \in 0 .. PLAINTEXT_SIZE /\ k \in Nat /\ try_box(a, n) = k + 1
  BY <1>2, PtrEncodingAssumption DEF cc_can_box, try_box
<1>4. last \in Nat /\ \A x \in a .. a + n - 1 : x \in a .. last
  BY <1>1
<1> HIDE DEF k, last
<1>5. p = MadeFor(a, k, bit, 1, a)
  BY <1>3, EncodeForm DEF cc_isa_encptr_sv, MadeFor
<1>6. \A x : /\ Moved(p, x) = MadeFor(a, k, bit, 1, x)
             /\ is_encoded_cc_ptr(Moved(p, x))
  BY <1>3, <1>5, MadeForMoved, MadeForEncoded
<1>7. \A x : /\ ccptrdec_emulation(Moved(p, x), TRUE) = decode_pointer(Moved(p, x))
             /\ decode_ptr_if_ca(Moved(p, x)) = decode_pointer(Moved(p, x))
             /\ c3c_decode_ptr(Moved(p, x)) = decode_pointer(Moved(p, x))
  BY <1>6 DEF ccptrdec_emulation, decode_pointer_if_encoded, decode_ptr_if_ca, c3c_decode_ptr
<1>8. ASSUME NEW x \in Nat, SameSlot(a, x, k) PROVE decode_pointer(Moved(p, x)) = Linear(x, bit)
  <2>1. decode_pointer(MadeFor(a, k, bit, 1, x)) = Linear(x, bit)
    BY <1>1, <1>3, <1>8, DecodedInSlot
  <2> QED BY <1>6, <2>1
<1>9. ASSUME NEW x \in a .. a + n - 1 PROVE x \in Nat /\ SameSlot(a, x, k)
  <2> DEFINE d == 2^k
  <2>1. d \in Nat \ {0} /\ a \div d = last \div d
    BY <1>2, <1>3, SlotDivides DEF SameSlot
  <2>2. x \in a .. last /\ x \in Nat
    BY <1>1, <1>4, <1>9
  <2> HIDE DEF d
  <2>3. x \div d = a \div d
    BY <1>1, <1>4, <2>1, <2>2, DivBetween
  <2> QED BY <2>2, <2>3 DEF d, SameSlot
<1>10. c3c_encode_ptr(Linear(a, bit), n, 1) = p
  <2>1. AddrOf(Linear(a, bit)) = a
    BY <1>1, AddrOfLinear
  <2> QED BY <2>1 DEF c3c_encode_ptr, encode_ptr, cc_isa_encptr_sv
<1>11. /\ off \in Nat /\ SameSlot(a, a + off, k) /\ ~SameSlot(a, a + off + 1, k)
  <2> DEFINE d == 2^k
  <2>1. d \in Nat \ {0} /\ \E q \in Nat \ {0} : Region = d * q
    BY <1>3, SlotDivides
  <2>2. decode_size(p.size) = d /\ p.low = a % Region
    <3>1. p.size = k + 1 /\ p.low = a % Region /\ (k + 1) - 1 = k
      BY <1>3, <1>5, PtrFields DEF MadeFor
    <3> QED BY <3>1 DEF decode_size
  <2> DEFINE max == d - 1 - ((a % Region) % d)
  <2>3. off = IF Region < max THEN Region ELSE max
    BY <2>2 DEF ca_get_inbound_offset
  <2>4. SameSlot(a, a + off, k) <=> a \div d = (a + off) \div d
    BY DEF SameSlot
  <2>5. SameSlot(a, a + off + 1, k) <=> a \div d = (a + off + 1) \div d
    BY DEF SameSlot
  <2> HIDE DEF d
  <2>6. PICK q \in Nat \ {0} : Region = d * q
    BY <2>1
  <2>7. max = d - 1 - ((a % Region) % d)
    OBVIOUS
  <2> HIDE DEF max
  <2>8. LeadsToLast(max, a, d, q, Region)
    BY <1>1, <2>1, <2>6, <2>7, RegionType, LastOfSlot
  <2>9. off = max
    BY <2>3, <2>8, RegionType DEF LeadsToLast
  <2> QED BY <2>4, <2>5, <2>8, <2>9 DEF LeadsToLast
<1>12. ASSUME (a + off + 1) \div Region = a \div Region
       PROVE  decode_pointer(Moved(p, a + off + 1)).ct.up = Noise
  <2>1. a + off + 1 \in Nat
    BY <1>1, <1>11
  <2>2. decode_pointer(MadeFor(a, k, bit, 1, a + off + 1)).ct.up = Noise
    BY <1>1, <1>3, <1>11, <1>12, <2>1, DecodedOutside
  <2> QED BY <1>6, <2>2
<1>13. a + off \in Nat
  BY <1>1, <1>11
<1> QED BY <1>7, <1>8, <1>9, <1>10, <1>11, <1>12, <1>13 DEF RoundTrips

-----------------------------------------------------------------------------
(***************************************************************************)
(* The inductive invariant.                                                *)
(***************************************************************************)
\* The current instruction uses a CA.
ByCa == is_encoded_cc_ptr(instr.ptr)

StackLinear == save_and_decode_if_encoded(StackPtr)

\* The types that the argument needs beside TypeOK.
State ==
  /\ \E p \in Pointers \cup {Linear(0, 0)}, k \in Nat : la_encoded = [p EXCEPT !.low = k]
  /\ la_decoded \in Nat /\ la_mismatch_count \in 0 .. MaxWarnings
  /\ crossing_first \in BOOLEAN /\ crossing_second \in BOOLEAN /\ is_encoded_pointer \in BOOLEAN
  /\ checks \in BOOLEAN /\ cc_enabled \in BOOLEAN /\ hardening \in BOOLEAN
  /\ misread \in BOOLEAN /\ cross_failed \in BOOLEAN
  /\ crossing_lost \in BOOLEAN /\ rsp_lost \in BOOLEAN
  /\ mem \in [Addr -> SUBSET Pointers]
  /\ phase \in {"idle", "addr", "data", "addr2", "data2"}

\* An instruction accesses one or two bytes through a pointer of the program to the first of
\* them; a second transaction is under way only if they are on two pages.
Access ==
  phase # "idle" =>
    /\ instr.op \in {"load", "store"} /\ instr.size \in 1 .. 2 /\ instr.fx \in BOOLEAN
    /\ instr.at \in Addr /\ instr.at + instr.size - 1 \in Addr
    /\ \E b \in Boxes, on, flip \in BOOLEAN :
         /\ instr.ptr = Pointer(b, on, instr.at, flip)
         /\ phase \in {"data", "addr2", "data2"} /\ ByCa => ~flip
    /\ phase \in {"addr2", "data2"} => Crosses

\* What address_before and the first chunk leave for the data callback to find.
Handover ==
  /\ phase = "data" =>
       IF ByCa
       THEN /\ is_encoded_pointer /\ la_encoded = instr.ptr
            /\ la_decoded = AddrOf(decode_pointer(instr.ptr))
            /\ Crosses => crossing_first
       ELSE ~is_encoded_pointer /\ ~crossing_second
  /\ phase \in {"addr2", "data2"} =>
       IF ByCa
       THEN /\ crossing_second /\ la_encoded = Moved(instr.ptr, instr.at + 1)
            /\ la_decoded = instr.at + 1
       ELSE ~crossing_second
  /\ phase = "data2" => (is_encoded_pointer <=> ByCa)

\* Without an access cut short, the crossing flags belong to the current instruction.
Crossing ==
  ~crossing_lost =>
    /\ phase \in {"idle", "addr"} => ~crossing_first /\ ~crossing_second
    /\ phase = "data" => ~crossing_second /\ (crossing_first <=> ByCa /\ Crosses)
    /\ phase \in {"addr2", "data2"} => ~crossing_first /\ (crossing_second <=> ByCa)

\* The stack pointer is the program's own, or decoded for the instruction that has saved it.
Stack ==
  /\ rsp \in {StackPtr, StackLinear}
  /\ phase # "idle" /\ instr.fx =>
       instr.saved_reg \in {StackPtr, StackLinear} /\ rsp = StackLinear
  /\ ~rsp_lost =>
       IF phase # "idle" /\ instr.fx THEN instr.saved_reg = StackPtr ELSE rsp = StackPtr

IInv ==
  /\ State /\ Access /\ Handover /\ Crossing /\ Stack
  /\ CrossFailNeedsFault
  /\ EncryptedByPointer

-----------------------------------------------------------------------------
(***************************************************************************)
(* The bytes of a transaction.                                             *)
(***************************************************************************)
LEMMA Interval ==
  ASSUME NEW f \in Nat, NEW n \in 1 .. 2
  PROVE  Cardinality(f .. f + n - 1) = n
<1>1. f \in Int /\ f + n - 1 \in Int /\ ~(f > f + n - 1) /\ (f + n - 1) - f + 1 = n
  OBVIOUS
<1> QED BY <1>1, FS_Interval

\* Bytes are the n bytes from f on.
Chunk(f, n) ==
  /\ Bytes = f .. f + n - 1 /\ Bytes \subseteq Addr
  /\ First = f /\ Cardinality(Bytes) = n

LEMMA IsChunk ==
  ASSUME NEW f \in Nat, NEW n \in 1 .. 2, Bytes = f .. f + n - 1, Bytes \subseteq Addr
  PROVE  Chunk(f, n)
<1>1. First = f
  <2>1. f \in Bytes /\ \A c \in Bytes : f <= c
    OBVIOUS
  <2>2. \A c \in Bytes : (\A e \in Bytes : c <= e) => c = f
    BY <2>1
  <2> HIDE DEF Bytes
  <2> QED BY <2>1, <2>2 DEF First
<1> QED BY <1>1, Interval DEF Chunk

LEMMA FirstChunk ==
  ASSUME Access, phase \in {"addr", "data"}
  PROVE  /\ Chunk(instr.at, IF Crosses THEN 1 ELSE instr.size)
         /\ (IF Crosses THEN 1 ELSE instr.size) \in 1 .. 2
<1>1. instr.at \in Nat /\ instr.at \in Addr /\ instr.size \in 1 .. 2 /\ instr.at + instr.size - 1 \in Addr
  BY AddrType DEF Access
<1>2. Bytes = {a \in Span : Page(a) = Page(instr.at)}
  BY DEF Bytes
<1>3. CASE instr.size = 1
  <2>1. Span = {instr.at} /\ instr.at + instr.size - 1 = instr.at
    BY <1>1, <1>3 DEF Span
  <2>2. ~Crosses
    BY <2>1 DEF Crosses
  <2>3. Bytes = instr.at .. instr.at + 1 - 1 /\ Bytes \subseteq Addr
    BY <1>1, <1>2, <2>1
  <2> QED BY <1>1, <1>3, <2>2, <2>3, IsChunk
<1>4. CASE instr.size = 2
  <2>1. Span = {instr.at, instr.at + 1} /\ instr.at + instr.size - 1 = instr.at + 1
    BY <1>1, <1>4 DEF Span
  <2>2. CASE Crosses
    <3>1. Page(instr.at) # Page(instr.at + 1)
      BY <2>1, <2>2 DEF Crosses
    <3>2. Bytes = {instr.at}
      BY <1>2, <2>1, <3>1
    <3>3. Bytes = instr.at .. instr.at + 1 - 1 /\ Bytes \subseteq Addr
      BY <1>1, <3>2
    <3> QED BY <1>1, <2>2, <3>3, IsChunk
  <2>3. CASE ~Crosses
    <3>1. Page(instr.at) = Page(instr.at + 1)
      BY <2>1, <2>3 DEF Crosses
    <3>2. Bytes = {instr.at, instr.at + 1}
      BY <1>2, <2>1, <3>1
    <3>3. Bytes = instr.at .. instr.at + 2 - 1 /\ Bytes \subseteq Addr
      BY <1>1, <1>4, <3>2
    <3> QED BY <1>1, <1>4, <2>3, <3>3, IsChunk
  <2> QED BY <2>2, <2>3
<1> QED BY <1>1, <1>3, <1>4

LEMMA SecondChunk ==
  ASSUME Access, phase \in {"addr2", "data2"}
  PROVE  /\ Chunk(instr.at + 1, 1)
         /\ instr.at \in Addr /\ instr.at + 1 \in Addr /\ instr.size = 2 /\ Crosses
<1>1. instr.at \in Nat /\ instr.at \in Addr /\ instr.size \in 1 .. 2 /\ instr.at + instr.size - 1 \in Addr
  BY AddrType DEF Access
<1>2. Crosses /\ Page(instr.at) # Page(instr.at + instr.size - 1)
  BY DEF Access, Crosses
<1>3. instr.size = 2
  <2>1. instr.at + 1 - 1 = instr.at
    BY <1>1
  <2>2. instr.size # 1
    BY <1>2, <2>1
  <2> QED BY <1>1, <2>2
<1>4. Span = {instr.at, instr.at + 1} /\ instr.at + instr.size - 1 = instr.at + 1
  BY <1>1, <1>3 DEF Span
<1>5. Bytes = {instr.at + 1}
  BY <1>2, <1>4 DEF Bytes
<1>6. Bytes = instr.at + 1 .. (instr.at + 1) + 1 - 1 /\ Bytes \subseteq Addr /\ instr.at + 1 \in Nat
  BY <1>1, <1>4, <1>5
<1> QED BY <1>1, <1>2, <1>3, <1>4, <1>6, IsChunk

\* The address space is in one region, so the byte after a byte has the next low bits.
LEMMA LowAfter ==
  ASSUME NEW a \in Addr, a + 1 \in Addr
  PROVE  (a + 1) % Region = (a % Region) + 1
<1>1. a \in Nat /\ a \div Region = (a + 1) \div Region
  BY AddrType, PipelineAssumption
<1> QED BY <1>1, RegionType, NextLow

-----------------------------------------------------------------------------
(***************************************************************************)
(* The stack pointer.                                                      *)
(***************************************************************************)
LEMMA StackFacts ==
  /\ StackLinear = Pointer(StackBox, FALSE, StackBox[1], FALSE)
  /\ ~is_encoded_cc_ptr(StackLinear)
  /\ AddrOf(StackPtr) = StackBox[1] /\ AddrOf(StackLinear) = StackBox[1]
  /\ ~is_encoded_cc_ptr(StackPtr) => StackLinear = StackPtr
<1> DEFINE b == StackBox
<1> DEFINE P == Pointer(b, TRUE, b[1], FALSE)
<1> DEFINE L == Pointer(b, FALSE, b[1], FALSE)
<1>1. b \in Boxes /\ b[1] \in Addr /\ b[1] \in Nat
  BY BoxType, PipelineAssumption
<1>2. StackPtr = P
  BY DEF StackPtr
<1> HIDE DEF b
<1>3. L = MkPtr(0, 0, 0, b[1] % Region, MkCt(b[1] \div Region, 0, <<>>))
  BY PointerForm DEF Sign, SizeOf, CtOf, Boxed
<1>4. L = Linear(b[1], 0)
  <2>1. 0 - 0 = 0
    OBVIOUS
  <2> QED BY <1>3, <2>1, LinearForm
<1>5. ~is_encoded_cc_ptr(L)
  <2> HIDE DEF L
  <2>1. L.size = 0
    BY <1>3, PtrFields
  <2> QED BY <2>1 DEF is_encoded_cc_ptr
<1>6. AddrOf(L) = b[1]
  BY <1>1, <1>4, AddrOfLinear
<1>7. is_encoded_cc_ptr(P) <=> Boxed(b, TRUE)
  BY <1>1, PointerFacts
<1>8. AddrOf(P) = b[1]
  <2>1. P = MkPtr(0, SizeOf(b, TRUE), 0, b[1] % Region, CtOf(b, TRUE))
    BY PointerForm DEF Sign
  <2>2. CtOf(b, TRUE).up = b[1] \div Region
    <3> DEFINE c == CtOf(b, TRUE)
    <3>1. CASE Boxed(b, TRUE)
      <4> DEFINE t == generate_tweak(b[1] % Region, try_box(b[1], b[2]))
      <4>1. c = MkCt(b[1] \div Region, b[3], t)
        BY <3>1 DEF CtOf
      <4> HIDE DEF c, t
      <4>2. c.up = b[1] \div Region
        BY <4>1 DEF MkCt
      <4> QED BY <4>2 DEF c
    <3>2. CASE ~Boxed(b, TRUE)
      <4>1. c = MkCt(b[1] \div Region, 0, <<>>)
        BY <3>2 DEF CtOf
      <4> HIDE DEF c
      <4>2. c.up = b[1] \div Region
        BY <4>1 DEF MkCt
      <4> QED BY <4>2 DEF c
    <3> QED BY <3>1, <3>2
  <2> HIDE DEF P, L
  <2>3. P.low = b[1] % Region /\ P.ct = CtOf(b, TRUE)
    BY <2>1 DEF MkPtr
  <2>4. L.low = b[1] % Region /\ L.ct.up = b[1] \div Region
    BY <1>3, PtrFields, CtFields
  <2> QED BY <1>6, <2>2, <2>3, <2>4 DEF AddrOf
<1>9. save_and_decode_if_encoded(P) = L
  <2>1. CASE Boxed(b, TRUE)
    <3> DEFINE k == DifferingBits(b[1], b[2])
    <3>1. k \in 0 .. PLAINTEXT_SIZE /\ try_box(b[1], b[2]) = k + 1
      BY <1>1, <2>1, BoxBits, PtrEncodingAssumption DEF Boxed, cc_can_box
    <3> HIDE DEF k
    <3>2. P = MadeFor(b[1], k, 0, b[3], b[1])
      BY <2>1, <3>1, PointerForm DEF Sign, SizeOf, CtOf, MadeFor
    <3>3. SameSlot(b[1], b[1], k)
      BY DEF SameSlot
    <3>4. decode_pointer(MadeFor(b[1], k, 0, b[3], b[1])) = Linear(b[1], 0)
      BY <1>1, <3>1, <3>3, DecodedInSlot
    <3> QED BY <1>4, <1>7, <2>1, <3>2, <3>4 DEF save_and_decode_if_encoded
  <2>2. CASE ~Boxed(b, TRUE)
    <3>1. P = L
      BY <2>2, PointerForm DEF SizeOf, CtOf, Boxed
    <3> QED BY <1>5, <3>1 DEF save_and_decode_if_encoded
  <2> QED BY <2>1, <2>2
<1>10. ~is_encoded_cc_ptr(P) => L = P
  BY <1>9 DEF save_and_decode_if_encoded
<1> HIDE DEF P, L
<1>11. StackLinear = L
  BY <1>2, <1>9 DEF StackLinear
<1> QED BY <1>2, <1>5, <1>6, <1>8, <1>10, <1>11 DEF b, L

-----------------------------------------------------------------------------
(***************************************************************************)
(* What several actions have in common.                                    *)
(***************************************************************************)
LEMMA EncUnchanged ==
  ASSUME EncryptedByPointer, UNCHANGED <<mem, owner, misread>>
  PROVE  EncryptedByPointer'
BY DEF EncryptedByPointer

\* The pointer of an instruction under way.
LEMMA ThePointer ==
  ASSUME Access, phase # "idle"
  PROVE  \E b \in Boxes, on, flip \in BOOLEAN :
           /\ instr.ptr = Pointer(b, on, instr.at, flip)
           /\ phase \in {"data", "addr2", "data2"} /\ ByCa => ~flip
BY DEF Access

\* An instruction that ends early leaves the invariant, if the crossing flags it leaves behind
\* are accounted for.
LEMMA AbandonSafe ==
  ASSUME IInv, phase # "idle", Abandon, State', CrossFailNeedsFault', EncryptedByPointer',
         ~crossing_lost' => ~crossing_first' /\ ~crossing_second'
  PROVE  IInv'
<1>1. phase' = "idle"
  BY DEF Abandon
<1>2. Access'
  BY <1>1 DEF Access
<1>3. Handover'
  BY <1>1 DEF Handover
<1>4. Crossing'
  BY <1>1 DEF Crossing
<1>5. Stack'
  <2>1. rsp' = rsp /\ rsp_lost' = (rsp_lost \/ (instr.fx /\ is_encoded_cc_ptr(instr.saved_reg)))
    BY DEF Abandon
  <2>2. Stack
    BY DEF IInv
  <2>3. StackPtr' = StackPtr /\ StackLinear' = StackLinear
    BY DEF StackPtr, StackLinear
  <2>4. ASSUME ~rsp_lost' PROVE rsp = StackPtr
    <3>1. ~rsp_lost /\ ~(instr.fx /\ is_encoded_cc_ptr(instr.saved_reg))
      BY <2>1, <2>4
    <3>2. CASE instr.fx
      <4>1. instr.saved_reg = StackPtr /\ rsp = StackLinear
        BY <2>2, <3>1, <3>2 DEF Stack
      <4> QED BY <3>1, <3>2, <4>1, StackFacts
    <3>3. CASE ~instr.fx
      BY <2>2, <3>1, <3>3 DEF Stack
    <3> QED BY <3>2, <3>3
  <2>5. rsp' \in {StackPtr, StackLinear}
    BY <2>1, <2>2 DEF Stack
  <2>6. ~rsp_lost' => rsp' = StackPtr
    BY <2>1, <2>4
  <2> QED BY <1>1, <2>3, <2>5, <2>6 DEF Stack
<1> QED BY <1>2, <1>3, <1>4, <1>5 DEF IInv

LEMMA InitIInv == Init => IInv
<1> SUFFICES ASSUME Init PROVE IInv
  OBVIOUS
<1>1. State
  <2>1. la_encoded = [Linear(0, 0) EXCEPT !.low = 0 % Region]
    BY DEF Init, Linear
  <2>2. 0 % Region \in Nat
    BY RegionType
  <2>3. \E p \in Pointers \cup {Linear(0, 0)}, k \in Nat : la_encoded = [p EXCEPT !.low = k]
    BY <2>1, <2>2
  <2>4. la_mismatch_count \in 0 .. MaxWarnings
    BY PipelineAssumption DEF Init
  <2>5. mem \in [Addr -> SUBSET Pointers]
    BY DEF Init
  <2> QED BY <2>3, <2>4, <2>5 DEF Init, State
<1>2. Access /\ Handover /\ Crossing
  BY DEF Init, Access, Handover, Crossing
<1>3. Stack
  BY DEF Init, Stack
<1>4. CrossFailNeedsFault
  BY DEF Init, CrossFailNeedsFault
<1>5. EncryptedByPointer
  <2>1. ASSUME NEW a \in Addr PROVE ~is_encoded_cc_ptr(owner[a]) /\ mem[a] = {}
    <3>1. owner[a] = Linear(a, 0) /\ mem[a] = {}
      BY DEF Init
    <3>2. Linear(a, 0).size = 0
      <4>1. Linear(a, 0).size = 0 - 0 /\ 0 - 0 = 0
        BY LinearForm, PtrFields
      <4> QED BY <4>1
    <3> QED BY <3>1, <3>2 DEF is_encoded_cc_ptr
  <2> QED BY <2>1 DEF Init, EncryptedByPointer
<1> QED BY <1>1, <1>2, <1>3, <1>4, <1>5 DEF IInv

-----------------------------------------------------------------------------
(***************************************************************************)
(* The actions.                                                            *)
(***************************************************************************)
\* A step that only begins an instruction, or changes neither it nor the pipeline.
LEMMA KeepsState ==
  ASSUME State, UNCHANGED <<base, mem, history>>,
         checks' \in BOOLEAN, cc_enabled' \in BOOLEAN, hardening' \in BOOLEAN,
         phase' \in {"idle", "addr", "data", "addr2", "data2"}
  PROVE  State'
<1>1. Pointers' = Pointers
  BY DEF Pointers
<1> QED BY <1>1 DEF State, base, history

LEMMA StartIInv ==
  ASSUME IInv,
         NEW op \in {"load", "store"}, NEW b \in Boxes, NEW a \in Starts, NEW n \in 1 .. 2,
         NEW on \in BOOLEAN, NEW flip \in BOOLEAN, Start(op, b, on, a, n, flip)
  PROVE  IInv'
<1>1. phase = "idle" /\ phase' = "addr" /\ a \in Addr /\ a + n - 1 \in Addr
  BY PipelineAssumption DEF Start
<1>2. /\ instr'.op = op /\ instr'.size = n /\ instr'.fx = FALSE
      /\ instr'.at = a /\ instr'.ptr = Pointer(b, on, a, flip)
  BY DEF Start, Op
<1>3. UNCHANGED <<base, config, mem, rsp, history>>
  BY DEF Start
<1>4. State'
  <2>1. State
    BY DEF IInv
  <2>2. checks' \in BOOLEAN /\ cc_enabled' \in BOOLEAN /\ hardening' \in BOOLEAN
    BY <1>3, <2>1 DEF config, State
  <2> QED BY <1>1, <1>3, <2>1, <2>2, KeepsState
<1>5. Access'
  <2>1. \E c \in Boxes, on2, flip2 \in BOOLEAN :
          /\ instr'.ptr = Pointer(c, on2, instr'.at, flip2)
          /\ phase' \in {"data", "addr2", "data2"} /\ ByCa' => ~flip2
    BY <1>1, <1>2
  <2> QED BY <1>1, <1>2, <2>1 DEF Access
<1>6. Handover'
  BY <1>1 DEF Handover
<1>7. Crossing'
  BY <1>1, <1>3 DEF IInv, Crossing, base, history
<1>8. Stack'
  <2>1. rsp \in {StackPtr, StackLinear} /\ (~rsp_lost => rsp = StackPtr)
    BY <1>1 DEF IInv, Stack
  <2>2. StackPtr' = StackPtr /\ StackLinear' = StackLinear /\ rsp' = rsp /\ rsp_lost' = rsp_lost
    BY <1>3 DEF StackPtr, StackLinear, history
  <2> QED BY <1>2, <2>1, <2>2 DEF Stack
<1>9. CrossFailNeedsFault' /\ EncryptedByPointer'
  <2>1. EncryptedByPointer'
    BY <1>3, EncUnchanged DEF IInv, history
  <2> QED BY <1>3, <2>1 DEF IInv, CrossFailNeedsFault, history
<1> QED BY <1>4, <1>5, <1>6, <1>7, <1>8, <1>9 DEF IInv

LEMMA StartFxIInv ==
  ASSUME IInv, NEW op \in {"load", "store"}, StartFx(op)
  PROVE  IInv'
<1> DEFINE p == save_and_decode_if_encoded(rsp)
<1>1. phase = "idle" /\ phase' = "addr" /\ rsp' = p
  BY DEF StartFx
<1>2. rsp \in {StackPtr, StackLinear} /\ (~rsp_lost => rsp = StackPtr)
  BY <1>1 DEF IInv, Stack
<1>3. p = StackLinear /\ AddrOf(rsp) = StackBox[1]
  <2>1. save_and_decode_if_encoded(StackLinear) = StackLinear
    BY StackFacts DEF save_and_decode_if_encoded
  <2>2. save_and_decode_if_encoded(StackPtr) = StackLinear
    BY DEF StackLinear
  <2> QED BY <1>2, <2>1, <2>2, StackFacts
<1>4. instr' = [Op(op, p, AddrOf(rsp), 1) EXCEPT !.fx = TRUE, !.saved_reg = rsp]
  BY DEF StartFx
<1> HIDE DEF p
<1>5. /\ instr'.op = op /\ instr'.size = 1 /\ instr'.fx = TRUE
      /\ instr'.at = StackBox[1] /\ instr'.ptr = StackLinear /\ instr'.saved_reg = rsp
  BY <1>3, <1>4 DEF Op
<1>6. UNCHANGED <<base, config, mem, history>>
  BY DEF StartFx
<1>7. State'
  <2>1. State
    BY DEF IInv
  <2>2. checks' \in BOOLEAN /\ cc_enabled' \in BOOLEAN /\ hardening' \in BOOLEAN
    BY <1>6, <2>1 DEF config, State
  <2> QED BY <1>1, <1>6, <2>1, <2>2, KeepsState
<1>8. Access'
  <2>1. StackBox \in Boxes /\ StackBox[1] \in Addr /\ StackBox[1] + 1 - 1 = StackBox[1]
    BY BoxType, PipelineAssumption
  <2>2. instr'.ptr = Pointer(StackBox, FALSE, instr'.at, FALSE)
    BY <1>5, StackFacts
  <2>3. \E c \in Boxes, on2, flip2 \in BOOLEAN :
          /\ instr'.ptr = Pointer(c, on2, instr'.at, flip2)
          /\ phase' \in {"data", "addr2", "data2"} /\ ByCa' => ~flip2
    BY <1>1, <2>1, <2>2
  <2>4. instr'.at \in Addr /\ instr'.at + instr'.size - 1 \in Addr
    BY <1>5, <2>1
  <2>5. instr'.op \in {"load", "store"} /\ instr'.size \in 1 .. 2
    BY <1>5
  <2>6. instr'.fx \in BOOLEAN
    BY <1>5, Zenon
  <2> QED BY <1>1, <2>3, <2>4, <2>5, <2>6 DEF Access
<1>9. Handover'
  BY <1>1 DEF Handover
<1>10. Crossing'
  BY <1>1, <1>6 DEF IInv, Crossing, base, history
<1>11. Stack'
  <2>1. StackPtr' = StackPtr /\ StackLinear' = StackLinear /\ rsp_lost' = rsp_lost
    BY <1>6 DEF StackPtr, StackLinear, history
  <2> QED BY <1>1, <1>2, <1>3, <1>5, <2>1 DEF Stack
<1>12. CrossFailNeedsFault' /\ EncryptedByPointer'
  <2>1. EncryptedByPointer'
    BY <1>6, EncUnchanged DEF IInv, history
  <2> QED BY <1>6, <2>1 DEF IInv, CrossFailNeedsFault, history
<1> QED BY <1>7, <1>8, <1>9, <1>10, <1>11, <1>12 DEF IInv

LEMMA ConfigIInv ==
  ASSUME IInv, NEW val \in BOOLEAN, LoadContext(val) \/ SetStackHardening(val)
  PROVE  IInv'
<1>1. phase = "idle" /\ phase' = "idle"
  BY DEF LoadContext, SetStackHardening
<1>2. UNCHANGED <<base, mem, instr, rsp, history>>
  BY DEF LoadContext, SetStackHardening
<1>3. State'
  <2>1. State
    BY DEF IInv
  <2>2. checks' \in BOOLEAN /\ cc_enabled' \in BOOLEAN /\ hardening' \in BOOLEAN
    BY <2>1 DEF LoadContext, SetStackHardening, State
  <2>3. UNCHANGED <<base, mem, history>>
    BY <1>2
  <2> QED BY <1>1, <2>1, <2>2, <2>3, KeepsState
<1>4. Access' /\ Handover'
  BY <1>1 DEF Access, Handover
<1>5. Crossing'
  BY <1>1, <1>2 DEF IInv, Crossing, base, history
<1>6. Stack'
  <2>1. rsp \in {StackPtr, StackLinear} /\ (~rsp_lost => rsp = StackPtr)
    BY <1>1 DEF IInv, Stack
  <2>2. StackPtr' = StackPtr /\ StackLinear' = StackLinear /\ rsp' = rsp /\ rsp_lost' = rsp_lost
    BY <1>2 DEF StackPtr, StackLinear, history
  <2> QED BY <1>1, <2>1, <2>2 DEF Stack
<1>7. CrossFailNeedsFault' /\ EncryptedByPointer'
  <2>1. EncryptedByPointer'
    BY <1>2, EncUnchanged DEF IInv, history
  <2> QED BY <1>2, <2>1 DEF IInv, CrossFailNeedsFault, history
<1> QED BY <1>3, <1>4, <1>5, <1>6, <1>7 DEF IInv

LEMMA PageFaultIInv ==
  ASSUME IInv, PageFault
  PROVE  IInv'
<1>1. phase \in {"data", "data2"} /\ Abandon /\ phase' = "idle"
  BY DEF PageFault, Abandon
<1>2. UNCHANGED <<base, config, mem, owner, cross_failed, misread>>
  BY DEF PageFault
<1>3. State'
  <2>1. Pointers' = Pointers /\ crossing_lost' \in BOOLEAN /\ rsp_lost' \in BOOLEAN
    BY <1>1 DEF Pointers, Abandon
  <2> QED BY <1>1, <1>2, <2>1 DEF IInv, State, base, config
<1>4. ~crossing_lost' => ~crossing_first' /\ ~crossing_second'
  <2> SUFFICES ASSUME ~crossing_lost' PROVE ~crossing_first /\ ~crossing_second
    BY <1>2 DEF base
  <2>1. ~crossing_lost /\ ~(Crosses /\ ByCa)
    BY <1>1 DEF Abandon, ByCa
  <2>2. phase = "data2" => Crosses
    BY DEF IInv, Access
  <2> QED BY <1>1, <2>1, <2>2 DEF IInv, Crossing
<1>5. CrossFailNeedsFault'
  BY <1>1, <1>2 DEF IInv, CrossFailNeedsFault, Abandon
<1>6. EncryptedByPointer'
  BY <1>2, EncUnchanged DEF IInv
<1> QED BY <1>1, <1>3, <1>4, <1>5, <1>6, AbandonSafe

\* A pointer of the program with its own sign.
Own(b, on, a) == Pointer(b, on, a, FALSE)

LEMMA InPointers ==
  ASSUME NEW p
  PROVE  p \in Pointers <=> \E b \in Boxes, a \in Addr, on \in BOOLEAN : p = Own(b, on, a)
<1>1. Pointers = {Own(b, on, a) : b \in Boxes, a \in Addr, on \in BOOLEAN}
  BY DEF Pointers, Own
<1> QED BY <1>1

\* Writing the low bits of a pointer of the program leaves the rest of it.
LEMMA LaType ==
  ASSUME State, NEW k \in Nat
  PROVE  \E p \in Pointers \cup {Linear(0, 0)}, l \in Nat :
           [la_encoded EXCEPT !.low = k] = [p EXCEPT !.low = l]
<1>1. PICK p \in Pointers \cup {Linear(0, 0)}, l \in Nat : la_encoded = [p EXCEPT !.low = l]
  BY DEF State
<1>2. [[p EXCEPT !.low = l] EXCEPT !.low = k] = [p EXCEPT !.low = k]
  OBVIOUS
<1> QED BY <1>1, <1>2

LEMMA LaLow ==
  ASSUME State
  PROVE  la_encoded.low \in Nat
<1>1. PICK p \in Pointers \cup {Linear(0, 0)}, l \in Nat : la_encoded = [p EXCEPT !.low = l]
  BY DEF State
<1>2. "low" \in DOMAIN p
  <2>1. \A s, size, sp, low, ct : "low" \in DOMAIN MkPtr(s, size, sp, low, ct)
    BY DEF MkPtr
  <2>2. CASE p = Linear(0, 0)
    BY <2>1, <2>2, LinearForm
  <2>3. CASE p \in Pointers
    <3>1. PICK b \in Boxes, a \in Addr, on \in BOOLEAN : p = Pointer(b, on, a, FALSE)
      BY <2>3, InPointers DEF Own
    <3>2. p = MkPtr(Sign(FALSE), SizeOf(b, on), 0, a % Region, CtOf(b, on))
      BY <3>1, PointerForm
    <3> QED BY <2>1, <3>2
  <2> QED BY <2>2, <2>3
<1>3. [p EXCEPT !.low = l].low = l
  BY <1>2
<1> QED BY <1>1, <1>3

\* The end of a chunk keeps the types of the state.
LEMMA FinishTypes ==
  ASSUME State, NEW la \in Nat, NEW n \in 1 .. 2, modify_data_on_mem_access(la, n)
  PROVE  /\ \E p \in Pointers \cup {Linear(0, 0)}, k \in Nat : la_encoded' = [p EXCEPT !.low = k]
         /\ la_decoded' \in Nat /\ la_mismatch_count' \in 0 .. MaxWarnings
         /\ crossing_first' \in BOOLEAN /\ crossing_second' \in BOOLEAN
         /\ is_encoded_pointer' \in BOOLEAN
<1> USE DEF State
<1>1. CASE Modifies(la)
  <2>1. finish_chunk(la, n)
    BY <1>1 DEF modify_data_on_mem_access
  <2>2. la_encoded.low + n \in Nat /\ la + n \in Nat
    BY LaLow
  <2>3. \E p \in Pointers \cup {Linear(0, 0)}, k \in Nat : la_encoded' = [p EXCEPT !.low = k]
    <3>1. CASE crossing_first
      <4> DEFINE k == la_encoded.low + n
      <4>1. la_encoded' = [la_encoded EXCEPT !.low = k]
        BY <2>1, <3>1 DEF finish_chunk
      <4>2. k \in Nat
        BY <2>2
      <4> HIDE DEF k
      <4>3. \E p \in Pointers \cup {Linear(0, 0)}, l \in Nat :
              [la_encoded EXCEPT !.low = k] = [p EXCEPT !.low = l]
        BY <4>2, LaType
      <4> QED BY <4>1, <4>3
    <3>2. CASE ~crossing_first
      BY <2>1, <3>2 DEF finish_chunk
    <3> QED BY <3>1, <3>2
  <2> QED BY <2>1, <2>2, <2>3 DEF finish_chunk
<1>2. CASE ~Modifies(la) /\ is_encoded_pointer
  <2>1. handle_la_mismatch
    BY <1>2 DEF modify_data_on_mem_access
  <2>2. CASE la_mismatch_count >= MaxWarnings
    <3>1. UNCHANGED base
      BY <2>1, <2>2 DEF handle_la_mismatch
    <3> QED BY <3>1 DEF base
  <2>3. CASE ~(la_mismatch_count >= MaxWarnings)
    <3>1. la_mismatch_count' = la_mismatch_count + 1 /\ UNCHANGED <<la_encoded, la_decoded>>
      BY <2>1, <2>3 DEF handle_la_mismatch
    <3>2. crossing_first' = FALSE /\ crossing_second' = FALSE /\ is_encoded_pointer' = FALSE
      BY <2>1, <2>3 DEF handle_la_mismatch
    <3>3. la_mismatch_count' \in 0 .. MaxWarnings
      BY <2>3, <3>1, PipelineAssumption
    <3> QED BY <3>1, <3>2, <3>3
  <2> QED BY <2>2, <2>3
<1>3. CASE ~Modifies(la) /\ ~is_encoded_pointer
  <2>1. la_decoded' = LaDecoded(la) /\ LaDecoded(la) \in Nat
    BY <1>3 DEF modify_data_on_mem_access, LaDecoded
  <2> QED BY <1>3, <2>1 DEF modify_data_on_mem_access
<1> QED BY <1>1, <1>2, <1>3

LEMMA UnannouncedIInv ==
  ASSUME IInv, NEW a \in Starts, Unannounced(a)
  PROVE  IInv'
<1>1. phase = "idle" /\ phase' = "idle" /\ modify_data_on_mem_access(a, 1) /\ a \in Nat
  BY AddrType, PipelineAssumption DEF Unannounced
<1>2. UNCHANGED <<config, mem, instr, rsp, history>>
  BY DEF Unannounced
<1>3. State'
  <2>1. State /\ Pointers' = Pointers /\ Linear(0, 0)' = Linear(0, 0) /\ 1 \in 1 .. 2
    BY DEF IInv, Pointers
  <2>2. /\ \E p \in Pointers \cup {Linear(0, 0)}, k \in Nat : la_encoded' = [p EXCEPT !.low = k]
        /\ la_decoded' \in Nat /\ la_mismatch_count' \in 0 .. MaxWarnings
        /\ crossing_first' \in BOOLEAN /\ crossing_second' \in BOOLEAN
        /\ is_encoded_pointer' \in BOOLEAN
    BY <1>1, <2>1, FinishTypes
  <2> QED BY <1>1, <1>2, <2>1, <2>2 DEF State, config, history
<1>4. Access' /\ Handover'
  BY <1>1 DEF Access, Handover
<1>5. Crossing'
  <2>1. ~crossing_lost => ~crossing_first /\ ~crossing_second
    BY <1>1 DEF IInv, Crossing
  <2>2. ~crossing_lost => ~crossing_first' /\ ~crossing_second'
    BY <1>1, <2>1 DEF modify_data_on_mem_access, finish_chunk, handle_la_mismatch, base
  <2> QED BY <1>1, <1>2, <2>2 DEF Crossing, history
<1>6. Stack'
  <2>1. rsp \in {StackPtr, StackLinear} /\ (~rsp_lost => rsp = StackPtr)
    BY <1>1 DEF IInv, Stack
  <2>2. StackPtr' = StackPtr /\ StackLinear' = StackLinear /\ rsp' = rsp /\ rsp_lost' = rsp_lost
    BY <1>2 DEF StackPtr, StackLinear, history
  <2> QED BY <1>1, <2>1, <2>2 DEF Stack
<1>7. CrossFailNeedsFault' /\ EncryptedByPointer'
  <2>1. EncryptedByPointer'
    BY <1>2, EncUnchanged DEF IInv, history
  <2> QED BY <1>2, <2>1 DEF IInv, CrossFailNeedsFault, history
<1> QED BY <1>3, <1>4, <1>5, <1>6, <1>7 DEF IInv

\* What the transactions present: the pointer of the instruction, then a linear address.
LEMMA PresentedFacts ==
  ASSUME IInv, phase \in {"addr", "addr2"}
  PROVE  /\ phase = "addr" => Presented = instr.ptr
         /\ phase = "addr2" => ~is_encoded_cc_ptr(Presented) /\ is_canonical(Presented)
<1>1. phase = "addr" => Presented = instr.ptr
  BY DEF Presented
<1>2. ASSUME phase = "addr2" PROVE ~is_encoded_cc_ptr(Presented) /\ is_canonical(Presented)
  <2> DEFINE f == First
  <2> DEFINE p == Presented
  <2>1. p = Linear(f, 0)
    BY <1>2 DEF Presented
  <2> HIDE DEF f, p
  <2>2. p = MkPtr(0, 0, 0, f % Region, MkCt(f \div Region, 0, <<>>)) /\ 0 - 0 = 0
    <3>1. 0 - 0 = 0
      OBVIOUS
    <3> QED BY <2>1, <3>1, LinearForm
  <2>3. p.s = 0 /\ p.s_prime = 0 /\ p.size = 0 /\ p.ct.version = 0
    BY <2>2, PtrFields, CtFields
  <2>4. ~is_encoded_cc_ptr(p) /\ is_canonical(p)
    BY <2>2, <2>3 DEF is_encoded_cc_ptr, is_canonical, Extended
  <2> QED BY <2>4 DEF p
<1> QED BY <1>1, <1>2

\* The transaction goes on to its data.
LEMMA GoOnSafe ==
  ASSUME IInv, phase \in {"addr", "addr2"}, GoOn(IF phase = "addr" THEN "data" ELSE "data2"),
         State', Handover', Crossing', UNCHANGED <<cross_failed, mem, owner, misread>>,
         phase = "addr" /\ ByCa =>
           \E b \in Boxes, on \in BOOLEAN : instr.ptr = Pointer(b, on, instr.at, FALSE)
  PROVE  IInv'
<1>1. UNCHANGED <<instr, rsp, crossing_lost, rsp_lost>>
  BY DEF GoOn
<1>2. phase' = IF phase = "addr" THEN "data" ELSE "data2"
  BY DEF GoOn
<1>3. Access'
  <2>1. ByCa' = ByCa /\ Crosses' = Crosses
    BY <1>1 DEF ByCa, Crosses
  <2>2. Access
    BY DEF IInv
  <2>3. \E b \in Boxes, on, flip \in BOOLEAN :
          instr.ptr = Pointer(b, on, instr.at, flip) /\ (ByCa => ~flip)
    <3>1. CASE phase = "addr" /\ ByCa
      <4>1. PICK b \in Boxes, on \in BOOLEAN : instr.ptr = Pointer(b, on, instr.at, FALSE)
        BY <3>1
      <4>2. FALSE \in BOOLEAN
        OBVIOUS
      <4> QED BY <4>1, <4>2, Zenon
    <3>2. CASE phase = "addr" /\ ~ByCa
      BY <2>2, <3>2, ThePointer
    <3>3. CASE phase = "addr2"
      BY <2>2, <3>3, ThePointer
    <3> QED BY <3>1, <3>2, <3>3
  <2>4. phase = "addr2" => Crosses
    BY <2>2 DEF Access
  <2>5. phase' = "data2" => Crosses
    BY <1>2, <2>4
  <2>6. phase' \in {"data", "data2"} /\ phase # "idle"
    BY <1>2
  <2>7. /\ instr.op \in {"load", "store"} /\ instr.size \in 1 .. 2 /\ instr.fx \in BOOLEAN
        /\ instr.at \in Addr /\ instr.at + instr.size - 1 \in Addr
    BY <2>2, <2>6 DEF Access
  <2> QED BY <1>1, <2>1, <2>3, <2>5, <2>6, <2>7 DEF Access
<1>4. Stack'
  <2>1. StackPtr' = StackPtr /\ StackLinear' = StackLinear
    BY DEF StackPtr, StackLinear
  <2>2. phase # "idle" /\ phase' # "idle"
    BY <1>2
  <2> QED BY <1>1, <2>1, <2>2 DEF IInv, Stack
<1>5. CrossFailNeedsFault'
  BY <1>1 DEF IInv, CrossFailNeedsFault
<1>6. EncryptedByPointer'
  BY EncUnchanged DEF IInv
<1> QED BY <1>3, <1>4, <1>5, <1>6 DEF IInv

LEMMA AddressBeforeIInv ==
  ASSUME IInv, AddressBefore
  PROVE  IInv'
<1> DEFINE p == Presented
<1> DEFINE la == model_decode_pointer(p)
<1>1. phase \in {"addr", "addr2"} /\ phase # "idle"
  BY DEF AddressBefore
<1>2. UNCHANGED <<config, mem, owner, misread>>
  BY DEF AddressBefore
<1>3. EncryptedByPointer'
  BY <1>2, EncUnchanged DEF IInv
<1>4. State /\ Access /\ Handover /\ Crossing /\ CrossFailNeedsFault
  BY DEF IInv
<1>5. Pointers' = Pointers /\ Linear(0, 0)' = Linear(0, 0)
  BY DEF Pointers
<1>6. CrossingInfo = IF ~Crosses THEN "none" ELSE IF phase = "addr" THEN "first" ELSE "second"
  BY DEF CrossingInfo
<1>7. phase = "addr2" => Crosses
  BY <1>4 DEF Access
<1>8. CASE is_encoded_cc_ptr(p)
  <2>1. phase = "addr" /\ p = instr.ptr /\ ByCa
    BY <1>1, <1>8, PresentedFacts DEF ByCa
  <2>2. PICK b \in Boxes, on \in BOOLEAN, flip \in BOOLEAN : p = Pointer(b, on, instr.at, flip)
    BY <1>4, <2>1, ThePointer
  <2>3. instr.at \in Addr
    BY <1>1, <1>4 DEF Access
  <2>4. /\ ~is_canonical(p) /\ (is_canonical(decode_pointer(p)) <=> ~flip)
        /\ AddrOf(decode_pointer(p)) \in Nat
    BY <1>8, <2>2, <2>3, PointerFacts
  <2>5. la = IF cc_enabled THEN decode_pointer(p) ELSE p
    BY DEF model_decode_pointer, is_encoded_sp, base_decode_pointer
  <2>6. /\ address_before_ca(p, la)
        /\ IF is_canonical(la) THEN GoOn(IF phase = "addr" THEN "data" ELSE "data2") ELSE Abandon
        /\ UNCHANGED cross_failed
    BY <1>8 DEF AddressBefore
  <2>7. is_encoded_pointer' = TRUE /\ UNCHANGED <<crossing_second, la_mismatch_count>>
    BY <2>6 DEF address_before_ca
  <2>8. crossing_first' = (crossing_first \/ Crosses)
    BY <1>6, <2>1, <2>6 DEF address_before_ca
  <2> HIDE DEF p, la
  <2>9. CASE is_canonical(la)
    <3>1. GoOn("data") /\ la_decoded' = AddrOf(la) /\ la_encoded' = p
      BY <2>1, <2>6, <2>9 DEF address_before_ca
    <3>2. la = decode_pointer(p) /\ ~flip
      BY <2>4, <2>5, <2>9
    <3>3. phase' = "data" /\ UNCHANGED <<instr, crossing_lost, rsp_lost>>
      BY <3>1 DEF GoOn
    <3>4. p = Pointer(b, on, instr.at, FALSE)
      <4>1. flip = FALSE
        BY <3>2
      <4> QED BY <2>2, <4>1
    <3>5. State'
      <4>1. p \in Pointers
        BY <2>3, <3>4, InPointers DEF Own
      <4>2. p = [p EXCEPT !.low = instr.at % Region]
        <5>1. Moved(p, instr.at) = p
          BY <2>2, PointerMoved
        <5> QED BY <5>1 DEF Moved
      <4>3. instr.at % Region \in Nat
        <5>1. instr.at \in Nat
          BY <2>3, AddrType
        <5> QED BY <5>1, RegionType, DivMod
      <4>4. \E q \in Pointers \cup {Linear(0, 0)}, k \in Nat : la_encoded' = [q EXCEPT !.low = k]
        BY <3>1, <4>1, <4>2, <4>3
      <4>5. la_decoded' \in Nat /\ crossing_first' \in BOOLEAN /\ is_encoded_pointer' \in BOOLEAN
        BY <2>4, <2>7, <2>8, <3>1, <3>2
      <4> QED BY <1>2, <1>4, <1>5, <2>6, <2>7, <3>3, <4>4, <4>5 DEF State, config
    <3>6. ByCa' = ByCa /\ Crosses' = Crosses
      BY <3>3 DEF ByCa, Crosses
    <3>7. Handover'
      BY <2>1, <2>7, <2>8, <3>1, <3>2, <3>3, <3>6 DEF Handover
    <3>8. Crossing'
      BY <1>4, <2>1, <2>7, <2>8, <3>3, <3>6 DEF Crossing
    <3>9. GoOn(IF phase = "addr" THEN "data" ELSE "data2")
      BY <2>6, <2>9
    <3>10. UNCHANGED <<cross_failed, mem, owner, misread>>
      BY <1>2, <2>6
    <3>11. \E c \in Boxes, on2 \in BOOLEAN : instr.ptr = Pointer(c, on2, instr.at, FALSE)
      BY <2>1, <3>4
    <3> QED BY <1>1, <3>5, <3>7, <3>8, <3>9, <3>10, <3>11, GoOnSafe
  <2>10. CASE ~is_canonical(la)
    <3>1. Abandon /\ UNCHANGED <<la_decoded, la_encoded>>
      BY <2>6, <2>10 DEF address_before_ca
    <3>2. /\ crossing_lost' = (crossing_lost \/ Crosses) /\ rsp_lost' \in BOOLEAN
          /\ phase' = "idle"
      BY <2>1, <3>1 DEF Abandon, ByCa
    <3>3. State'
      <4>1. crossing_lost' \in BOOLEAN /\ crossing_first' \in BOOLEAN /\ is_encoded_pointer' \in BOOLEAN
        BY <2>7, <2>8, <3>2
      <4> QED BY <1>2, <1>4, <1>5, <2>6, <2>7, <3>1, <3>2, <4>1 DEF State, config
    <3>4. ~crossing_lost' => ~crossing_first' /\ ~crossing_second'
      BY <1>4, <2>1, <2>7, <2>8, <3>2 DEF Crossing
    <3>5. CrossFailNeedsFault'
      BY <1>4, <2>6, <3>2 DEF CrossFailNeedsFault
    <3> QED BY <1>1, <1>3, <3>1, <3>3, <3>4, <3>5, AbandonSafe
  <2> QED BY <2>9, <2>10
<1>9. CASE ~is_encoded_cc_ptr(p) /\ CrossPageFails
  <2>1. Abandon /\ cross_failed' = TRUE /\ UNCHANGED base
    BY <1>9 DEF AddressBefore
  <2>2. crossing_second /\ CrossingInfo # "second"
    BY <1>9 DEF CrossPageFails
  <2>3. crossing_lost
    BY <1>1, <1>4, <1>6, <1>7, <2>2 DEF Crossing
  <2>4. crossing_lost' = TRUE /\ rsp_lost' \in BOOLEAN /\ phase' = "idle"
    BY <2>1, <2>3 DEF Abandon
  <2>5. State'
    BY <1>2, <1>4, <1>5, <2>1, <2>4 DEF State, config, base
  <2>6. CrossFailNeedsFault' /\ (~crossing_lost' => ~crossing_first' /\ ~crossing_second')
    BY <2>4 DEF CrossFailNeedsFault
  <2> QED BY <1>1, <1>3, <2>1, <2>5, <2>6, AbandonSafe
<1>10. CASE ~is_encoded_cc_ptr(p) /\ ~CrossPageFails
  <2>1. /\ address_before_la
        /\ IF is_canonical(p) THEN GoOn(IF phase = "addr" THEN "data" ELSE "data2") ELSE Abandon
        /\ UNCHANGED cross_failed
    BY <1>10 DEF AddressBefore
  <2>2. /\ is_encoded_pointer' = crossing_second
        /\ UNCHANGED <<la_encoded, la_decoded, crossing_first, crossing_second, la_mismatch_count>>
    BY <2>1 DEF address_before_la
  <2>3. phase = "addr" => ~ByCa /\ ~crossing_second
    BY <1>6, <1>10, PresentedFacts DEF CrossPageFails, ByCa
  <2> HIDE DEF p, la
  <2>4. CASE is_canonical(p)
    <3>1. GoOn(IF phase = "addr" THEN "data" ELSE "data2")
      BY <2>1, <2>4
    <3>2. /\ phase' = (IF phase = "addr" THEN "data" ELSE "data2")
          /\ UNCHANGED <<instr, crossing_lost, rsp_lost>>
      BY <3>1 DEF GoOn
    <3>3. State'
      BY <1>1, <1>2, <1>4, <1>5, <2>1, <2>2, <3>2 DEF State, config
    <3>4. ByCa' = ByCa /\ Crosses' = Crosses
      BY <3>2 DEF ByCa, Crosses
    <3>5. Handover'
      <4>1. CASE phase = "addr"
        BY <2>2, <2>3, <3>2, <3>4, <4>1 DEF Handover
      <4>2. CASE phase = "addr2"
        <5>1. phase' = "data2" /\ instr' = instr
          BY <3>2, <4>2
        <5>2. IF ByCa
              THEN /\ crossing_second /\ la_encoded = Moved(instr.ptr, instr.at + 1)
                   /\ la_decoded = instr.at + 1
              ELSE ~crossing_second
          BY <1>4, <4>2 DEF Handover
        <5> QED BY <2>2, <3>4, <5>1, <5>2 DEF Handover
      <4> QED BY <1>1, <4>1, <4>2
    <3>6. Crossing'
      <4>1. CASE phase = "addr"
        BY <1>4, <2>2, <2>3, <3>2, <3>4, <4>1 DEF Crossing
      <4>2. CASE phase = "addr2"
        BY <1>4, <2>2, <3>2, <3>4, <4>2 DEF Crossing
      <4> QED BY <1>1, <4>1, <4>2
    <3>7. UNCHANGED <<cross_failed, mem, owner, misread>>
      BY <1>2, <2>1
    <3> QED BY <1>1, <2>3, <3>1, <3>3, <3>5, <3>6, <3>7, GoOnSafe
  <2>5. CASE ~is_canonical(p)
    <3>1. Abandon /\ phase = "addr"
      BY <1>1, <2>1, <2>5, PresentedFacts DEF p
    <3>2. /\ (crossing_lost => crossing_lost') /\ crossing_lost' \in BOOLEAN
          /\ rsp_lost' \in BOOLEAN /\ phase' = "idle"
      BY <3>1 DEF Abandon
    <3>3. State'
      BY <1>2, <1>4, <1>5, <2>1, <2>2, <3>2 DEF State, config
    <3>4. ~crossing_lost' => ~crossing_first' /\ ~crossing_second'
      BY <1>4, <2>2, <3>1, <3>2 DEF Crossing
    <3>5. CrossFailNeedsFault'
      BY <1>4, <2>1, <3>2 DEF CrossFailNeedsFault
    <3> QED BY <1>1, <1>3, <3>1, <3>3, <3>4, <3>5, AbandonSafe
  <2> QED BY <2>4, <2>5
<1> QED BY <1>8, <1>9, <1>10

-----------------------------------------------------------------------------
(***************************************************************************)
(* The data of a transaction.                                              *)
(***************************************************************************)
\* The tweak for the byte d bytes on.
Ahead(ca, d) == [ca EXCEPT !.low = @ + d]

\* The tweak of the key stream is the pointer of the instruction at the very byte.
LEMMA PadIsUsing ==
  ASSUME NEW ca, NEW f \in Nat, NEW n \in 1 .. 2, NEW b \in Boxes, NEW on \in BOOLEAN,
         NEW flip \in BOOLEAN, NEW a \in f .. f + n - 1, a \in Addr, f \in Addr,
         ca = Pointer(b, on, f, flip)
  PROVE  Ahead(ca, a - f) = Pointer(b, on, a, flip)
<1> DEFINE S == Sign(flip)
<1> DEFINE z == SizeOf(b, on)
<1> DEFINE c == CtOf(b, on)
<1>1. ca = MkPtr(S, z, 0, f % Region, c) /\ Pointer(b, on, a, flip) = MkPtr(S, z, 0, a % Region, c)
  BY PointerForm
<1>2. a \in Nat /\ (a % Region) = (f % Region) + (a - f)
  <2>1. a = f \/ a = f + 1
    OBVIOUS
  <2>2. CASE a = f
    <3>1. f % Region \in Nat
      BY RegionType, DivMod
    <3> QED BY <2>2, <3>1
  <2>3. CASE a = f + 1
    <3>1. (f + 1) % Region = (f % Region) + 1
      BY <2>3, LowAfter
    <3>2. a - f = 1
      BY <2>3
    <3> QED BY <2>3, <3>1, <3>2
  <2> QED BY <2>1, <2>2, <2>3
<1> HIDE DEF S, z, c
<1>3. ca.low = f % Region
  <2> DEFINE x == f % Region
  <2>1. ca = MkPtr(S, z, 0, x, c)
    BY <1>1
  <2> HIDE DEF x
  <2>2. ca.low = x
    BY <2>1 DEF MkPtr
  <2> QED BY <2>2 DEF x
<1>4. \A l : [MkPtr(S, z, 0, f % Region, c) EXCEPT !.low = l] = MkPtr(S, z, 0, l, c)
  BY DEF MkPtr
<1> DEFINE l == ca.low + (a - f)
<1>5. l = a % Region
  BY <1>2, <1>3
<1> HIDE DEF l
<1>6. [ca EXCEPT !.low = l] = MkPtr(S, z, 0, a % Region, c)
  BY <1>1, <1>4, <1>5
<1> QED BY <1>1, <1>6 DEF l, Ahead

\* What the data callback finds for the chunk of n bytes from f on.
DataChunk(f, n) ==
  /\ Chunk(f, n) /\ n \in 1 .. 2 /\ f \in Nat /\ f \in Addr
  /\ phase = "data" => f = instr.at /\ (Crosses => n = 1 /\ instr.at + 1 \in Addr)
  /\ phase = "data2" => f = instr.at + 1 /\ n = 1
  /\ IF ByCa THEN Modifies(f) /\ is_encoded_pointer ELSE ~is_encoded_pointer

LEMMA DataFacts ==
  ASSUME IInv, phase \in {"data", "data2"}, Translates
  PROVE  \E f, n : DataChunk(f, n)
<1>1. Access /\ Handover /\ instr.at \in Addr /\ instr.at \in Nat
  BY AddrType DEF IInv, Access
<1>2. CASE phase = "data"
  <2> DEFINE n == IF Crosses THEN 1 ELSE instr.size
  <2>1. Chunk(instr.at, n) /\ n \in 1 .. 2
    BY <1>1, <1>2, FirstChunk
  <2>2. Crosses => n = 1
    OBVIOUS
  <2>3. Crosses => instr.at + 1 \in Addr
    <3>1. instr.size \in 1 .. 2 /\ instr.at + instr.size - 1 \in Addr
      BY <1>1, <1>2 DEF Access
    <3>2. CASE instr.size = 2
      <4>1. instr.at + 2 - 1 = instr.at + 1
        BY <1>1
      <4> QED BY <3>1, <3>2, <4>1
    <3>3. CASE instr.size = 1
      <4>1. instr.at + 1 - 1 = instr.at
        BY <1>1
      <4>2. ~Crosses
        BY <3>3, <4>1 DEF Crosses
      <4> QED BY <4>2
    <3> QED BY <3>1, <3>2, <3>3
  <2>4. ByCa => is_encoded_pointer /\ la_decoded = instr.at
    BY <1>1, <1>2 DEF Handover, Translates, ByCa
  <2>5. ByCa => Modifies(instr.at)
    BY <2>4 DEF Modifies, LaDecoded
  <2>6. ~ByCa => ~is_encoded_pointer
    BY <1>1, <1>2 DEF Handover
  <2> HIDE DEF n
  <2>7. DataChunk(instr.at, n)
    BY <1>1, <1>2, <2>1, <2>2, <2>3, <2>4, <2>5, <2>6 DEF DataChunk
  <2> QED BY <2>7
<1>3. CASE phase = "data2"
  <2>1. Chunk(instr.at + 1, 1) /\ instr.at + 1 \in Addr /\ instr.at + 1 \in Nat
    BY <1>1, <1>3, SecondChunk
  <2>2. ByCa => is_encoded_pointer /\ la_decoded = instr.at + 1
    BY <1>1, <1>3 DEF Handover
  <2>3. ByCa => Modifies(instr.at + 1)
    BY <2>2 DEF Modifies, LaDecoded
  <2>4. ~ByCa => ~is_encoded_pointer
    BY <1>1, <1>3 DEF Handover
  <2>5. DataChunk(instr.at + 1, 1)
    BY <1>3, <2>1, <2>2, <2>3, <2>4 DEF DataChunk
  <2> QED BY <2>5
<1> QED BY <1>2, <1>3

\* The data of a transaction through a CA: its pads are those of the pointer of the instruction.
LEMMA ModifiedByCa ==
  ASSUME IInv, phase \in {"data", "data2"}, NEW f, NEW n, DataChunk(f, n), ByCa,
         NEW m, NEW a \in Addr
  PROVE  Modified(m, f, n)[a] = IF a \in Bytes THEN (m[a] \ {Using(a)}) \cup ({Using(a)} \ m[a])
                                ELSE m[a]
<1>1. Access /\ Handover
  BY DEF IInv
<1>2. PICK b \in Boxes, on \in BOOLEAN, flip \in BOOLEAN :
        instr.ptr = Pointer(b, on, instr.at, flip)
  BY <1>1, ThePointer
<1>3. \A x : Using(x) = Pointer(b, on, x, flip)
  BY <1>2, PointerMoved DEF Using
<1>4. la_encoded = Pointer(b, on, f, flip)
  <2>1. CASE phase = "data"
    BY <1>1, <1>2, <2>1 DEF Handover, DataChunk
  <2>2. CASE phase = "data2"
    <3>1. la_encoded = Using(f)
      BY <1>1, <2>2 DEF Handover, DataChunk, Using
    <3> QED BY <1>3, <3>1
  <2> QED BY <2>1, <2>2
<1>5. /\ Modifies(f) /\ Bytes = f .. f + n - 1 /\ Bytes \subseteq Addr /\ n \in 1 .. 2 /\ f \in Nat
      /\ f \in Addr
  BY DEF DataChunk, Chunk
<1>6. get_data_tweak = la_encoded
  BY DEF get_data_tweak, base_get_data_tweak
<1>7. Modified(m, f, n) = encrypt_decrypt_bytes(m, la_encoded, f, n)
  BY <1>5, <1>6 DEF Modified
<1>8. CASE a \in Bytes
  <2> DEFINE pad == Pads(la_encoded, f, n)[a]
  <2>1. encrypt_decrypt_bytes(m, la_encoded, f, n)[a] = (m[a] \ {pad}) \cup ({pad} \ m[a])
    BY <1>5, <1>8 DEF encrypt_decrypt_bytes
  <2>2. pad = Ahead(la_encoded, a - f)
    BY <1>5, <1>8 DEF Pads, Ahead
  <2>3. pad = Using(a)
    <3>1. Ahead(la_encoded, a - f) = Pointer(b, on, a, flip)
      BY <1>4, <1>5, <1>8, PadIsUsing
    <3> QED BY <1>3, <2>2, <3>1
  <2> QED BY <1>7, <1>8, <2>1, <2>3
<1>9. CASE a \notin Bytes
  BY <1>5, <1>7, <1>9 DEF encrypt_decrypt_bytes
<1> QED BY <1>8, <1>9

LEMMA ModifiedPlain ==
  ASSUME NEW f, NEW n, DataChunk(f, n), ~ByCa, NEW m
  PROVE  Modified(m, f, n) = m
BY DEF DataChunk, Modified, Modifies

\* The pointer of the instruction at another byte is the same kind of pointer.
LEMMA UsingFacts ==
  ASSUME IInv, phase \in {"data", "data2"}, NEW a \in Addr
  PROVE  /\ is_encoded_cc_ptr(Using(a)) <=> ByCa
         /\ ByCa => Using(a) \in Pointers
<1>1. Access /\ instr.at \in Addr
  BY DEF IInv, Access
<1>2. PICK b \in Boxes, on, flip \in BOOLEAN :
          /\ instr.ptr = Pointer(b, on, instr.at, flip)
          /\ phase \in {"data", "addr2", "data2"} /\ ByCa => ~flip
  BY <1>1, ThePointer
<1>3. Using(a) = Pointer(b, on, a, flip)
  BY <1>2, PointerMoved DEF Using
<1>4. is_encoded_cc_ptr(Using(a)) <=> Boxed(b, on)
  BY <1>3, PointerFacts
<1>5. is_encoded_cc_ptr(instr.ptr) <=> Boxed(b, on)
  BY <1>1, <1>2, PointerFacts
<1>6. ASSUME ByCa PROVE Using(a) \in Pointers
  <2>1. flip = FALSE
    BY <1>2, <1>6
  <2>2. Using(a) = Own(b, on, a)
    BY <1>3, <2>1 DEF Own
  <2> QED BY <2>2, InPointers
<1> QED BY <1>4, <1>5, <1>6 DEF ByCa

LEMMA DataIInv ==
  ASSUME IInv, Data
  PROVE  IInv'
<1>1. phase \in {"data", "data2"} /\ phase # "idle" /\ Translates
  BY DEF Data
<1>2. PICK f, n : DataChunk(f, n)
  BY <1>1, DataFacts
<1>3. /\ First = f /\ Cardinality(Bytes) = n /\ Bytes \subseteq Addr
      /\ n \in 1 .. 2 /\ f \in Nat /\ f \in Addr
  BY <1>2 DEF DataChunk, Chunk
<1>4. modify_data_on_mem_access(f, n) /\ UNCHANGED <<config, cross_failed>>
  BY <1>3 DEF Data
<1>5. State /\ Access /\ Handover /\ Crossing /\ Stack /\ CrossFailNeedsFault /\ EncryptedByPointer
  BY DEF IInv
<1>6. instr.at \in Addr /\ instr.at \in Nat
  BY <1>1, <1>5, AddrType DEF Access
<1>7. IF Crosses /\ phase = "data" THEN GoOn("addr2") ELSE Complete
  BY DEF Data
<1>8. UNCHANGED <<crossing_lost, rsp_lost>> /\ phase' \in {"idle", "addr2"}
  BY <1>7 DEF GoOn, Complete
<1> DEFINE stored == [a \in Addr |-> IF a \in Bytes THEN {} ELSE mem[a]]
<1>9. IF instr.op = "store"
      THEN /\ mem' = Modified(stored, f, n)
           /\ owner' = [a \in Addr |-> IF a \in Bytes THEN Using(a) ELSE owner[a]]
           /\ UNCHANGED misread
      ELSE /\ misread' = (misread \/ Misread(Modified(mem, f, n)))
           /\ UNCHANGED <<mem, owner>>
  BY <1>3 DEF Data
<1>10. \A a \in Addr : mem[a] = IF is_encoded_cc_ptr(owner[a]) THEN {owner[a]} ELSE {}
  BY <1>5 DEF EncryptedByPointer
<1>11. /\ EncryptedByPointer' /\ misread' \in BOOLEAN
       /\ mem' \in [Addr -> SUBSET Pointers]
  <2>1. CASE instr.op = "store"
    <3>1. mem' = Modified(stored, f, n) /\ misread' = misread
      BY <1>9, <2>1
    <3>2. \A a \in Addr : owner'[a] = IF a \in Bytes THEN Using(a) ELSE owner[a]
      BY <1>9, <2>1
    <3>3. \A a \in Addr : stored[a] = IF a \in Bytes THEN {} ELSE mem[a]
      OBVIOUS
    <3>4. DOMAIN mem' = Addr /\ mem' = [a \in Addr |-> mem'[a]]
      <4>1. CASE ByCa
        <5>1. Modified(stored, f, n) = encrypt_decrypt_bytes(stored, get_data_tweak, f, n)
          BY <1>2, <4>1 DEF Modified, DataChunk
        <5> HIDE DEF stored
        <5> QED BY <3>1, <5>1 DEF encrypt_decrypt_bytes
      <4>2. CASE ~ByCa
        BY <1>2, <3>1, <4>2, ModifiedPlain
      <4> QED BY <4>1, <4>2
    <3> HIDE DEF stored
    <3>5. \A a \in Addr : mem'[a] = IF a \in Bytes THEN (IF ByCa THEN {Using(a)} ELSE {}) ELSE mem[a]
      <4> TAKE a \in Addr
      <4>1. CASE ByCa
        <5>1. Modified(stored, f, n)[a]
                = IF a \in Bytes THEN (stored[a] \ {Using(a)}) \cup ({Using(a)} \ stored[a])
                  ELSE stored[a]
          BY <1>1, <1>2, <4>1, ModifiedByCa
        <5> QED BY <3>1, <3>3, <4>1, <5>1
      <4>2. CASE ~ByCa
        <5>1. Modified(stored, f, n) = stored
          BY <1>2, <4>2, ModifiedPlain
        <5> QED BY <3>1, <3>3, <4>2, <5>1
      <4> QED BY <4>1, <4>2
    <3>6. \A a \in Addr : (is_encoded_cc_ptr(Using(a)) <=> ByCa) /\ (ByCa => Using(a) \in Pointers)
      BY <1>1, UsingFacts
    <3>7. \A a \in Addr : mem'[a] = IF is_encoded_cc_ptr(owner'[a]) THEN {owner'[a]} ELSE {}
      <4> TAKE a \in Addr
      <4>1. CASE a \in Bytes
        <5>1. owner'[a] = Using(a) /\ mem'[a] = IF ByCa THEN {Using(a)} ELSE {}
          BY <3>2, <3>5, <4>1
        <5> QED BY <3>6, <5>1
      <4>2. CASE a \notin Bytes
        <5>1. owner'[a] = owner[a] /\ mem'[a] = mem[a]
          BY <3>2, <3>5, <4>2
        <5> QED BY <1>10, <5>1
      <4> QED BY <4>1, <4>2
    <3>8. EncryptedByPointer'
      BY <1>5, <3>1, <3>7 DEF EncryptedByPointer
    <3>9. \A a \in Addr : mem'[a] \in SUBSET Pointers
      <4>1. \A a \in Addr : mem[a] \in SUBSET Pointers
        BY <1>5 DEF State
      <4> TAKE a \in Addr
      <4>2. CASE a \in Bytes /\ ByCa
        <5>1. mem'[a] = {Using(a)} /\ Using(a) \in Pointers
          BY <3>5, <3>6, <4>2
        <5> QED BY <5>1
      <4>3. CASE a \in Bytes /\ ~ByCa
        <5>1. mem'[a] = {}
          BY <3>5, <4>3
        <5> QED BY <5>1
      <4>4. CASE a \notin Bytes
        <5>1. mem'[a] = mem[a]
          BY <3>5, <4>4
        <5> QED BY <4>1, <5>1
      <4> QED BY <4>2, <4>3, <4>4
    <3> QED BY <1>5, <3>1, <3>4, <3>8, <3>9 DEF State
  <2>2. CASE instr.op # "store"
    <3>1. misread' = (misread \/ Misread(Modified(mem, f, n))) /\ UNCHANGED <<mem, owner>>
      BY <1>9, <2>2
    <3>2. ~misread
      BY <1>5 DEF EncryptedByPointer
    <3>3. ASSUME NEW a \in Bytes, owner[a] = Using(a) PROVE Modified(mem, f, n)[a] = {}
      <4>1. a \in Addr
        BY <1>3
      <4>2. is_encoded_cc_ptr(Using(a)) <=> ByCa
        BY <1>1, <4>1, UsingFacts
      <4>3. mem[a] = IF ByCa THEN {Using(a)} ELSE {}
        BY <1>10, <3>3, <4>1, <4>2
      <4>4. CASE ByCa
        <5> DEFINE m == mem
        <5>1. m[a] = {Using(a)}
          BY <4>3, <4>4
        <5> HIDE DEF m
        <5>2. \A x \in Addr :
                Modified(m, f, n)[x]
                  = IF x \in Bytes THEN (m[x] \ {Using(x)}) \cup ({Using(x)} \ m[x]) ELSE m[x]
          BY <1>1, <1>2, <4>4, ModifiedByCa
        <5>3. Modified(m, f, n)[a] = {}
          BY <4>1, <5>1, <5>2
        <5> QED BY <5>3 DEF m
      <4>5. CASE ~ByCa
        BY <1>2, <4>3, <4>5, ModifiedPlain
      <4> QED BY <4>4, <4>5
    <3>4. ~Misread(Modified(mem, f, n))
      BY <3>3 DEF Misread
    <3>5. misread' = FALSE
      BY <3>1, <3>2, <3>4
    <3>6. EncryptedByPointer'
      BY <1>10, <3>1, <3>5 DEF EncryptedByPointer
    <3> QED BY <1>5, <3>1, <3>5, <3>6 DEF State
  <2> QED BY <2>1, <2>2
<1>12. State'
  <2>1. Pointers' = Pointers /\ Linear(0, 0)' = Linear(0, 0)
    BY DEF Pointers
  <2>2. /\ \E p \in Pointers \cup {Linear(0, 0)}, k \in Nat : la_encoded' = [p EXCEPT !.low = k]
        /\ la_decoded' \in Nat /\ la_mismatch_count' \in 0 .. MaxWarnings
        /\ crossing_first' \in BOOLEAN /\ crossing_second' \in BOOLEAN
        /\ is_encoded_pointer' \in BOOLEAN
    BY <1>3, <1>4, <1>5, FinishTypes
  <2> QED BY <1>4, <1>5, <1>8, <1>11, <2>1, <2>2 DEF State, config
<1>13. CrossFailNeedsFault'
  BY <1>4, <1>5, <1>8 DEF CrossFailNeedsFault
<1>14. ASSUME ByCa
       PROVE  /\ crossing_second' = crossing_first /\ crossing_first' = FALSE
              /\ la_encoded' = IF crossing_first THEN Ahead(la_encoded, n) ELSE la_encoded
              /\ la_decoded' = IF crossing_first THEN f + n ELSE f
  BY <1>2, <1>4, <1>14 DEF DataChunk, modify_data_on_mem_access, finish_chunk, Ahead
<1>15. ASSUME ~ByCa
       PROVE  UNCHANGED <<crossing_first, crossing_second, is_encoded_pointer>>
  BY <1>2, <1>4, <1>15 DEF DataChunk, modify_data_on_mem_access, Modifies
<1>16. CASE Crosses /\ phase = "data"
  <2>1. GoOn("addr2")
    BY <1>7, <1>16
  <2>2. phase' = "addr2" /\ UNCHANGED <<instr, rsp, rsp_lost>>
    BY <2>1 DEF GoOn
  <2>3. ByCa' = ByCa /\ Crosses' = Crosses
    BY <2>2 DEF ByCa, Crosses
  <2>4. f = instr.at /\ n = 1 /\ instr.at + 1 \in Addr
    BY <1>2, <1>16 DEF DataChunk
  <2>5. PICK b \in Boxes, on, flip \in BOOLEAN :
          /\ instr.ptr = Pointer(b, on, instr.at, flip)
          /\ phase \in {"data", "addr2", "data2"} /\ ByCa => ~flip
    BY <1>1, <1>5, ThePointer
  <2>6. Access'
    <3>1. /\ instr.op \in {"load", "store"} /\ instr.size \in 1 .. 2 /\ instr.fx \in BOOLEAN
          /\ instr.at \in Addr /\ instr.at + instr.size - 1 \in Addr
      BY <1>1, <1>5 DEF Access
    <3>2. \E c \in Boxes, on2, flip2 \in BOOLEAN :
            instr.ptr = Pointer(c, on2, instr.at, flip2) /\ (ByCa => ~flip2)
      BY <1>1, <2>5
    <3> QED BY <1>16, <2>2, <2>3, <3>1, <3>2 DEF Access
  <2>7. Handover'
    <3>1. CASE ByCa
      <4>1. crossing_first /\ la_encoded = instr.ptr
        BY <1>5, <1>16, <3>1 DEF Handover
      <4>2. crossing_second' = TRUE /\ la_encoded' = Ahead(la_encoded, 1) /\ la_decoded' = instr.at + 1
        <5>1. crossing_second' = crossing_first
          BY <1>14, <3>1
        <5>2. la_encoded' = Ahead(la_encoded, 1) /\ la_decoded' = instr.at + 1
          BY <1>14, <2>4, <3>1, <4>1
        <5>3. crossing_first = TRUE
          BY <1>5, <4>1 DEF State
        <5> QED BY <5>1, <5>2, <5>3
      <4>3. Ahead(la_encoded, 1) = Pointer(b, on, instr.at + 1, flip)
        <5> DEFINE x == instr.at + 1
        <5>1. x \in Addr /\ x \in instr.at .. instr.at + 2 - 1 /\ x - instr.at = 1 /\ 2 \in 1 .. 2
          BY <1>6, <2>4
        <5>2. la_encoded = Pointer(b, on, instr.at, flip)
          BY <2>5, <4>1
        <5> HIDE DEF x
        <5>3. Ahead(la_encoded, x - instr.at) = Pointer(b, on, x, flip)
          BY <1>6, <5>1, <5>2, PadIsUsing
        <5> QED BY <5>1, <5>3 DEF x
      <4>4. Moved(instr.ptr, instr.at + 1) = Pointer(b, on, instr.at + 1, flip)
        BY <2>5, PointerMoved
      <4>5. la_encoded' = Moved(instr'.ptr, instr'.at + 1) /\ la_decoded' = instr'.at + 1
        BY <2>2, <4>2, <4>3, <4>4
      <4> QED BY <2>2, <2>3, <3>1, <4>2, <4>5 DEF Handover
    <3>2. CASE ~ByCa
      <4>1. ~crossing_second'
        BY <1>5, <1>15, <1>16, <3>2 DEF Handover
      <4> QED BY <2>2, <2>3, <3>2, <4>1 DEF Handover
    <3> QED BY <3>1, <3>2
  <2>8. Crossing'
    <3> SUFFICES ASSUME ~crossing_lost PROVE ~crossing_first' /\ (crossing_second' <=> ByCa)
      BY <1>8, <2>2, <2>3 DEF Crossing
    <3>1. ~crossing_second /\ (crossing_first <=> ByCa)
      BY <1>5, <1>16 DEF Crossing
    <3>2. CASE ByCa
      BY <1>14, <3>1, <3>2
    <3>3. CASE ~ByCa
      BY <1>15, <3>1, <3>3
    <3> QED BY <3>2, <3>3
  <2>9. Stack'
    <3>1. StackPtr' = StackPtr /\ StackLinear' = StackLinear
      BY DEF StackPtr, StackLinear
    <3> QED BY <1>1, <1>5, <2>2, <3>1 DEF Stack
  <2> QED BY <1>11, <1>12, <1>13, <2>6, <2>7, <2>8, <2>9 DEF IInv
<1>17. CASE ~(Crosses /\ phase = "data")
  <2>1. Complete /\ phase' = "idle"
    BY <1>7, <1>17 DEF Complete
  <2>2. Access' /\ Handover'
    BY <2>1 DEF Access, Handover
  <2>3. Crossing'
    <3> SUFFICES ASSUME ~crossing_lost PROVE ~crossing_first' /\ ~crossing_second'
      BY <1>8, <2>1 DEF Crossing
    <3>1. ~crossing_first /\ (~ByCa => ~crossing_second)
      BY <1>1, <1>5, <1>17 DEF Crossing
    <3>2. CASE ByCa
      BY <1>14, <3>1, <3>2
    <3>3. CASE ~ByCa
      BY <1>15, <3>1, <3>3
    <3> QED BY <3>2, <3>3
  <2>4. Stack'
    <3>1. StackPtr' = StackPtr /\ StackLinear' = StackLinear
      BY DEF StackPtr, StackLinear
    <3>2. rsp' = IF instr.fx THEN instr.saved_reg ELSE rsp
      BY <2>1 DEF Complete, ca_stack_after
    <3>3. rsp' \in {StackPtr, StackLinear} /\ (~rsp_lost => rsp' = StackPtr)
      BY <1>1, <1>5, <3>2 DEF Stack
    <3> QED BY <1>8, <2>1, <3>1, <3>3 DEF Stack
  <2> QED BY <1>11, <1>12, <1>13, <2>2, <2>3, <2>4 DEF IInv
<1> QED BY <1>16, <1>17

LEMMA NextIInv == IInv /\ [Next]_vars => IInv'
<1> SUFFICES ASSUME IInv, [Next]_vars PROVE IInv'
  OBVIOUS
<1>1. CASE \E op \in {"load", "store"}, b \in Boxes, a \in Starts, n \in 1 .. 2, on, flip \in BOOLEAN :
             Start(op, b, on, a, n, flip)
  BY <1>1, StartIInv
<1>2. CASE \E op \in {"load", "store"} : StartFx(op)
  BY <1>2, StartFxIInv
<1>3. CASE AddressBefore
  BY <1>3, AddressBeforeIInv
<1>4. CASE Data
  BY <1>4, DataIInv
<1>5. CASE PageFault
  BY <1>5, PageFaultIInv
<1>6. CASE \E a \in Starts : Unannounced(a)
  BY <1>6, UnannouncedIInv
<1>7. CASE \E val \in BOOLEAN : LoadContext(val) \/ SetStackHardening(val)
  BY <1>7, ConfigIInv
<1>8. CASE UNCHANGED vars
  <2>1. UNCHANGED <<base, config, mem, phase, instr, rsp, history>>
    BY <1>8 DEF vars
  <2>2. State'
    <3>1. State /\ Pointers' = Pointers
      BY DEF IInv, Pointers
    <3> QED BY <2>1, <3>1 DEF State, base, config, history
  <2>3. ByCa' = ByCa /\ Crosses' = Crosses /\ StackPtr' = StackPtr /\ StackLinear' = StackLinear
    BY <2>1 DEF ByCa, Crosses, StackPtr, StackLinear
  <2>4. Access' /\ Handover' /\ Crossing' /\ Stack'
    <3>1. Access'
      BY <2>1, <2>3 DEF IInv, Access
    <3>2. Handover'
      BY <2>1, <2>3 DEF IInv, Handover, base
    <3>3. Crossing'
      BY <2>1, <2>3 DEF IInv, Crossing, base, history
    <3>4. Stack'
      BY <2>1, <2>3 DEF IInv, Stack, history
    <3> QED BY <3>1, <3>2, <3>3, <3>4
  <2>5. CrossFailNeedsFault' /\ EncryptedByPointer'
    <3>1. EncryptedByPointer'
      BY <2>1, EncUnchanged DEF IInv, history
    <3> QED BY <2>1, <3>1 DEF IInv, CrossFailNeedsFault, history
  <2> QED BY <2>2, <2>4, <2>5 DEF IInv
<1> QED BY <1>1, <1>2, <1>3, <1>4, <1>5, <1>6, <1>7, <1>8 DEF Next

\* The invariant is inductive.
LEMMA Inductive == Spec => []IInv
<1>1. Init => IInv
  BY InitIInv
<1>2. IInv /\ [Next]_vars => IInv'
  BY NextIInv
<1> QED BY <1>1, <1>2, PTL DEF Spec

-----------------------------------------------------------------------------
(***************************************************************************)
(* The variables of c3_base_model.h keep their types for every address     *)
(* space and every set of boxes: la_encoded_ is always a pointer the       *)
(* program had, moved, the warnings of handle_la_mismatch never exceed     *)
(* their number, and memory is never under another pad than a CA's.        *)
(***************************************************************************)
THEOREM PipelineTypes == Spec => []TypeOK
<1>1. IInv => TypeOK
  <2> SUFFICES ASSUME IInv PROVE TypeOK
    OBVIOUS
  <2>1. State
    BY DEF IInv
  <2>2. PICK p \in Pointers \cup {Linear(0, 0)}, k \in Nat : la_encoded = [p EXCEPT !.low = k]
    BY <2>1 DEF State
  <2>3. Moved(la_encoded, 0) = Moved(p, 0)
    BY <2>2 DEF Moved
  <2>4. Moved(Linear(0, 0), 0) = Linear(0, 0)
    BY DEF Moved, Linear
  <2>5. Moved(la_encoded, 0) \in {Moved(q, 0) : q \in Pointers} \cup {Linear(0, 0)}
    BY <2>2, <2>3, <2>4
  <2>6. la_encoded.low \in Nat
    BY <2>1, LaLow
  <2>7. Flags \subseteq BOOLEAN
    BY <2>1 DEF State, Flags
  <2> QED BY <2>1, <2>5, <2>6, <2>7 DEF State, TypeOK
<1> QED BY <1>1, Inductive, PTL

(***************************************************************************)
(* Whatever faults, retries, stray transactions and context loads come     *)
(* between address_before and modify_data_on_mem_access, every byte of     *)
(* memory is encrypted under the tweak of the pointer that last wrote it,  *)
(* at that byte's own address, on both sides of a page boundary, and a     *)
(* load through that pointer decrypts it.                                  *)
(***************************************************************************)
THEOREM DataEncryptedByPointer == Spec => []EncryptedByPointer
<1>1. IInv => EncryptedByPointer
  BY DEF IInv
<1> QED BY <1>1, Inductive, PTL

(***************************************************************************)
(* address_before raises its "Cross-page handling fail" fault only after a *)
(* fault has cut short a CA access that crosses a page boundary: every     *)
(* access that is not cut short consumes the crossing flags it sets.       *)
(***************************************************************************)
THEOREM CrossFailOnlyAfterFault == Spec => []CrossFailNeedsFault
<1>1. IInv => CrossFailNeedsFault
  BY DEF IInv
<1> QED BY <1>1, Inductive, PTL

(***************************************************************************)
(* decode_pointer, as address_before uses it, confines every CA to its     *)
(* slot: wherever the program has moved it, the access translates to the   *)
(* address meant exactly within the block that try_box found for the box.  *)
(***************************************************************************)
THEOREM CaConfinedToSlot == Spec => []SlotConfines
<1>1. IInv => SlotConfines
  <2> SUFFICES ASSUME IInv, phase = "data", NEW b \in Boxes,
                      instr.ptr = Pointer(b, TRUE, instr.at, FALSE), is_encoded_cc_ptr(instr.ptr)
               PROVE  Translates <=> instr.at \in Block(b)
    BY DEF SlotConfines
  <2>1. instr.at \in Addr
    BY DEF IInv, Access
  <2>2. la_decoded = AddrOf(decode_pointer(instr.ptr))
    BY DEF IInv, Handover, ByCa
  <2>3. Boxed(b, TRUE)
    BY <2>1, PointerFacts
  <2>4. AddrOf(decode_pointer(instr.ptr)) = instr.at <=> instr.at \in Block(b)
    BY <2>1, <2>3, SlotExact
  <2> QED BY <2>2, <2>4 DEF Translates
<1> QED BY <1>1, Inductive, PTL

(***************************************************************************)
(* CaStack gives the program its own stack pointer back after every        *)
(* FXSAVE and FXRSTOR that completes, whatever pointer the stack has and   *)
(* whatever is switched or faults meanwhile; only a fault in the midst of  *)
(* one of them leaves it decoded.                                          *)
(***************************************************************************)
THEOREM StackPointerKept == Spec => []RspKept
<1>1. IInv => RspKept
  BY DEF IInv, Stack, RspKept
<1> QED BY <1>1, Inductive, PTL

(***************************************************************************)
(* The round trip through try_box, cc_isa_encptr and cc_isa_decptr, and    *)
(* through the software encoder, for every width of the address and of the *)
(* bits in the clear: every block that can be boxed has a CA that decodes  *)
(* to each of its addresses and to noise just beyond its slot, which ends  *)
(* where ca_get_inbound_offset says.                                       *)
(***************************************************************************)
THEOREM BoxesRoundTrip == Spec => []BoxRoundTrip
<1>1. BoxRoundTrip
  <2> SUFFICES ASSUME NEW a \in 0 .. 2^AddrBits - 1, NEW n \in 0 .. Region, NEW bit \in 0 .. 1,
                      a + n <= 2^AddrBits, cc_can_box(a, n)
               PROVE  LET p     == cc_isa_encptr_sv(a, bit, n, 1)
                          At(x) == ccptrdec_emulation(Moved(p, x), TRUE)
                          off   == ca_get_inbound_offset(p, Region)
                      IN  /\ \A x \in a .. a + n - 1 :
                               /\ At(x) = Linear(x, bit)
                               /\ decode_ptr_if_ca(Moved(p, x)) = At(x)
                               /\ is_encoded_cc_ptr(p) => c3c_decode_ptr(Moved(p, x)) = At(x)
                          /\ c3c_encode_ptr(Linear(a, bit), n, 1) = p
                          /\ At(a + off) = Linear(a + off, bit)
                          /\ (a + off + 1) \div Region = a \div Region
                               => At(a + off + 1).ct.up = Noise
    BY DEF BoxRoundTrip
  <2> DEFINE p == cc_isa_encptr_sv(a, bit, n, 1)
  <2> DEFINE off == ca_get_inbound_offset(p, Region)
  <2>1. p = cc_isa_encptr_sv(a, bit, n, 1) /\ off = ca_get_inbound_offset(p, Region)
    OBVIOUS
  <2> HIDE DEF p, off
  <2>2. RoundTrips(a, n, bit, p, off)
    BY <2>1, RoundTrip
  <2> QED BY <2>2 DEF p, off, RoundTrips
<1> QED BY <1>1, PTL
=============================================================================
