--------------------------- MODULE RepMovsProofs ----------------------------
(***************************************************************************)
(* The invariants of module RepMovs, for every memory, set of buffers and  *)
(* length of copies, and for any number of copies and interrupts.          *)
(*                                                                         *)
(* The run's properties speak of the step that completes a copy.  What     *)
(* makes them inductive is how far the copy has come: what is in execution *)
(* or waiting to be resumed is the rest of one job (Progress), a copy that *)
(* was not interrupted still finds its destination writable (Undisturbed), *)
(* and once the handler of an interrupt has applied a fix-up, all of the   *)
(* job's ICVs have been copied (Fixed).                                    *)
(***************************************************************************)
EXTENDS RepMovs, WellFoundedInduction, TLAPS

Icvs == Tags \cup {LA, Inv}

DstRange(i) == Range(i.dst, i.n, i.back)

SrcRange(i) == Range(i.src, i.n, i.back)

\* i reads and writes inside the buffers of its pointers.
Inside(i) ==
  /\ i.mode # "NONE"
  /\ i.dst.tag \in Tags /\ i.src.tag \in Tags
  /\ DstRange(i) \subseteq Buffer[i.dst.tag]
  /\ SrcRange(i) \subseteq Buffer[i.src.tag]

\* p is q, d bytes further on.
Along(p, q, back, d) == p.tag = q.tag /\ p.la = IF back THEN q.la - d ELSE q.la + d

\* i is what is left of the copy j.
RestOf(i, j) ==
  /\ i.mode = j.mode /\ i.back = j.back
  /\ i.n <= j.n
  /\ Along(i.dst, j.dst, j.back, j.n - i.n)
  /\ Along(i.src, j.src, j.back, j.n - i.n)

\* The copies that TripwiresCopied is about.
Separate(i) ==
  /\ i.n > 0 /\ ~i.back
  /\ (i.dst.la - i.src.la) % G = 0
  /\ GranulesOf(Range(i.src, i.n, FALSE)) \cap GranulesOf(Range(i.dst, i.n, FALSE)) = {}

\* In m the ICVs of the destination of i are those its source asks for.
IcvsCopied(m, i) ==
  \A g \in GranulesOf(Range(i.src, i.n, FALSE)) :
    m[g + (Down(i.dst.la) - Down(i.src.la))] = IF m[g] = Inv THEN Inv ELSE i.dst.tag

Progress ==
  /\ \A i \in {exec, resume} : i # None => Inside(i) /\ RestOf(i, job) /\ Inside(job)
  /\ resume # None => exec = None /\ interrupted /\ resume.n > 0
  /\ exec # None => fixup = icv_enabled
  /\ fixup => /\ RestOf(fixup_vals, job) /\ Inside(fixup_vals) /\ Inside(job)
              /\ job.n > 0 => fixup_vals.n > 0

Undisturbed ==
  /\ exec # None /\ icv_enabled /\ ~interrupted =>
       \A b \in DstRange(exec) : icv[Down(b)] = exec.dst.tag
  /\ IcvFaultNeedsInterrupt

Fixed ==
  Separate(job) =>
    /\ fixup => fixup_vals = job \/ IcvsCopied(icv, job)
    /\ resume # None /\ icv_enabled /\ ~fixup => IcvsCopied(icv, job)

IInv == TypeOK /\ Progress /\ Undisturbed /\ Fixed
-----------------------------------------------------------------------------
(***************************************************************************)
(* The loop of copyICVs.  A loop of k passes has as many states as         *)
(* passes, and what holds of its first state and is kept by each pass      *)
(* holds of its last; both by the least number for which they would fail.  *)
(***************************************************************************)
LEMMA Least ==
  ASSUME NEW S \in SUBSET Nat, S # {}
  PROVE  \E m \in S : \A k \in S : m <= k
<1>1. \E x \in S : \A y \in S : ~ (<<y, x>> \in OpToRel(<, Nat))
  BY WFMin, NatLessThanWellFounded, Zenon
<1>2. \A x, y \in Nat : <<y, x>> \in OpToRel(<, Nat) <=> y < x
  BY Zenon DEF OpToRel
<1>3. \E x \in S : \A y \in S : ~ (y < x)
  BY <1>1, <1>2, Zenon
<1> QED BY <1>3

\* f[i] is the ICVs after i passes.
Passes(f, m, dst, src, back, k) ==
  f = [i \in 0 .. k |-> IF i = 0 THEN m ELSE CopyEntry(f[i - 1], dst, src, back, i - 1)]

LEMMA PassesExist ==
  ASSUME NEW m, NEW dst, NEW src, NEW back, NEW n \in Nat
  PROVE  \E f : Passes(f, m, dst, src, back, n)
<1> DEFINE Missing == {k \in Nat : ~ \E f : Passes(f, m, dst, src, back, k)}
<1>1. ASSUME Missing # {}
      PROVE  FALSE
  <2>1. PICK k \in Missing : \A j \in Missing : k <= j
    BY <1>1, Least
  <2>2. CASE k = 0
    <3>1. Passes([i \in 0 .. 0 |-> m], m, dst, src, back, 0)
      BY DEF Passes
    <3> QED BY <2>2, <2>1, <3>1
  <2>3. CASE k # 0
    <3>1. k - 1 \in Nat /\ ~ (k <= k - 1)
      BY <2>3, <2>1
    <3>2. PICK g : Passes(g, m, dst, src, back, k - 1)
      BY <3>1, <2>1
    <3> DEFINE h == [i \in 0 .. k |->
                       IF i = k THEN CopyEntry(g[k - 1], dst, src, back, k - 1) ELSE g[i]]
    <3>3. \A i \in 0 .. k - 1 : h[i] = g[i]
      BY <3>1, <2>1
    <3>4. \A i \in 0 .. k - 1 :
            g[i] = IF i = 0 THEN m ELSE CopyEntry(g[i - 1], dst, src, back, i - 1)
      BY <3>2, <3>1 DEF Passes
    <3>5. \A i \in 0 .. k :
            h[i] = IF i = 0 THEN m ELSE CopyEntry(h[i - 1], dst, src, back, i - 1)
      <4> SUFFICES ASSUME NEW i \in 0 .. k
                   PROVE  h[i] = IF i = 0 THEN m ELSE CopyEntry(h[i - 1], dst, src, back, i - 1)
        OBVIOUS
      <4>1. CASE i = k
        <5>1. h[k] = CopyEntry(g[k - 1], dst, src, back, k - 1)
          BY <2>1
        <5>2. h[k - 1] = g[k - 1]
          BY <3>3, <3>1
        <5> QED BY <5>1, <5>2, <4>1, <2>3
      <4>2. CASE i # k /\ i # 0
        <5>1. i \in 0 .. k - 1 /\ i - 1 \in 0 .. k - 1
          BY <4>2, <2>1
        <5>2. h[i] = g[i] /\ h[i - 1] = g[i - 1]
          BY <5>1, <3>3
        <5>3. g[i] = CopyEntry(g[i - 1], dst, src, back, i - 1)
          BY <5>1, <3>4, <4>2
        <5> QED BY <5>2, <5>3, <4>2
      <4>3. CASE i = 0
        BY <4>3, <3>3, <3>4, <3>1
      <4> QED BY <4>1, <4>2, <4>3
    <3>6. Passes(h, m, dst, src, back, k)
      <4>1. h = [i \in 0 .. k |-> h[i]]
        OBVIOUS
      <4> HIDE DEF h
      <4> QED BY <4>1, <3>5 DEF Passes
    <3> QED BY <3>6, <2>1
  <2> QED BY <2>2, <2>3
<1> QED BY <1>1

LEMMA EntriesByPasses ==
  ASSUME NEW m, NEW dst, NEW src, NEW back, NEW k \in Nat
  PROVE  \E f : /\ CopyEntries(m, dst, src, back, k) = f[k]
                /\ f[0] = m
                /\ \A i \in 0 .. k - 1 : f[i + 1] = CopyEntry(f[i], dst, src, back, i)
<1> DEFINE P(f) == f = [i \in 0 .. k |->
                          IF i = 0 THEN m ELSE CopyEntry(f[i - 1], dst, src, back, i - 1)]
<1> DEFINE F == CHOOSE f : P(f)
<1>1. CopyEntries(m, dst, src, back, k) = F[k]
  BY DEF CopyEntries
<1>2. \E f : P(f)
  <2>1. PICK f : Passes(f, m, dst, src, back, k)
    BY PassesExist
  <2>2. P(f)
    BY <2>1 DEF Passes
  <2> HIDE DEF P
  <2> QED BY <2>2, Zenon
<1>3. P(F)
  <2> HIDE DEF P
  <2> QED BY <1>2, Zenon
<1>4. F = [i \in 0 .. k |-> IF i = 0 THEN m ELSE CopyEntry(F[i - 1], dst, src, back, i - 1)]
  BY <1>3
<1> HIDE DEF F
<1>5. F[0] = m
  BY <1>4
<1>6. \A i \in 0 .. k - 1 : F[i + 1] = CopyEntry(F[i], dst, src, back, i)
  <2> SUFFICES ASSUME NEW i \in 0 .. k - 1
               PROVE  F[i + 1] = CopyEntry(F[i], dst, src, back, i)
    OBVIOUS
  <2>1. i + 1 \in 0 .. k /\ i + 1 # 0 /\ (i + 1) - 1 = i
    OBVIOUS
  <2>2. F[i + 1] = CopyEntry(F[(i + 1) - 1], dst, src, back, (i + 1) - 1)
    BY <2>1, <1>4
  <2> QED BY <2>1, <2>2
<1> QED BY <1>1, <1>5, <1>6

-----------------------------------------------------------------------------
(***************************************************************************)
(* Bytes and granules.                                                     *)
(***************************************************************************)
LEMMA DownMod ==
  ASSUME NEW a \in Int
  PROVE  Down(a) \in Int /\ a % G \in 0 .. G - 1 /\ a = G * Down(a) + (a % G)
BY RepMovsAssumption DEF Down

LEMMA DownUnique ==
  ASSUME NEW q \in Int, NEW x \in 0 .. G - 1
  PROVE  Down(G * q + x) = q /\ (G * q + x) % G = x
BY RepMovsAssumption DEF Down

LEMMA DownAdd ==
  ASSUME NEW a \in Int, NEW i \in Int
  PROVE  Down(a + i * G) = Down(a) + i
<1>1. Down(a) \in Int /\ a % G \in 0 .. G - 1 /\ a = G * Down(a) + (a % G)
  BY DownMod
<1>2. G \in Int
  BY RepMovsAssumption
<1>3. a + i * G = G * (Down(a) + i) + (a % G)
  BY <1>1, <1>2
<1>4. Down(G * (Down(a) + i) + (a % G)) = Down(a) + i
  BY <1>1, DownUnique
<1> QED BY <1>3, <1>4

LEMMA DownMono ==
  ASSUME NEW a \in Int, NEW b \in Int, a <= b
  PROVE  Down(a) <= Down(b)
BY RepMovsAssumption DEF Down

LEMMA UpDown ==
  ASSUME NEW a \in Int
  PROVE  Up(a) = Down(a - 1) + 1 /\ Up(a) \in Int /\ Down(a) <= Up(a)
<1>1. G \in Nat \ {0}
  BY RepMovsAssumption
<1>2. Up(a) = Down((a - 1) + 1 * G)
  BY <1>1 DEF Up, Down
<1>3. Down((a - 1) + 1 * G) = Down(a - 1) + 1
  BY DownAdd
<1>4. Down(a - 1) \in Int
  BY DownMod
<1>5. Down(a) <= Up(a)
  BY <1>1 DEF Up, Down
<1> QED BY <1>2, <1>3, <1>4, <1>5

LEMMA GranulesOfRange ==
  ASSUME NEW lo \in Int, NEW hi \in Int, lo <= hi
  PROVE  GranulesOf(lo .. hi) = Down(lo) .. Down(hi)
<1>0. Down(lo) \in Int /\ Down(hi) \in Int /\ G \in Nat \ {0}
  BY DownMod, RepMovsAssumption
<1>1. ASSUME NEW b \in lo .. hi
      PROVE  b \div G \in Down(lo) .. Down(hi)
  <2>1. Down(lo) <= Down(b) /\ Down(b) <= Down(hi) /\ Down(b) \in Int
    BY DownMono, DownMod
  <2> QED BY <2>1, <1>0 DEF Down
<1>2. ASSUME NEW g \in Down(lo) .. Down(hi)
      PROVE  \E b \in lo .. hi : b \div G = g
  <2>1. CASE g = Down(lo)
    BY <2>1 DEF Down
  <2>2. CASE g # Down(lo)
    <3>1. G * g + 0 >= lo
      <4>1. lo = G * Down(lo) + (lo % G) /\ lo % G \in 0 .. G - 1
        BY DownMod
      <4>2. g \in Int /\ g >= Down(lo) + 1
        BY <2>2, <1>0
      <4>3. G * g >= G * (Down(lo) + 1)
        BY <4>2, <1>0
      <4> QED BY <4>1, <4>2, <4>3, <1>0
    <3>2. G * g + 0 <= hi
      <4>1. hi = G * Down(hi) + (hi % G) /\ hi % G \in 0 .. G - 1
        BY DownMod
      <4>2. G * g <= G * Down(hi)
        BY <1>0
      <4> QED BY <4>1, <4>2, <1>0
    <3>3. Down(G * g + 0) = g
      <4>1. g \in Int /\ 0 \in 0 .. G - 1
        BY <1>0
      <4> QED BY <4>1, DownUnique
    <3> DEFINE b == G * g + 0
    <3>4. b \in lo .. hi
      BY <3>1, <3>2, <1>0
    <3> QED BY <3>4, <3>3 DEF Down
  <2> QED BY <2>1, <2>2
<1> QED BY <1>1, <1>2 DEF GranulesOf

LEMMA ByteGranule ==
  ASSUME NEW b \in Byte
  PROVE  b \in Int /\ Down(b) \in Granule
<1>1. PICK g \in Granule : b \in G * g .. G * g + G - 1
  BY DEF Byte
<1>2. g \in Int /\ G \in Nat \ {0}
  BY RepMovsAssumption
<1>3. b - G * g \in 0 .. G - 1 /\ b = G * g + (b - G * g) /\ b \in Int
  BY <1>1, <1>2
<1>4. Down(G * g + (b - G * g)) = g
  BY <1>3, <1>2, DownUnique
<1> QED BY <1>3, <1>4

LEMMA EntryCount ==
  ASSUME NEW la \in Int, NEW n \in Nat, NEW back \in BOOLEAN
  PROVE  /\ icv_n(la, n, back) \in Nat
         /\ ~back /\ n > 0 => icv_n(la, n, back) = Down(la + n - 1) - Down(la) + 1
<1>1. CASE back
  <2>1. Down(la - n) <= Down(la) /\ Down(la) <= Up(la) /\ Up(la) \in Int
        /\ Down(la - n) \in Int /\ Down(la) \in Int
    BY DownMono, UpDown, DownMod
  <2> QED BY <2>1, <1>1 DEF icv_n
<1>2. CASE ~back
  <2>1. Down(la) <= Down(la + n) /\ Down(la + n) <= Up(la + n) /\ Up(la + n) \in Int
        /\ Down(la) \in Int /\ Down(la + n) \in Int
    BY DownMono, UpDown, DownMod
  <2>2. Up(la + n) = Down(la + n - 1) + 1 /\ Down(la + n - 1) \in Int
    BY UpDown, DownMod
  <2> QED BY <2>1, <2>2, <1>2 DEF icv_n
<1> QED BY <1>1, <1>2

-----------------------------------------------------------------------------
(***************************************************************************)
(* What copyICVs does to the ICVs.                                         *)
(***************************************************************************)
Pointers == [tag : Tags \cup {LA}, la : Int]

LEMMA EntryIndex ==
  ASSUME NEW la \in Int, NEW i \in Int, NEW back \in BOOLEAN
  PROVE  /\ la_to_icv_i(la, i, back) \in Int
         /\ ~back => la_to_icv_i(la, i, back) = Down(la) + i
<1>1. G \in Nat \ {0}
  BY RepMovsAssumption
<1>2. la + i * G \in Int /\ la - i * G \in Int
  BY <1>1
<1>3. Down(la + i * G) \in Int /\ Down(la - i * G) \in Int
  BY <1>2, DownMod
<1>4. Down(la + i * G) = Down(la) + i
  BY DownAdd
<1> QED BY <1>3, <1>4 DEF la_to_icv_i

LEMMA EntryType ==
  ASSUME NEW dst \in Pointers, NEW old
  PROVE  dst_to_icv(dst, old) \in Icvs
BY DEF dst_to_icv, Icvs, Pointers

LEMMA CopyEntryType ==
  ASSUME NEW m \in [Granule -> Icvs], NEW dst \in Pointers, NEW src \in Pointers,
         NEW back \in BOOLEAN, NEW i \in Int
  PROVE  CopyEntry(m, dst, src, back, i) \in [Granule -> Icvs]
<1> DEFINE d == la_to_icv_i(dst.la, i, back)
<1> DEFINE v == dst_to_icv(dst, m[la_to_icv_i(src.la, i, back)])
<1>1. v \in Icvs
  BY EntryType
<1>2. CopyEntry(m, dst, src, back, i) = [m EXCEPT ![d] = v]
  BY DEF CopyEntry
<1> HIDE DEF d, v, Icvs
<1> QED BY <1>1, <1>2

LEMMA CopyEntryUp ==
  ASSUME NEW m \in [Granule -> Icvs], NEW dst \in Pointers, NEW src \in Pointers,
         NEW back \in BOOLEAN, ~back, NEW i \in Int, NEW g \in Granule
  PROVE  CopyEntry(m, dst, src, back, i)[g] =
           IF g = Down(dst.la) + i THEN dst_to_icv(dst, m[Down(src.la) + i]) ELSE m[g]
<1>0. dst.la \in Int /\ src.la \in Int
  BY DEF Pointers
<1>1. la_to_icv_i(dst.la, i, back) = Down(dst.la) + i
      /\ la_to_icv_i(src.la, i, back) = Down(src.la) + i
  BY EntryIndex, <1>0
<1> DEFINE v == dst_to_icv(dst, m[Down(src.la) + i])
<1>2. CopyEntry(m, dst, src, back, i) = [m EXCEPT ![Down(dst.la) + i] = v]
  BY <1>1 DEF CopyEntry
<1> HIDE DEF v, Icvs
<1>3. CopyEntry(m, dst, src, back, i)[g] = IF g = Down(dst.la) + i THEN v ELSE m[g]
  BY <1>2
<1> QED BY <1>3 DEF v

\* The first i entries of an upward copy are made, those of r from those of m, and no others.
Kept(r, m, dst, i) ==
  \A g \in Granule : g \notin Down(dst.la) .. Down(dst.la) + i - 1 => r[g] = m[g]

Made(r, m, dst, src, i) ==
  \A j \in 0 .. i - 1 :
    Down(dst.la) + j \in Granule =>
      r[Down(dst.la) + j] = dst_to_icv(dst, m[Down(src.la) + j])

\* No entry is written before it is read.
Apart(dst, src, k) ==
  \A j \in 0 .. k - 1 :
    /\ Down(src.la) + j \in Granule
    /\ Down(src.la) + j \notin Down(dst.la) .. Down(dst.la) + k - 1

LEMMA OnePass ==
  ASSUME NEW m \in [Granule -> Icvs], NEW r \in [Granule -> Icvs],
         NEW dst \in Pointers, NEW src \in Pointers, NEW back \in BOOLEAN, ~back,
         NEW k \in Nat, NEW i \in 0 .. k - 1, Kept(r, m, dst, i)
  PROVE  /\ Kept(CopyEntry(r, dst, src, back, i), m, dst, i + 1)
         /\ Apart(dst, src, k) /\ Made(r, m, dst, src, i)
            => Made(CopyEntry(r, dst, src, back, i), m, dst, src, i + 1)
<1>0. Down(dst.la) \in Int /\ Down(src.la) \in Int
  BY DownMod DEF Pointers
<1> DEFINE s == CopyEntry(r, dst, src, back, i)
<1>1. \A g \in Granule : s[g] = IF g = Down(dst.la) + i
                                THEN dst_to_icv(dst, r[Down(src.la) + i]) ELSE r[g]
  BY CopyEntryUp
<1> HIDE DEF s
<1>2. Kept(s, m, dst, i + 1)
  <2> SUFFICES ASSUME NEW g \in Granule, g \notin Down(dst.la) .. Down(dst.la) + (i + 1) - 1
               PROVE  s[g] = m[g]
    BY DEF Kept
  <2>1. g \in Int
    BY RepMovsAssumption
  <2>2. g # Down(dst.la) + i /\ g \notin Down(dst.la) .. Down(dst.la) + i - 1
    BY <2>1, <1>0
  <2> QED BY <2>2, <1>1 DEF Kept
<1>3. ASSUME Apart(dst, src, k), Made(r, m, dst, src, i)
      PROVE  Made(s, m, dst, src, i + 1)
  <2> SUFFICES ASSUME NEW j \in 0 .. (i + 1) - 1, Down(dst.la) + j \in Granule
               PROVE  s[Down(dst.la) + j] = dst_to_icv(dst, m[Down(src.la) + j])
    BY DEF Made
  <2>1. CASE j = i
    <3>1. Down(src.la) + i \in Granule
          /\ Down(src.la) + i \notin Down(dst.la) .. Down(dst.la) + k - 1
      BY <1>3 DEF Apart
    <3>2. Down(src.la) + i \notin Down(dst.la) .. Down(dst.la) + i - 1
      BY <3>1, <1>0
    <3>3. r[Down(src.la) + i] = m[Down(src.la) + i]
      BY <3>1, <3>2 DEF Kept
    <3> QED BY <3>3, <2>1, <1>1
  <2>2. CASE j # i
    <3>1. j \in 0 .. i - 1 /\ Down(dst.la) + j # Down(dst.la) + i
      BY <2>2, <1>0
    <3>2. s[Down(dst.la) + j] = r[Down(dst.la) + j]
      BY <3>1, <1>1
    <3> QED BY <3>1, <3>2, <1>3 DEF Made
  <2> QED BY <2>1, <2>2
<1> QED BY <1>2, <1>3 DEF s

LEMMA CopyEntriesDo ==
  ASSUME NEW m \in [Granule -> Icvs], NEW dst \in Pointers, NEW src \in Pointers,
         NEW back \in BOOLEAN, NEW k \in Nat
  PROVE  /\ CopyEntries(m, dst, src, back, k) \in [Granule -> Icvs]
         /\ ~back => Kept(CopyEntries(m, dst, src, back, k), m, dst, k)
         /\ ~back /\ Apart(dst, src, k) => Made(CopyEntries(m, dst, src, back, k), m, dst, src, k)
<1>0. Down(dst.la) \in Int
  BY DownMod DEF Pointers
<1>1. PICK f : /\ CopyEntries(m, dst, src, back, k) = f[k]
               /\ f[0] = m
               /\ \A i \in 0 .. k - 1 : f[i + 1] = CopyEntry(f[i], dst, src, back, i)
  BY EntriesByPasses
<1> DEFINE P(i) == /\ f[i] \in [Granule -> Icvs]
                   /\ ~back => Kept(f[i], m, dst, i)
                   /\ ~back /\ Apart(dst, src, k) => Made(f[i], m, dst, src, i)
<1> DEFINE Bad == {i \in 0 .. k : ~P(i)}
<1>2. P(0)
  <2>1. f[0] \in [Granule -> Icvs]
    BY <1>1
  <2>2. Kept(f[0], m, dst, 0)
    BY <1>1 DEF Kept
  <2>3. Made(f[0], m, dst, src, 0)
    BY DEF Made
  <2> QED BY <2>1, <2>2, <2>3
<1>3. ASSUME NEW i \in 0 .. k - 1, P(i)
      PROVE  P(i + 1)
  <2>1. f[i + 1] = CopyEntry(f[i], dst, src, back, i)
    BY <1>1
  <2>2. f[i] \in [Granule -> Icvs]
    BY <1>3
  <2>3. CopyEntry(f[i], dst, src, back, i) \in [Granule -> Icvs]
    BY <2>2, CopyEntryType
  <2>4. ASSUME ~back
        PROVE  Kept(f[i + 1], m, dst, i + 1)
               /\ (Apart(dst, src, k) => Made(f[i + 1], m, dst, src, i + 1))
    <3>1. Kept(f[i], m, dst, i)
      BY <2>4, <1>3
    <3>2. Kept(CopyEntry(f[i], dst, src, back, i), m, dst, i + 1)
          /\ (Apart(dst, src, k) /\ Made(f[i], m, dst, src, i)
              => Made(CopyEntry(f[i], dst, src, back, i), m, dst, src, i + 1))
      BY <2>2, <2>4, <3>1, OnePass
    <3> QED BY <3>2, <2>1, <2>4, <1>3
  <2> QED BY <2>1, <2>3, <2>4
<1> HIDE DEF P
<1>4. ASSUME Bad # {}
      PROVE  FALSE
  <2>1. PICK i \in Bad : \A j \in Bad : i <= j
    <3>1. Bad \in SUBSET Nat
      OBVIOUS
    <3> QED BY <1>4, <3>1, Least
  <2>2. i \in 0 .. k /\ ~P(i)
    BY <2>1
  <2>3. i # 0
    BY <2>2, <1>2
  <2>4. i - 1 \in 0 .. k - 1 /\ i - 1 \in 0 .. k /\ ~ (i <= i - 1) /\ (i - 1) + 1 = i
    BY <2>2, <2>3
  <2>5. P(i - 1)
    BY <2>4, <2>1
  <2>6. P((i - 1) + 1)
    BY <2>4, <2>5, <1>3
  <2> QED BY <2>6, <2>4, <2>2
<1>5. k \in 0 .. k
  OBVIOUS
<1>6. P(k)
  BY <1>4, <1>5
<1> QED BY <1>6, <1>1 DEF P

\* The effect of copyICVs for an upward copy of some bytes.
LEMMA CopyIcvsDo ==
  ASSUME NEW m \in [Granule -> Icvs], NEW dst \in Pointers, NEW src \in Pointers,
         NEW n \in Nat, NEW back \in BOOLEAN
  PROVE  /\ copyICVs(m, dst, src, n, back) \in [Granule -> Icvs]
         /\ ~back => Kept(copyICVs(m, dst, src, n, back), m, dst, icv_n(dst.la, n, back))
         /\ ~back /\ icv_n(src.la, n, back) = icv_n(dst.la, n, back)
            /\ Apart(dst, src, icv_n(dst.la, n, back))
            => Made(copyICVs(m, dst, src, n, back), m, dst, src, icv_n(dst.la, n, back))
<1> DEFINE sn == icv_n(src.la, n, back)
<1> DEFINE dn == icv_n(dst.la, n, back)
<1>0. dst.la \in Int /\ src.la \in Int /\ Down(dst.la) \in Int
  BY DownMod DEF Pointers
<1>1. sn \in Nat /\ dn \in Nat
  BY <1>0, EntryCount
<1> DEFINE k == IF sn < dn THEN sn ELSE dn
<1> DEFINE done == CopyEntries(m, dst, src, back, k)
<1> DEFINE at == la_to_icv_i(dst.la, sn, back)
<1> DEFINE v == dst_to_icv(dst, done[la_to_icv_i(src.la, 1, ~back)])
<1>2. copyICVs(m, dst, src, n, back) = IF sn >= dn THEN done ELSE [done EXCEPT ![at] = v]
  BY DEF copyICVs
<1>3. v \in Icvs
  BY EntryType
<1>4. ~back => at = Down(dst.la) + sn
  BY EntryIndex, <1>0, <1>1
<1> HIDE DEF sn, dn, v, at
<1>5. k \in Nat
  BY <1>1
<1> HIDE DEF k
<1>6. /\ done \in [Granule -> Icvs]
      /\ ~back => Kept(done, m, dst, k)
      /\ ~back /\ Apart(dst, src, k) => Made(done, m, dst, src, k)
  BY <1>5, CopyEntriesDo
<1> HIDE DEF done, Icvs
<1>7. CASE sn >= dn
  <2>1. k = dn
    BY <1>7, <1>1 DEF k
  <2> QED BY <2>1, <1>7, <1>6, <1>2 DEF dn
<1>8. CASE ~(sn >= dn)
  <2>1. k = sn /\ sn # dn
    BY <1>8, <1>1 DEF k
  <2>2. copyICVs(m, dst, src, n, back) = [done EXCEPT ![at] = v]
    BY <1>8, <1>2
  <2>3. [done EXCEPT ![at] = v] \in [Granule -> Icvs]
    BY <1>6, <1>3
  <2>4. ASSUME ~back
        PROVE  Kept([done EXCEPT ![at] = v], m, dst, dn)
    <3> SUFFICES ASSUME NEW g \in Granule, g \notin Down(dst.la) .. Down(dst.la) + dn - 1
                 PROVE  [done EXCEPT ![at] = v][g] = m[g]
      BY DEF Kept
    <3>1. g \in Int
      BY RepMovsAssumption
    <3>2. g # at /\ g \notin Down(dst.la) .. Down(dst.la) + k - 1
      BY <3>1, <1>0, <1>1, <1>4, <1>8, <2>1, <2>4
    <3>3. done[g] = m[g]
      BY <3>2, <1>6, <2>4 DEF Kept
    <3> QED BY <3>2, <3>3, <1>6
  <2> QED BY <2>1, <2>2, <2>3, <2>4 DEF sn, dn
<1> QED BY <1>7, <1>8

UpGranules(p, n) == GranulesOf(Range(p, n, FALSE))

LEMMA UpGranulesAre ==
  ASSUME NEW p \in Pointers, NEW n \in Nat, n > 0
  PROVE  /\ UpGranules(p, n) = Down(p.la) .. Down(p.la + n - 1)
         /\ Down(p.la) \in Int /\ Down(p.la + n - 1) \in Int
         /\ p.la \in Int
<1>1. p.la \in Int
  BY DEF Pointers
<1>2. Range(p, n, FALSE) = p.la .. p.la + n - 1
  BY DEF Range
<1>3. GranulesOf(p.la .. p.la + n - 1) = Down(p.la) .. Down(p.la + n - 1)
  BY <1>1, GranulesOfRange
<1>4. p.la + n - 1 \in Int
  BY <1>1
<1> QED BY <1>1, <1>2, <1>3, <1>4, DownMod DEF UpGranules

Fix(m, i) == copyICVs(m, i.dst, i.src, i.n, i.back)

LEMMA MovesFields ==
  ASSUME NEW i \in Moves
  PROVE  /\ i.dst \in Pointers /\ i.src \in Pointers /\ i.back \in BOOLEAN
         /\ i.n \in Nat /\ i.n \in 0 .. MaxN /\ i.mode \in Modes
BY RepMovsAssumption DEF Moves, Pointers

LEMMA FixType ==
  ASSUME NEW m \in [Granule -> Icvs], NEW i \in Moves
  PROVE  Fix(m, i) \in [Granule -> Icvs]
BY MovesFields, CopyIcvsDo DEF Fix

\* An upward copy of some bytes changes no ICV outside its destination.
LEMMA FixKeeps ==
  ASSUME NEW m \in [Granule -> Icvs], NEW i \in Moves, ~i.back, i.n > 0,
         NEW g \in Granule, g \notin UpGranules(i.dst, i.n)
  PROVE  Fix(m, i)[g] = m[g]
<1> DEFINE dst == i.dst
<1> DEFINE n == i.n
<1> DEFINE back == i.back
<1>0. dst \in Pointers /\ i.src \in Pointers /\ n \in Nat /\ back \in BOOLEAN /\ ~back /\ n > 0
  BY MovesFields
<1> HIDE DEF dst, n, back
<1>1. UpGranules(dst, n) = Down(dst.la) .. Down(dst.la + n - 1) /\ dst.la \in Int
      /\ Down(dst.la) \in Int /\ Down(dst.la + n - 1) \in Int
  BY <1>0, UpGranulesAre
<1>2. icv_n(dst.la, n, back) = Down(dst.la + n - 1) - Down(dst.la) + 1
  BY <1>0, <1>1, EntryCount
<1>3. Kept(copyICVs(m, dst, i.src, n, back), m, dst, icv_n(dst.la, n, back))
  BY <1>0, CopyIcvsDo
<1>4. g \in Int /\ g \notin Down(dst.la) .. Down(dst.la + n - 1)
  BY <1>1, RepMovsAssumption DEF dst, n
<1>5. g \notin Down(dst.la) .. Down(dst.la) + icv_n(dst.la, n, back) - 1
  BY <1>1, <1>2, <1>4
<1>6. copyICVs(m, dst, i.src, n, back)[g] = m[g]
  BY <1>3, <1>5 DEF Kept
<1> QED BY <1>6 DEF Fix, dst, n, back

\* Pointers at the same place in their granules are at the same place all along.
LEMMA SameOffset ==
  ASSUME NEW s \in Int, NEW d \in Int, (d - s) % G = 0, NEW x \in Int
  PROVE  Down(d + x) = Down(s + x) + (Down(d) - Down(s))
<1>1. d - s \in Int /\ s + x \in Int
  OBVIOUS
<1>2. d - s = G * Down(d - s) + ((d - s) % G) /\ Down(d - s) \in Int
  BY <1>1, DownMod
<1> DEFINE q == Down(d - s)
<1> HIDE DEF q
<1>3. G \in Int /\ q \in Int /\ d = s + q * G
  <2>1. G \in Int /\ q \in Int
    BY <1>2, RepMovsAssumption DEF q
  <2>2. d - s = G * q + 0
    BY <1>2 DEF q
  <2> QED BY <2>1, <2>2
<1>4. Down(s + q * G) = Down(s) + q /\ Down((s + x) + q * G) = Down(s + x) + q
  BY <1>3, <1>1, DownAdd
<1>5. (s + x) + q * G = d + x
  BY <1>3
<1>6. Down(s) \in Int /\ Down(s + x) \in Int
  BY <1>1, DownMod
<1> QED BY <1>3, <1>4, <1>5, <1>6

LEMMA InsideGranules ==
  ASSUME NEW i \in Moves, Inside(i), ~i.back, i.n > 0
  PROVE  UpGranules(i.dst, i.n) \subseteq Granule /\ UpGranules(i.src, i.n) \subseteq Granule
<1>1. Range(i.dst, i.n, FALSE) = Range(i.dst, i.n, i.back)
      /\ Range(i.src, i.n, FALSE) = Range(i.src, i.n, i.back)
  BY DEF Range
<1>2. Range(i.dst, i.n, i.back) \subseteq Byte /\ Range(i.src, i.n, i.back) \subseteq Byte
  BY RepMovsAssumption DEF Inside, DstRange, SrcRange
<1>3. \A b \in Byte : b \div G \in Granule
  BY ByteGranule DEF Down
<1> QED BY <1>1, <1>2, <1>3 DEF UpGranules, GranulesOf

\* What a source granule's ICV becomes.
Becomes(i, old) == IF old = Inv THEN Inv ELSE i.dst.tag

Offset(i) == Down(i.dst.la) - Down(i.src.la)

LEMMA IcvsCopiedIs ==
  ASSUME NEW m, NEW i
  PROVE  IcvsCopied(m, i) <=>
           \A g \in UpGranules(i.src, i.n) : m[g + Offset(i)] = Becomes(i, m[g])
BY DEF IcvsCopied, UpGranules, Offset, Becomes

\* An upward copy between separate areas, equally aligned, copies all ICVs.
LEMMA FixCopies ==
  ASSUME NEW m \in [Granule -> Icvs], NEW i \in Moves, Inside(i), Separate(i)
  PROVE  IcvsCopied(Fix(m, i), i)
<1> DEFINE dst == i.dst
<1> DEFINE src == i.src
<1> DEFINE n == i.n
<1> DEFINE back == i.back
<1>0. dst \in Pointers /\ src \in Pointers /\ n \in Nat /\ back \in BOOLEAN /\ ~back /\ n > 0
      /\ dst.tag # LA
  BY MovesFields, RepMovsAssumption DEF Separate, Inside
<1>1. UpGranules(dst, n) \subseteq Granule /\ UpGranules(src, n) \subseteq Granule
  BY <1>0, InsideGranules
<1>2. UpGranules(src, n) \cap UpGranules(dst, n) = {} /\ (dst.la - src.la) % G = 0
  BY DEF Separate, UpGranules
<1>3. \A g \in Granule : g \notin UpGranules(dst, n) => Fix(m, i)[g] = m[g]
  BY <1>0, FixKeeps
<1> DEFINE r == Fix(m, i)
<1>4. r = copyICVs(m, dst, src, n, back)
  BY DEF Fix
<1> HIDE DEF dst, src, n, back, r
<1>5. /\ UpGranules(dst, n) = Down(dst.la) .. Down(dst.la + n - 1)
      /\ UpGranules(src, n) = Down(src.la) .. Down(src.la + n - 1)
      /\ Down(dst.la) \in Int /\ Down(dst.la + n - 1) \in Int
      /\ Down(src.la) \in Int /\ Down(src.la + n - 1) \in Int
      /\ dst.la \in Int /\ src.la \in Int
  BY <1>0, UpGranulesAre
<1> DEFINE dn == icv_n(dst.la, n, back)
<1> DEFINE sn == icv_n(src.la, n, back)
<1>6. dn = Down(dst.la + n - 1) - Down(dst.la) + 1 /\ sn = Down(src.la + n - 1) - Down(src.la) + 1
      /\ dn \in Nat
  BY <1>0, <1>5, EntryCount
<1>7. Down(dst.la + (n - 1)) = Down(src.la + (n - 1)) + (Down(dst.la) - Down(src.la))
  <2>1. n - 1 \in Int
    BY <1>0
  <2> DEFINE d == dst.la
  <2> DEFINE s == src.la
  <2>2. d \in Int /\ s \in Int /\ (d - s) % G = 0
    BY <1>2, <1>5
  <2> HIDE DEF d, s
  <2>3. Down(d + (n - 1)) = Down(s + (n - 1)) + (Down(d) - Down(s))
    BY <2>1, <2>2, SameOffset
  <2> QED BY <2>3 DEF d, s
<1>8. dst.la + (n - 1) = dst.la + n - 1 /\ src.la + (n - 1) = src.la + n - 1
  BY <1>0, <1>5
<1>9. sn = dn
  BY <1>5, <1>6, <1>7, <1>8
<1>10. Apart(dst, src, dn)
  <2> SUFFICES ASSUME NEW j \in 0 .. dn - 1
               PROVE  Down(src.la) + j \in Granule
                      /\ Down(src.la) + j \notin Down(dst.la) .. Down(dst.la) + dn - 1
    BY DEF Apart
  <2> HIDE DEF dn, sn
  <2>1. Down(src.la) + j \in UpGranules(src, n)
    BY <1>5, <1>6, <1>9
  <2>2. UpGranules(dst, n) = Down(dst.la) .. Down(dst.la) + dn - 1
    BY <1>5, <1>6
  <2> QED BY <2>1, <2>2, <1>1, <1>2
<1>11. Made(r, m, dst, src, dn)
  BY <1>0, <1>4, <1>9, <1>10, CopyIcvsDo
<1> HIDE DEF dn, sn
<1>12. ASSUME NEW g \in UpGranules(src, n)
       PROVE  r[g + Offset(i)] = Becomes(i, r[g])
  <2>1. g - Down(src.la) \in 0 .. dn - 1 /\ Down(src.la) + (g - Down(src.la)) = g
        /\ Down(dst.la) + (g - Down(src.la)) = g + (Down(dst.la) - Down(src.la))
    BY <1>5, <1>6, <1>9
  <2>2. g + (Down(dst.la) - Down(src.la)) \in UpGranules(dst, n)
    <3> DEFINE u == Down(dst.la)
    <3> DEFINE w == Down(src.la)
    <3> HIDE DEF u, w
    <3>1. u \in Int /\ w \in Int /\ g - w \in 0 .. dn - 1 /\ g \in Int
          /\ UpGranules(dst, n) = u .. Down(dst.la + n - 1) /\ Down(dst.la + n - 1) = u + dn - 1
      <4>1. u \in Int /\ w \in Int
        BY <1>5 DEF u, w
      <4>2. g - w \in 0 .. dn - 1
        BY <2>1 DEF w
      <4>3. g \in Int
        BY <1>1, RepMovsAssumption
      <4>4. UpGranules(dst, n) = u .. Down(dst.la + n - 1)
        BY <1>5 DEF u
      <4>5. Down(dst.la + n - 1) = u + dn - 1
        BY <1>5, <1>6 DEF u
      <4> QED BY <4>1, <4>2, <4>3, <4>4, <4>5
    <3>2. g + (u - w) \in u .. u + dn - 1
      <4>1. u \in Int /\ w \in Int /\ g \in Int /\ dn \in Int
            /\ 0 <= g - w /\ g - w <= dn - 1
        BY <3>1, <1>6
      <4> QED BY <4>1
    <3> QED BY <3>1, <3>2 DEF u, w
  <2>3. r[g + (Down(dst.la) - Down(src.la))] = dst_to_icv(dst, m[g])
    BY <1>11, <2>1, <2>2, <1>1 DEF Made
  <2>4. g \in Granule /\ g \notin UpGranules(dst, n)
    BY <1>1, <1>2
  <2>5. r[g] = m[g]
    BY <2>4, <1>3 DEF r
  <2>6. dst_to_icv(dst, m[g]) = IF m[g] = Inv THEN Inv ELSE dst.tag
    BY <1>0 DEF dst_to_icv
  <2> QED BY <2>3, <2>5, <2>6 DEF Offset, Becomes, dst, src
<1> QED BY <1>12, IcvsCopiedIs DEF r, src, n

\* What is left of a copy ends where the copy does and lies at the same distance.
LEMMA RestUp ==
  ASSUME NEW i \in Moves, NEW j \in Moves, RestOf(i, j), Separate(j), i.n > 0
  PROVE  /\ ~i.back /\ ~j.back /\ j.n > 0 /\ i.dst.tag = j.dst.tag
         /\ UpGranules(i.dst, i.n) \subseteq UpGranules(j.dst, j.n)
         /\ UpGranules(i.src, i.n) \subseteq UpGranules(j.src, j.n)
         /\ Offset(i) = Offset(j) /\ Offset(j) \in Int
         /\ \A g \in UpGranules(j.src, j.n) : g + Offset(j) \in UpGranules(i.dst, i.n)
                                               => g \in UpGranules(i.src, i.n)
         /\ \A g \in UpGranules(j.src, j.n) : g + Offset(j) \in UpGranules(j.dst, j.n)
         /\ Separate(i)
<1> DEFINE s == j.src.la
<1> DEFINE d == j.dst.la
<1> DEFINE n == j.n
<1> DEFINE k == j.n - i.n
<1>0. /\ i.dst \in Pointers /\ i.src \in Pointers /\ j.dst \in Pointers /\ j.src \in Pointers
      /\ n \in Nat /\ i.n \in Nat /\ s \in Int /\ d \in Int
  <2>1. /\ i.dst \in Pointers /\ i.src \in Pointers /\ j.dst \in Pointers /\ j.src \in Pointers
        /\ n \in Nat /\ i.n \in Nat
    BY MovesFields
  <2> QED BY <2>1 DEF Pointers
<1>1. k \in Nat /\ n > 0 /\ i.n > 0
  BY <1>0 DEF RestOf
<1>2. ~i.back /\ ~j.back /\ i.dst.tag = j.dst.tag /\ i.dst.la = d + k /\ i.src.la = s + k
  BY DEF RestOf, Along, Separate
<1>3. (d - s) % G = 0 /\ UpGranules(j.src, j.n) \cap UpGranules(j.dst, j.n) = {}
  BY DEF Separate, UpGranules
<1>4. /\ UpGranules(j.dst, j.n) = Down(d) .. Down(d + n - 1)
      /\ UpGranules(j.src, j.n) = Down(s) .. Down(s + n - 1)
      /\ UpGranules(i.dst, i.n) = Down(i.dst.la) .. Down(i.dst.la + i.n - 1)
      /\ UpGranules(i.src, i.n) = Down(i.src.la) .. Down(i.src.la + i.n - 1)
  BY <1>0, <1>1, UpGranulesAre
<1>5. i.dst.la + i.n - 1 = d + (n - 1) /\ i.src.la + i.n - 1 = s + (n - 1)
      /\ d + n - 1 = d + (n - 1) /\ s + n - 1 = s + (n - 1)
  BY <1>0, <1>2
<1> HIDE DEF k, s, d
<1>6. Down(d + k) = Down(s + k) + (Down(d) - Down(s))
      /\ Down(d + (n - 1)) = Down(s + (n - 1)) + (Down(d) - Down(s))
  <2>1. n - 1 \in Int /\ k \in Int
    BY <1>0, <1>1
  <2> HIDE DEF n
  <2> QED BY <2>1, <1>0, <1>3, SameOffset
<1> DEFINE D0 == Down(d)
<1> DEFINE D1 == Down(d + k)
<1> DEFINE D2 == Down(d + (n - 1))
<1> DEFINE S0 == Down(s)
<1> DEFINE S1 == Down(s + k)
<1> DEFINE S2 == Down(s + (n - 1))
<1>7. D0 \in Int /\ D1 \in Int /\ D2 \in Int /\ S0 \in Int /\ S1 \in Int /\ S2 \in Int
      /\ D0 <= D1 /\ S0 <= S1
  <2>1. d + k \in Int /\ d <= d + k /\ s + k \in Int /\ s <= s + k
        /\ d + (n - 1) \in Int /\ s + (n - 1) \in Int
    BY <1>0, <1>1
  <2> QED BY <2>1, <1>0, DownMod, DownMono
<1>8. /\ UpGranules(j.dst, j.n) = D0 .. D2 /\ UpGranules(j.src, j.n) = S0 .. S2
      /\ UpGranules(i.dst, i.n) = D1 .. D2 /\ UpGranules(i.src, i.n) = S1 .. S2
  BY <1>4, <1>5, <1>2
<1>9. D1 = S1 + (D0 - S0) /\ D2 = S2 + (D0 - S0)
  BY <1>6
<1>10. Offset(j) = D0 - S0 /\ Offset(i) = D1 - S1
  BY <1>2 DEF Offset, d, s
<1>11. (i.dst.la - i.src.la) % G = 0
  <2>1. i.dst.la - i.src.la = d - s
    BY <1>0, <1>1, <1>2
  <2> QED BY <2>1, <1>3
<1> HIDE DEF D0, D1, D2, S0, S1, S2, n
<1>12. D1 .. D2 \subseteq D0 .. D2 /\ S1 .. S2 \subseteq S0 .. S2
  BY <1>7
<1>13. Offset(i) = Offset(j) /\ Offset(j) \in Int
  BY <1>7, <1>9, <1>10
<1>14. ASSUME NEW g \in S0 .. S2, g + (D0 - S0) \in D1 .. D2
       PROVE  g \in S1 .. S2
  BY <1>7, <1>9, <1>14
<1>18. ASSUME NEW g \in S0 .. S2
       PROVE  g + (D0 - S0) \in D0 .. D2
  BY <1>7, <1>9
<1>15. Separate(i)
  <2>1. UpGranules(i.src, i.n) \cap UpGranules(i.dst, i.n) = {}
    BY <1>3, <1>8, <1>12
  <2> QED BY <2>1, <1>1, <1>2, <1>11 DEF Separate, UpGranules
<1>16. j.n > 0
  BY <1>1 DEF n
<1>17. /\ UpGranules(i.dst, i.n) \subseteq UpGranules(j.dst, j.n)
       /\ UpGranules(i.src, i.n) \subseteq UpGranules(j.src, j.n)
       /\ \A g \in UpGranules(j.src, j.n) : g + Offset(j) \in UpGranules(i.dst, i.n)
                                               => g \in UpGranules(i.src, i.n)
       /\ \A g \in UpGranules(j.src, j.n) : g + Offset(j) \in UpGranules(j.dst, j.n)
  BY <1>8, <1>10, <1>12, <1>14, <1>18
<1> QED BY <1>2, <1>13, <1>15, <1>16, <1>17

\* Copying the ICVs of the rest once more, after those of the whole, changes nothing.
LEMMA FixRest ==
  ASSUME NEW m \in [Granule -> Icvs], NEW i \in Moves, NEW j \in Moves, Inside(i), Inside(j),
         RestOf(i, j), Separate(j), i.n > 0, IcvsCopied(m, j)
  PROVE  IcvsCopied(Fix(m, i), j)
<1>1. /\ ~i.back /\ ~j.back /\ j.n > 0 /\ i.dst.tag = j.dst.tag
      /\ UpGranules(i.dst, i.n) \subseteq UpGranules(j.dst, j.n)
      /\ Offset(i) = Offset(j)
      /\ Separate(i)
  BY RestUp
<1>2. \A g \in UpGranules(j.src, j.n) : g + Offset(j) \in UpGranules(i.dst, i.n)
                                          => g \in UpGranules(i.src, i.n)
  BY RestUp
<1>3. UpGranules(j.src, j.n) \subseteq Granule
  BY <1>1, InsideGranules
<1>4. UpGranules(j.src, j.n) \cap UpGranules(j.dst, j.n) = {}
  BY DEF Separate, UpGranules
<1>5. \A g \in Granule : g \notin UpGranules(i.dst, i.n) => Fix(m, i)[g] = m[g]
  BY <1>1, FixKeeps
<1>6. \A g \in UpGranules(i.src, i.n) : Fix(m, i)[g + Offset(i)] = Becomes(i, Fix(m, i)[g])
  BY <1>1, FixCopies, IcvsCopiedIs
<1>7. \A g \in UpGranules(j.src, j.n) : m[g + Offset(j)] = Becomes(j, m[g])
  BY IcvsCopiedIs
<1>8. ASSUME NEW g \in UpGranules(j.src, j.n)
      PROVE  Fix(m, i)[g + Offset(j)] = Becomes(j, Fix(m, i)[g])
  <2>1. Fix(m, i)[g] = m[g]
    BY <1>1, <1>3, <1>4, <1>5
  <2>2. CASE g + Offset(j) \in UpGranules(i.dst, i.n)
    <3>1. Fix(m, i)[g + Offset(i)] = Becomes(i, Fix(m, i)[g])
      BY <2>2, <1>2, <1>6
    <3> QED BY <3>1, <1>1 DEF Becomes
  <2>3. CASE g + Offset(j) \notin UpGranules(i.dst, i.n)
    <3>1. g + Offset(j) \in Granule
      <4>1. UpGranules(j.dst, j.n) \subseteq Granule
        BY <1>1, InsideGranules
      <4>2. g + Offset(j) \in UpGranules(j.dst, j.n)
        BY RestUp
      <4> QED BY <4>1, <4>2
    <3>2. Fix(m, i)[g + Offset(j)] = m[g + Offset(j)]
      BY <3>1, <2>3, <1>5
    <3> QED BY <3>2, <2>1, <1>7
  <2> QED BY <2>2, <2>3
<1> QED BY <1>8, IcvsCopiedIs

-----------------------------------------------------------------------------
(***************************************************************************)
(* The copies.                                                             *)
(***************************************************************************)
LEMMA NoneMoves == None \in Moves /\ None.mode = "NONE"
BY RepMovsAssumption DEF None, Move, Moves, Modes

LEMMA InsideIsCopy ==
  ASSUME NEW i, Inside(i)
  PROVE  i # None
BY NoneMoves DEF Inside

LEMMA InsideBytes ==
  ASSUME NEW i \in Moves, Inside(i)
  PROVE  DstRange(i) \subseteq Byte /\ SrcRange(i) \subseteq Byte
BY RepMovsAssumption DEF Inside

\* The next byte of a copy that is not over.
LEMMA NextByte ==
  ASSUME NEW i \in Moves, i.n > 0
  PROVE  i.dst.la \in DstRange(i) /\ i.src.la \in SrcRange(i)
<1>1. i.dst.la \in Int /\ i.src.la \in Int /\ i.n \in Nat /\ i.back \in BOOLEAN
  BY MovesFields DEF Pointers
<1>2. CASE i.back
  BY <1>1, <1>2 DEF DstRange, SrcRange, Range
<1>3. CASE ~i.back
  BY <1>1, <1>3 DEF DstRange, SrcRange, Range
<1> QED BY <1>1, <1>2, <1>3

Stepped(p, back) == [tag |-> p.tag, la |-> IF back THEN p.la - 1 ELSE p.la + 1]

LEMMA SteppedIs ==
  ASSUME NEW p \in Pointers, NEW back
  PROVE  /\ Stepped(p, back) \in Pointers
         /\ Stepped(p, back).tag = p.tag
         /\ Stepped(p, back).la = IF back THEN p.la - 1 ELSE p.la + 1
         /\ [p EXCEPT !.la = IF back THEN @ - 1 ELSE @ + 1] = Stepped(p, back)
BY DEF Stepped, Pointers

LEMMA RestFields ==
  ASSUME NEW i \in Moves
  PROVE  /\ Rest(i).mode = i.mode /\ Rest(i).back = i.back /\ Rest(i).n = i.n - 1
         /\ Rest(i).dst.tag = i.dst.tag /\ Rest(i).src.tag = i.src.tag
         /\ Rest(i).dst.la = IF i.back THEN i.dst.la - 1 ELSE i.dst.la + 1
         /\ Rest(i).src.la = IF i.back THEN i.src.la - 1 ELSE i.src.la + 1
         /\ (i.n > 0 => Rest(i) \in Moves)
<1>1. i \in [mode : Modes, dst : Pointers, src : Pointers, n : 0 .. MaxN, back : BOOLEAN]
  BY DEF Moves, Pointers
<1>2. i.dst \in Pointers /\ i.src \in Pointers
  BY MovesFields
<1>3. Rest(i) = [i EXCEPT !.dst = Stepped(i.dst, i.back), !.src = Stepped(i.src, i.back),
                          !.n = i.n - 1]
  <2>1. Rest(i) = [i EXCEPT !.dst = [i.dst EXCEPT !.la = IF i.back THEN @ - 1 ELSE @ + 1],
                            !.src = [i.src EXCEPT !.la = IF i.back THEN @ - 1 ELSE @ + 1],
                            !.n = i.n - 1]
    BY <1>1 DEF Rest
  <2> QED BY <2>1, <1>2, SteppedIs
<1> DEFINE d == Stepped(i.dst, i.back)
<1> DEFINE s == Stepped(i.src, i.back)
<1>4. d \in Pointers /\ s \in Pointers
      /\ d.tag = i.dst.tag /\ d.la = (IF i.back THEN i.dst.la - 1 ELSE i.dst.la + 1)
      /\ s.tag = i.src.tag /\ s.la = (IF i.back THEN i.src.la - 1 ELSE i.src.la + 1)
  BY <1>2, SteppedIs
<1> HIDE DEF d, s, Pointers, Modes
<1>5. Rest(i) = [mode |-> i.mode, dst |-> d, src |-> s, n |-> i.n - 1, back |-> i.back]
  BY <1>1, <1>3 DEF d, s
<1>6. ASSUME i.n > 0
      PROVE  Rest(i) \in Moves
  <2>1. i.n - 1 \in 0 .. MaxN /\ i.mode \in Modes /\ i.back \in BOOLEAN
    BY <1>1, <1>6, RepMovsAssumption
  <2>2. Rest(i) \in [mode : Modes, dst : Pointers, src : Pointers, n : 0 .. MaxN, back : BOOLEAN]
    BY <1>4, <1>5, <2>1
  <2> QED BY <2>2 DEF Moves, Pointers
<1> QED BY <1>4, <1>5, <1>6

LEMMA RestKeeps ==
  ASSUME NEW i \in Moves, Inside(i), i.n > 0
  PROVE  /\ Rest(i) \in Moves /\ Inside(Rest(i))
         /\ DstRange(Rest(i)) \subseteq DstRange(i)
         /\ Rest(i).dst.tag = i.dst.tag
<1>1. i.dst.la \in Int /\ i.src.la \in Int /\ i.n \in Nat /\ i.back \in BOOLEAN
  BY MovesFields DEF Pointers
<1>2. /\ Rest(i).mode = i.mode /\ Rest(i).back = i.back /\ Rest(i).n = i.n - 1
      /\ Rest(i).dst.tag = i.dst.tag /\ Rest(i).src.tag = i.src.tag
      /\ Rest(i).dst.la = IF i.back THEN i.dst.la - 1 ELSE i.dst.la + 1
      /\ Rest(i).src.la = IF i.back THEN i.src.la - 1 ELSE i.src.la + 1
      /\ Rest(i) \in Moves
  BY RestFields
<1>3. DstRange(Rest(i)) \subseteq DstRange(i) /\ SrcRange(Rest(i)) \subseteq SrcRange(i)
  <2>1. CASE i.back
    BY <2>1, <1>1, <1>2 DEF DstRange, SrcRange, Range
  <2>2. CASE ~i.back
    BY <2>2, <1>1, <1>2 DEF DstRange, SrcRange, Range
  <2> QED BY <2>1, <2>2
<1> QED BY <1>2, <1>3 DEF Inside

LEMMA RestOfRest ==
  ASSUME NEW i \in Moves, NEW j \in Moves, RestOf(i, j), i.n > 0
  PROVE  RestOf(Rest(i), j)
<1>1. /\ i.dst.la \in Int /\ i.src.la \in Int /\ i.n \in Nat
      /\ j.dst.la \in Int /\ j.src.la \in Int /\ j.n \in Nat /\ j.back \in BOOLEAN
  BY MovesFields DEF Pointers
<1>2. /\ Rest(i).mode = i.mode /\ Rest(i).back = i.back /\ Rest(i).n = i.n - 1
      /\ Rest(i).dst.tag = i.dst.tag /\ Rest(i).src.tag = i.src.tag
      /\ Rest(i).dst.la = IF i.back THEN i.dst.la - 1 ELSE i.dst.la + 1
      /\ Rest(i).src.la = IF i.back THEN i.src.la - 1 ELSE i.src.la + 1
  BY RestFields
<1>3. /\ i.mode = j.mode /\ i.back = j.back /\ i.n <= j.n
      /\ i.dst.tag = j.dst.tag /\ i.src.tag = j.src.tag
      /\ i.dst.la = IF j.back THEN j.dst.la - (j.n - i.n) ELSE j.dst.la + (j.n - i.n)
      /\ i.src.la = IF j.back THEN j.src.la - (j.n - i.n) ELSE j.src.la + (j.n - i.n)
  BY DEF RestOf, Along
<1>4. CASE j.back
  BY <1>1, <1>2, <1>3, <1>4 DEF RestOf, Along
<1>5. CASE ~j.back
  BY <1>1, <1>2, <1>3, <1>5 DEF RestOf, Along
<1> QED BY <1>4, <1>5

LEMMA RestOfSelf ==
  ASSUME NEW i \in Moves
  PROVE  RestOf(i, i)
<1>1. i.dst.la \in Int /\ i.src.la \in Int /\ i.n \in Nat
  BY MovesFields DEF Pointers
<1> QED BY <1>1 DEF RestOf, Along

\* What c3lib starts: a copy into and out of buffers, whose destination is writable.
LEMMA CopyStarts ==
  ASSUME NEW mode \in {"STRICT", "PERMISSIVE"}, NEW dst \in Ptr, NEW src \in Ptr,
         NEW n \in 0 .. MaxN, Valid(dst, src, n),
         NEW i \in Issued(mode, dst, src, n)
  PROVE  /\ i \in Moves /\ Inside(i)
         /\ \A b \in DstRange(i) : icv[Down(b)] = i.dst.tag
<1>1. /\ dst.tag \in Tags /\ src.tag \in Tags /\ dst.la \in Int /\ src.la \in Int
      /\ dst = [tag |-> dst.tag, la |-> dst.la] /\ src = [tag |-> src.tag, la |-> src.la]
  <2>1. PICK t \in Tags : dst \in [tag : {t}, la : Buffer[t]]
    BY DEF Ptr
  <2>2. PICK u \in Tags : src \in [tag : {u}, la : Buffer[u]]
    BY DEF Ptr
  <2>3. dst.la \in Byte /\ src.la \in Byte
    BY <2>1, <2>2, RepMovsAssumption
  <2>4. dst.la \in Int /\ src.la \in Int
    BY <2>3, ByteGranule
  <2> QED BY <2>1, <2>2, <2>4
<1>2. n \in Nat
  BY RepMovsAssumption
<1>3. /\ i.mode = mode /\ i.n = n /\ i.back \in BOOLEAN
      /\ i.dst.tag = dst.tag /\ i.src.tag = src.tag
      /\ i.dst = [tag |-> dst.tag, la |-> IF i.back THEN dst.la + (n - 1) ELSE dst.la]
      /\ i.src = [tag |-> src.tag, la |-> IF i.back THEN src.la + (n - 1) ELSE src.la]
      /\ i = [mode |-> i.mode, dst |-> i.dst, src |-> i.src, n |-> i.n, back |-> i.back]
  <2>1. CASE i = [mode |-> mode, dst |-> dst, src |-> src, n |-> n, back |-> FALSE]
    BY <2>1, <1>1
  <2>2. CASE i = [mode |-> mode, dst |-> [tag |-> dst.tag, la |-> dst.la + (n - 1)],
                  src |-> [tag |-> src.tag, la |-> src.la + (n - 1)], n |-> n, back |-> TRUE]
    BY <2>2, <1>1
  <2>3. Shifted(dst, n - 1) = [tag |-> dst.tag, la |-> dst.la + (n - 1)]
        /\ Shifted(src, n - 1) = [tag |-> src.tag, la |-> src.la + (n - 1)]
    BY <1>1 DEF Shifted
  <2> QED BY <2>1, <2>2, <2>3 DEF Issued, cc_icv_memcpy, cc_icv_memmove, Move
<1>4. i.dst \in Pointers /\ i.src \in Pointers
  BY <1>1, <1>2, <1>3 DEF Pointers
<1>5. i \in Moves
  BY <1>3, <1>4 DEF Moves, Modes, Pointers
<1>6. DstRange(i) = dst.la .. dst.la + n - 1 /\ SrcRange(i) = src.la .. src.la + n - 1
  <2>1. CASE i.back
    BY <2>1, <1>1, <1>2, <1>3 DEF DstRange, SrcRange, Range
  <2>2. CASE ~i.back
    BY <2>2, <1>1, <1>2, <1>3 DEF DstRange, SrcRange, Range
  <2> QED BY <2>1, <2>2, <1>3
<1>7. Inside(i)
  BY <1>1, <1>3, <1>6 DEF Inside, Valid
<1>8. \A b \in DstRange(i) : icv[Down(b)] = i.dst.tag
  BY <1>3, <1>6 DEF Valid, GranulesOf, Down
<1> QED BY <1>5, <1>7, <1>8

-----------------------------------------------------------------------------
(***************************************************************************)
(* The steps.                                                              *)
(***************************************************************************)
Marks == (Tags \X (0 .. G - 1)) \cup {<<>>}

\* TypeOK, without the set of moves.
LEMMA TypeParts ==
  TypeOK <=> /\ icv \in [Granule -> Icvs] /\ data \in [Byte -> Marks]
             /\ icv_enabled \in BOOLEAN /\ suppress_mode \in Modes
             /\ exec \in Moves /\ resume \in Moves /\ job \in Moves /\ fixup_vals \in Moves
             /\ fixup \in BOOLEAN /\ (fixup => fixup_vals.mode # "NONE")
             /\ interrupted \in BOOLEAN /\ icv_fault \in BOOLEAN
             /\ copies \in 0 .. MaxCopies
BY DEF TypeOK, Icvs, Marks

LEMMA InitTypes ==
  ASSUME Init
  PROVE  TypeOK
<1> DEFINE Trips == {g \in Granule : \E t \in Tags : G * g .. G * g + G - 1 \subseteq Buffer[t]}
<1> DEFINE tag(b) == IF \E t \in Tags : b \in Buffer[t]
                     THEN CHOOSE t \in Tags : b \in Buffer[t] ELSE LA
<1>1. PICK trip \in SUBSET Trips :
        /\ icv = [g \in Granule |-> IF g \in trip THEN Inv ELSE tag(G * g)]
        /\ data = [b \in Byte |-> IF Down(b) \in trip THEN <<tag(b), b % G>> ELSE <<>>]
  BY DEF Init
<1>2. ASSUME NEW b, NEW t \in Tags, b \in Buffer[t]
      PROVE  tag(b) \in Tags
  <2> DEFINE In(u) == u \in Tags /\ b \in Buffer[u]
  <2>1. In(t)
    BY <1>2
  <2>2. tag(b) = CHOOSE u \in Tags : b \in Buffer[u]
    BY <1>2
  <2>3. (CHOOSE u \in Tags : b \in Buffer[u]) \in Tags
    BY <1>2
  <2> QED BY <2>2, <2>3
<1>3. ASSUME NEW b
      PROVE  tag(b) \in Tags \cup {LA}
  <2>1. CASE \E t \in Tags : b \in Buffer[t]
    BY <2>1, <1>2
  <2>2. CASE ~ \E t \in Tags : b \in Buffer[t]
    BY <2>2
  <2> QED BY <2>1, <2>2
<1>4. ASSUME NEW b \in Byte, Down(b) \in trip
      PROVE  tag(b) \in Tags /\ b % G \in 0 .. G - 1
  <2>1. b \in Int
    BY ByteGranule
  <2>2. b % G \in 0 .. G - 1 /\ b = G * Down(b) + (b % G) /\ Down(b) \in Int
    BY <2>1, DownMod
  <2>3. PICK t \in Tags : G * Down(b) .. G * Down(b) + G - 1 \subseteq Buffer[t]
    BY <1>4
  <2>4. b \in G * Down(b) .. G * Down(b) + G - 1
    BY <2>1, <2>2, RepMovsAssumption
  <2> QED BY <2>2, <2>3, <2>4, <1>2
<1> HIDE DEF tag
<1>5. icv \in [Granule -> Icvs]
  BY <1>1, <1>3 DEF Icvs
<1>6. data \in [Byte -> Marks]
  <2>1. \A b \in Byte : (IF Down(b) \in trip THEN <<tag(b), b % G>> ELSE <<>>) \in Marks
    BY <1>4 DEF Marks
  <2> HIDE DEF Marks
  <2> QED BY <2>1, <1>1
<1>7. /\ icv_enabled \in BOOLEAN /\ suppress_mode \in Modes /\ fixup = FALSE
      /\ exec = None /\ resume = None /\ job = None /\ fixup_vals = None
      /\ interrupted = FALSE /\ icv_fault = FALSE /\ copies = 0
  BY DEF Init, Modes
<1>8. fixup \in BOOLEAN /\ interrupted \in BOOLEAN /\ icv_fault \in BOOLEAN /\ ~fixup
  BY <1>7, Zenon
<1>9. copies \in 0 .. MaxCopies
  BY <1>7, RepMovsAssumption
<1>10. exec \in Moves /\ resume \in Moves /\ job \in Moves /\ fixup_vals \in Moves
  BY <1>7, NoneMoves
<1> QED BY <1>5, <1>6, <1>7, <1>8, <1>9, <1>10, TypeParts, Zenon

LEMMA InitInv ==
  ASSUME Init
  PROVE  IInv
<1>1. TypeOK
  BY InitTypes
<1>2. Progress
  BY DEF Init, Progress
<1>3. Undisturbed
  BY DEF Init, Undisturbed, IcvFaultNeedsInterrupt
<1>4. Fixed
  BY DEF Init, Fixed
<1> QED BY <1>1, <1>2, <1>3, <1>4 DEF IInv

\* The after-callback of whichever instruction completes.
LEMMA AfterCb ==
  ASSUME IInv, instruction_after_cb
  PROVE  /\ icv' \in [Granule -> Icvs] /\ suppress_mode' \in Modes
         /\ fixup' = FALSE
         /\ fixup => icv' = Fix(icv, fixup_vals)
         /\ ~fixup => icv' = icv
         /\ fixup /\ Separate(job) => IcvsCopied(icv', job)
<1>1. icv \in [Granule -> Icvs] /\ fixup_vals \in Moves /\ job \in Moves /\ fixup \in BOOLEAN
      /\ suppress_mode \in Modes
  BY TypeParts DEF IInv
<1>2. CASE fixup
  <2>1. icv' = Fix(icv, fixup_vals) /\ fixup' = FALSE /\ suppress_mode' = "NONE"
    BY <1>2 DEF instruction_after_cb, Fix
  <2>2. icv' \in [Granule -> Icvs]
    BY <1>1, <2>1, FixType
  <2>3. ASSUME Separate(job)
        PROVE  IcvsCopied(icv', job)
    <3>1. RestOf(fixup_vals, job) /\ Inside(fixup_vals) /\ Inside(job) /\ fixup_vals.n > 0
      BY <1>2, <2>3 DEF IInv, Progress, Separate
    <3>2. CASE fixup_vals = job
      BY <3>1, <3>2, <2>1, <2>3, <1>1, FixCopies
    <3>3. CASE IcvsCopied(icv, job)
      BY <3>1, <3>3, <2>1, <2>3, <1>1, FixRest
    <3> QED BY <3>2, <3>3, <2>3, <1>2 DEF IInv, Fixed
  <2> QED BY <1>2, <2>1, <2>2, <2>3 DEF Modes
<1>3. CASE ~fixup
  <2>1. icv' = icv /\ fixup' = fixup /\ suppress_mode' = suppress_mode
    BY <1>3 DEF instruction_after_cb
  <2> QED BY <1>1, <1>3, <2>1
<1> QED BY <1>1, <1>2, <1>3

LEMMA CopyInv ==
  ASSUME IInv, NEW mode \in {"STRICT", "PERMISSIVE"}, NEW dst \in Ptr, NEW src \in Ptr,
         NEW n \in 0 .. MaxN, Copy(mode, dst, src, n)
  PROVE  IInv'
<1>1. PICK i \in Issued(mode, dst, src, n) :
        Start(i) /\ job' = i
  BY DEF Copy
<1>2. Valid(dst, src, n) /\ ~fixup /\ resume = None /\ resume' = resume
      /\ copies < MaxCopies /\ copies' = copies + 1 /\ interrupted' = FALSE /\ icv_fault' = FALSE
  BY DEF Copy
<1>3. i \in Moves /\ Inside(i) /\ \A b \in DstRange(i) : icv[Down(b)] = i.dst.tag
  BY <1>1, <1>2, CopyStarts
<1>4. exec' = i /\ data' = data /\ icv_enabled' = icv_enabled /\ icv' = icv
      /\ (icv_enabled => fixup' = TRUE /\ fixup_vals' = i /\ suppress_mode' = i.mode)
      /\ (~icv_enabled => fixup' = fixup /\ fixup_vals' = fixup_vals
                          /\ suppress_mode' = suppress_mode)
  BY <1>1 DEF Start, emul_prefix_rep_movs
<1>5. /\ icv \in [Granule -> Icvs] /\ data \in [Byte -> Marks]
      /\ icv_enabled \in BOOLEAN /\ suppress_mode \in Modes
      /\ resume \in Moves /\ fixup_vals \in Moves
      /\ fixup \in BOOLEAN /\ copies \in 0 .. MaxCopies
  BY TypeParts DEF IInv
<1>6. i.mode # "NONE" /\ i.mode \in Modes
  BY <1>3, MovesFields DEF Inside
<1>7. (fixup <=> FALSE) /\ fixup' \in BOOLEAN /\ (fixup' => icv_enabled /\ fixup_vals' = i)
      /\ (icv_enabled => fixup')
  <2>1. CASE icv_enabled
    BY <2>1, <1>2, <1>4, Zenon
  <2>2. CASE ~icv_enabled
    <3>1. fixup' = fixup /\ ~fixup /\ fixup \in BOOLEAN
      BY <2>2, <1>2, <1>4, <1>5
    <3>2. fixup' \in BOOLEAN
      BY <3>1, Zenon
    <3>3. ~fixup'
      BY <3>1
    <3> QED BY <3>1, <3>2, <3>3, <2>2
  <2> QED BY <2>1, <2>2
<1>8. TypeOK'
  <2>1. fixup_vals' \in Moves /\ suppress_mode' \in Modes
    BY <1>3, <1>4, <1>5, <1>6
  <2>2. fixup' => fixup_vals'.mode # "NONE"
    BY <1>6, <1>7
  <2>3. copies' \in 0 .. MaxCopies
    BY <1>2, <1>5, RepMovsAssumption
  <2>4. interrupted' \in BOOLEAN /\ icv_fault' \in BOOLEAN
    BY <1>2, Zenon
  <2>5. icv' \in [Granule -> Icvs] /\ data' \in [Byte -> Marks] /\ icv_enabled' \in BOOLEAN
        /\ exec' \in Moves /\ job' \in Moves /\ resume' \in Moves
    BY <1>1, <1>2, <1>3, <1>4, <1>5, Zenon
  <2> HIDE DEF Moves
  <2> QED BY <2>1, <2>2, <2>3, <2>4, <2>5, <1>7 DEF TypeOK, Marks, Icvs
<1>9. Progress'
  <2>1. RestOf(i, i)
    BY <1>3, RestOfSelf
  <2>2. fixup' = icv_enabled'
    BY <1>4, <1>5, <1>7
  <2> QED BY <2>1, <2>2, <1>1, <1>2, <1>3, <1>4, <1>7 DEF Progress
<1>10. Undisturbed'
  BY <1>2, <1>3, <1>4 DEF Undisturbed, IcvFaultNeedsInterrupt, DstRange
<1>11. Fixed'
  BY <1>1, <1>2, <1>4, <1>7 DEF Fixed
<1> QED BY <1>8, <1>9, <1>10, <1>11 DEF IInv

LEMMA MoveByteInv ==
  ASSUME IInv, MoveByte
  PROVE  IInv'
<1>1. exec # None /\ exec.n > 0 /\ exec' = Rest(exec)
      /\ data' = [data EXCEPT ![exec.dst.la] = Copied(exec.dst, exec.src)]
      /\ UNCHANGED <<icv, icv_enabled, suppress_mode, fixup, fixup_vals, resume, job,
                     interrupted, icv_fault, copies>>
  BY DEF MoveByte
<1>2. exec \in Moves /\ job \in Moves /\ Inside(exec) /\ RestOf(exec, job) /\ Inside(job)
  BY <1>1, TypeParts DEF IInv, Progress
<1>3. Rest(exec) \in Moves /\ Inside(Rest(exec)) /\ DstRange(Rest(exec)) \subseteq DstRange(exec)
      /\ Rest(exec).dst.tag = exec.dst.tag
  BY <1>1, <1>2, RestKeeps
<1>4. RestOf(Rest(exec), job)
  BY <1>1, <1>2, RestOfRest
<1>5. Rest(exec) # None
  BY <1>3, InsideIsCopy
<1>6. Copied(exec.dst, exec.src) \in Marks
  <2>1. exec.dst.tag \in Tags
    BY <1>2 DEF Inside
  <2>2. exec.src.la \in Byte
    BY <1>1, <1>2, NextByte, InsideBytes
  <2>3. data[exec.src.la] \in Marks
    BY <2>2, TypeParts DEF IInv
  <2> DEFINE d == data[exec.src.la]
  <2>4. Copied(exec.dst, exec.src) =
          IF d # <<>> /\ d[1] = exec.src.tag THEN <<exec.dst.tag, d[2]>> ELSE <<>>
    BY DEF Copied
  <2> HIDE DEF d
  <2>5. d # <<>> => d[2] \in 0 .. G - 1
    BY <2>3 DEF Marks, d
  <2> QED BY <2>1, <2>4, <2>5 DEF Marks
<1>7. TypeOK'
  <2>1. data' \in [Byte -> Marks]
    <3>1. data \in [Byte -> Marks]
      BY TypeParts DEF IInv
    <3> HIDE DEF Marks
    <3> QED BY <3>1, <1>1, <1>6
  <2>2. /\ icv \in [Granule -> Icvs] /\ icv_enabled \in BOOLEAN /\ suppress_mode \in Modes
        /\ resume \in Moves /\ job \in Moves /\ fixup_vals \in Moves
        /\ fixup \in BOOLEAN /\ (fixup => fixup_vals.mode # "NONE")
        /\ interrupted \in BOOLEAN /\ icv_fault \in BOOLEAN
        /\ copies \in 0 .. MaxCopies
    BY TypeParts DEF IInv
  <2>3. (/\ icv \in [Granule -> Icvs] /\ icv_enabled \in BOOLEAN /\ suppress_mode \in Modes
         /\ resume \in Moves /\ job \in Moves /\ fixup_vals \in Moves
         /\ fixup \in BOOLEAN /\ (fixup => fixup_vals.mode # "NONE")
         /\ interrupted \in BOOLEAN /\ icv_fault \in BOOLEAN
         /\ copies \in 0 .. MaxCopies)'
    BY <2>2, <1>1, Zenon
  <2>4. exec' \in Moves
    BY <1>1, <1>3
  <2> HIDE DEF Moves
  <2> QED BY <2>1, <2>3, <2>4 DEF TypeOK, Marks, Icvs
<1>8. Progress'
  <2>1. exec # None /\ resume = None
    BY <1>1 DEF IInv, Progress
  <2> QED BY <2>1, <1>1, <1>2, <1>3, <1>4 DEF IInv, Progress
<1>9. Undisturbed'
  BY <1>1, <1>3 DEF IInv, Undisturbed, IcvFaultNeedsInterrupt
<1>10. Fixed'
  BY <1>1 DEF IInv, Fixed
<1> QED BY <1>7, <1>8, <1>9, <1>10 DEF IInv

LEMMA IcvFaultInv ==
  ASSUME IInv, IcvFault
  PROVE  IInv'
<1>1. exec # None /\ exec.n > 0 /\ ~WriteOk(exec.dst) /\ exec' = None /\ icv_fault' = TRUE
      /\ UNCHANGED <<icv, data, icv_enabled, suppress_mode, fixup, fixup_vals, resume, job,
                     interrupted, copies>>
  BY DEF IcvFault
<1>2. TypeOK'
  <2>1. None \in Moves /\ icv_fault' \in BOOLEAN
    BY <1>1, NoneMoves, Zenon
  <2> HIDE DEF Moves, None
  <2> QED BY <2>1, <1>1 DEF IInv, TypeOK
<1>3. Progress'
  BY <1>1 DEF IInv, Progress
<1>4. Undisturbed'
  <2>1. exec \in Moves
    BY TypeParts DEF IInv
  <2>2. exec.dst.la \in DstRange(exec)
    BY <2>1, <1>1, NextByte
  <2>3. icv_enabled /\ icv[Down(exec.dst.la)] # exec.dst.tag
    BY <1>1 DEF WriteOk
  <2>4. interrupted
    BY <1>1, <2>2, <2>3 DEF IInv, Undisturbed
  <2> QED BY <2>4, <1>1 DEF Undisturbed, IcvFaultNeedsInterrupt
<1>5. Fixed'
  BY <1>1 DEF IInv, Fixed
<1> QED BY <1>2, <1>3, <1>4, <1>5 DEF IInv

LEMMA InterruptInv ==
  ASSUME IInv, Interrupt
  PROVE  IInv'
<1>1. exec # None /\ exec.n > 0 /\ resume' = exec /\ exec' = None /\ interrupted' = TRUE
      /\ UNCHANGED <<icv, data, icv_enabled, suppress_mode, fixup, fixup_vals, job, icv_fault,
                     copies>>
  BY DEF Interrupt
<1>2. TypeOK'
  <2>1. None \in Moves /\ interrupted' \in BOOLEAN
    BY <1>1, NoneMoves, Zenon
  <2> HIDE DEF Moves, None
  <2> QED BY <2>1, <1>1 DEF IInv, TypeOK
<1>3. Progress'
  BY <1>1 DEF IInv, Progress
<1>4. Undisturbed'
  BY <1>1 DEF IInv, Undisturbed, IcvFaultNeedsInterrupt
<1>5. Fixed'
  <2>1. fixup = icv_enabled
    BY <1>1 DEF IInv, Progress
  <2> QED BY <2>1, <1>1 DEF IInv, Fixed
<1> QED BY <1>2, <1>3, <1>4, <1>5 DEF IInv

LEMMA CompleteInv ==
  ASSUME IInv, Complete
  PROVE  IInv'
<1>1. exec # None /\ exec' = None /\ instruction_after_cb
      /\ UNCHANGED <<data, icv_enabled, fixup_vals, resume, job, interrupted, icv_fault, copies>>
  BY DEF Complete
<1>2. icv' \in [Granule -> Icvs] /\ suppress_mode' \in Modes /\ fixup' = FALSE
  BY <1>1, AfterCb
<1>3. TypeOK'
  <2>1. None \in Moves /\ fixup' \in BOOLEAN /\ ~fixup'
    BY <1>2, NoneMoves, Zenon
  <2> HIDE DEF Moves, None
  <2> QED BY <2>1, <1>1, <1>2 DEF IInv, TypeOK, Icvs
<1>4. resume = None
  BY <1>1 DEF IInv, Progress
<1>5. Progress'
  BY <1>1, <1>2, <1>4 DEF Progress
<1>6. Undisturbed'
  BY <1>1 DEF IInv, Undisturbed, IcvFaultNeedsInterrupt
<1>7. Fixed'
  BY <1>1, <1>2, <1>4 DEF Fixed
<1> QED BY <1>3, <1>5, <1>6, <1>7 DEF IInv

LEMMA OtherInv ==
  ASSUME IInv, NEW enabled \in BOOLEAN, Other(enabled)
  PROVE  IInv'
<1>1. exec = None /\ (resume = None \/ enabled = icv_enabled) /\ icv_enabled' = enabled
      /\ instruction_after_cb
      /\ UNCHANGED <<data, fixup_vals, exec, resume, job, interrupted, icv_fault, copies>>
  BY DEF Other
<1>2. /\ icv' \in [Granule -> Icvs] /\ suppress_mode' \in Modes /\ fixup' = FALSE
      /\ (~fixup => icv' = icv)
      /\ (fixup /\ Separate(job) => IcvsCopied(icv', job))
  BY <1>1, AfterCb
<1>3. TypeOK'
  <2>1. fixup' \in BOOLEAN /\ ~fixup'
    BY <1>2, Zenon
  <2> HIDE DEF Moves, None
  <2> QED BY <2>1, <1>1, <1>2 DEF IInv, TypeOK, Icvs
<1>4. Progress'
  BY <1>1, <1>2 DEF IInv, Progress
<1>5. Undisturbed'
  BY <1>1 DEF IInv, Undisturbed, IcvFaultNeedsInterrupt
<1>6. Fixed'
  <2> SUFFICES ASSUME Separate(job), resume # None, icv_enabled'
               PROVE  IcvsCopied(icv', job)
    BY <1>1, <1>2 DEF Fixed
  <2>1. CASE fixup
    BY <2>1, <1>2
  <2>2. CASE ~fixup
    <3>1. IcvsCopied(icv, job)
      BY <2>2, <1>1 DEF IInv, Fixed
    <3> QED BY <3>1, <2>2, <1>2
  <2> QED BY <2>1, <2>2
<1> QED BY <1>3, <1>4, <1>5, <1>6 DEF IInv

LEMMA ResumeInv ==
  ASSUME IInv, Resume
  PROVE  IInv'
<1>1. resume # None /\ ~fixup /\ resume' = None /\ Start(resume)
      /\ UNCHANGED <<job, interrupted, icv_fault, copies>>
  BY DEF Resume
<1>2. exec' = resume /\ data' = data /\ icv_enabled' = icv_enabled /\ icv' = icv
      /\ (icv_enabled => fixup' = TRUE /\ fixup_vals' = resume /\ suppress_mode' = resume.mode)
      /\ (~icv_enabled => fixup' = fixup /\ fixup_vals' = fixup_vals
                          /\ suppress_mode' = suppress_mode)
  BY <1>1 DEF Start, emul_prefix_rep_movs
<1>3. resume \in Moves /\ icv_enabled \in BOOLEAN /\ fixup \in BOOLEAN /\ fixup_vals \in Moves
      /\ suppress_mode \in Modes
  BY TypeParts DEF IInv
<1>4. Inside(resume) /\ RestOf(resume, job) /\ Inside(job) /\ interrupted /\ resume.n > 0
  BY <1>1 DEF IInv, Progress
<1>5. resume.mode # "NONE" /\ resume.mode \in Modes
  BY <1>3, <1>4, MovesFields DEF Inside
<1>6. fixup' \in BOOLEAN /\ (fixup' => icv_enabled /\ fixup_vals' = resume)
      /\ (icv_enabled => fixup')
  <2>1. CASE icv_enabled
    BY <2>1, <1>2, Zenon
  <2>2. CASE ~icv_enabled
    <3>1. fixup' = fixup /\ ~fixup /\ fixup \in BOOLEAN
      BY <2>2, <1>1, <1>2, <1>3
    <3>2. fixup' \in BOOLEAN
      BY <3>1, Zenon
    <3>3. ~fixup'
      BY <3>1
    <3> QED BY <3>2, <3>3, <2>2
  <2> QED BY <2>1, <2>2
<1>7. TypeOK'
  <2>1. fixup_vals' \in Moves /\ suppress_mode' \in Modes /\ None \in Moves
    BY <1>2, <1>3, <1>5, NoneMoves
  <2>2. fixup' => fixup_vals'.mode # "NONE"
    BY <1>5, <1>6
  <2> HIDE DEF Moves, None
  <2> QED BY <2>1, <2>2, <1>1, <1>2, <1>6 DEF IInv, TypeOK
<1>8. Progress'
  <2>1. fixup' = icv_enabled'
    BY <1>2, <1>3, <1>6
  <2> QED BY <2>1, <1>1, <1>2, <1>4, <1>6 DEF Progress
<1>9. Undisturbed'
  BY <1>1, <1>2, <1>4 DEF IInv, Undisturbed, IcvFaultNeedsInterrupt
<1>10. Fixed'
  <2>1. Separate(job) /\ icv_enabled => IcvsCopied(icv, job)
    BY <1>1 DEF IInv, Fixed
  <2> QED BY <2>1, <1>1, <1>2, <1>6 DEF Fixed
<1> QED BY <1>7, <1>8, <1>9, <1>10 DEF IInv

LEMMA NextInv ==
  ASSUME IInv, [Next]_vars
  PROVE  IInv'
<1>1. CASE Next
  BY <1>1, CopyInv, MoveByteInv, IcvFaultInv, InterruptInv, CompleteInv, OtherInv, ResumeInv
     DEF Next
<1>2. CASE UNCHANGED vars
  BY <1>2 DEF vars, IInv, TypeOK, Progress, Undisturbed, IcvFaultNeedsInterrupt, Fixed
<1> QED BY <1>1, <1>2

LEMMA RepMovsInvariant == Spec => []IInv
<1>1. Init => IInv
  BY InitInv
<1>2. IInv /\ [Next]_vars => IInv'
  BY NextInv
<1> QED BY <1>1, <1>2, PTL DEF Spec

-----------------------------------------------------------------------------
\* The state has its types, and a pending fix-up holds the registers of a real copy, whatever
\* the memory and however many copies there are.
THEOREM RepMovsTypes == Spec => []TypeOK
<1>1. IInv => TypeOK
  BY DEF IInv
<1> QED BY <1>1, RepMovsInvariant, PTL

\* A copy into a writable destination that is not interrupted takes no ICV fault: the ICVs of
\* its destination are those it was checked with until instruction_after_cb, after its last
\* byte.
THEOREM FaultOnlyAfterInterrupt == Spec => []IcvFaultNeedsInterrupt
<1>1. IInv => IcvFaultNeedsInterrupt
  BY DEF IInv, Undisturbed
<1> QED BY <1>1, RepMovsInvariant, PTL

\* A step that applies a fix-up applies it with copyICVs.
LEMMA FixupStep ==
  ASSUME IInv, Next, fixup, ~fixup'
  PROVE  icv' = Fix(icv, fixup_vals) /\ (Separate(job) => IcvsCopied(icv', job))
<1>1. instruction_after_cb
  <2>1. ASSUME NEW mode \in {"STRICT", "PERMISSIVE"}, NEW dst \in Ptr, NEW src \in Ptr,
               NEW n \in 0 .. MaxN, Copy(mode, dst, src, n)
        PROVE  FALSE
    BY <2>1 DEF Copy
  <2>2. CASE MoveByte \/ IcvFault \/ Interrupt
    BY <2>2 DEF MoveByte, IcvFault, Interrupt
  <2>3. CASE Complete
    BY <2>3 DEF Complete
  <2>4. ASSUME NEW enabled \in BOOLEAN, Other(enabled)
        PROVE  instruction_after_cb
    BY <2>4 DEF Other
  <2>5. CASE Resume
    BY <2>5 DEF Resume
  <2> QED BY <2>1, <2>2, <2>3, <2>4, <2>5 DEF Next
<1> QED BY <1>1, AfterCb

\* An upward copy of at least one byte leaves the ICVs of every granule that it does not write,
\* at whatever alignment, with whatever length, whichever instruction applies its fix-up.
THEOREM NeighboursAlwaysKept == Spec => NeighboursKept
<1>1. ASSUME IInv, Next, fixup, ~fixup', ~fixup_vals.back, fixup_vals.n > 0,
             NEW g \in Granule \ GranulesOf(Range(fixup_vals.dst, fixup_vals.n, FALSE))
      PROVE  icv'[g] = icv[g]
  <2>1. icv' = Fix(icv, fixup_vals)
    BY <1>1, FixupStep
  <2>2. icv \in [Granule -> Icvs] /\ fixup_vals \in Moves
    BY <1>1, TypeParts DEF IInv
  <2>3. g \notin UpGranules(fixup_vals.dst, fixup_vals.n)
    BY DEF UpGranules
  <2> QED BY <1>1, <2>1, <2>2, <2>3, FixKeeps
<1>2. IInv /\ [Next]_vars =>
        [fixup /\ ~fixup' /\ ~fixup_vals.back /\ fixup_vals.n > 0
           => \A g \in Granule \ GranulesOf(Range(fixup_vals.dst, fixup_vals.n, FALSE)) :
                icv'[g] = icv[g]]_vars
  BY <1>1
<1> QED BY <1>2, RepMovsInvariant, PTL DEF Spec, NeighboursKept

\* Tripwires are copied with the data, and nothing else becomes one, by every upward copy
\* between equally aligned, separate areas: also by one that was interrupted any number of
\* times, each time had its ICVs copied by the handler, and was resumed.
THEOREM TripwiresAlwaysCopied == Spec => TripwiresCopied
<1> DEFINE srcs == GranulesOf(Range(job.src, job.n, FALSE))
<1> DEFINE dsts == GranulesOf(Range(job.dst, job.n, FALSE))
<1> DEFINE off  == Down(job.dst.la) - Down(job.src.la)
<1>1. ASSUME IInv, Next, exec # None, exec' = None, exec.n = 0, fixup,
             job.n > 0, ~job.back, (job.dst.la - job.src.la) % G = 0, srcs \cap dsts = {},
             NEW g \in srcs
      PROVE  icv'[g + off] = IF icv[g] = Inv THEN Inv ELSE job.dst.tag
  <2>1. Separate(job)
    BY <1>1 DEF Separate
  <2>2. job \in Moves /\ fixup_vals \in Moves /\ exec \in Moves /\ icv \in [Granule -> Icvs]
    BY <1>1, TypeParts DEF IInv
  <2>3. Complete
    <3>1. ASSUME NEW mode \in {"STRICT", "PERMISSIVE"}, NEW dst \in Ptr, NEW src \in Ptr,
                 NEW n \in 0 .. MaxN, Copy(mode, dst, src, n)
          PROVE  FALSE
      BY <3>1, <1>1 DEF Copy, Start
    <3>2. ~MoveByte /\ ~IcvFault /\ ~Interrupt
      BY <1>1, <2>2 DEF MoveByte, IcvFault, Interrupt
    <3>3. ASSUME NEW enabled \in BOOLEAN, Other(enabled)
          PROVE  FALSE
      BY <3>3, <1>1 DEF Other
    <3>4. ~Resume
      BY <1>1 DEF Resume
    <3> QED BY <3>1, <3>2, <3>3, <3>4, <1>1 DEF Next
  <2>4. fixup' = FALSE
    BY <2>3, <1>1, AfterCb DEF Complete
  <2>5. icv' = Fix(icv, fixup_vals) /\ IcvsCopied(icv', job)
    BY <2>1, <2>4, <1>1, FixupStep
  <2>6. icv'[g + off] = IF icv'[g] = Inv THEN Inv ELSE job.dst.tag
    BY <2>5 DEF IcvsCopied
  <2>7. icv'[g] = icv[g]
    <3>1. /\ RestOf(fixup_vals, job) /\ Inside(job) /\ fixup_vals.n > 0
      BY <1>1 DEF IInv, Progress
    <3>2. ~fixup_vals.back /\ UpGranules(fixup_vals.dst, fixup_vals.n) \subseteq dsts
      BY <2>1, <2>2, <3>1, RestUp DEF UpGranules
    <3>3. g \in Granule
      BY <2>2, <3>1, <1>1, InsideGranules DEF UpGranules
    <3>4. g \notin UpGranules(fixup_vals.dst, fixup_vals.n)
      BY <3>2, <1>1
    <3>5. Fix(icv, fixup_vals)[g] = icv[g]
      BY <2>2, <3>1, <3>2, <3>3, <3>4, FixKeeps
    <3> QED BY <3>5, <2>5
  <2> QED BY <2>6, <2>7
<1>2. IInv /\ [Next]_vars =>
        [/\ exec # None /\ exec' = None /\ exec.n = 0 /\ fixup
         /\ job.n > 0 /\ ~job.back /\ (job.dst.la - job.src.la) % G = 0 /\ srcs \cap dsts = {}
         => \A g \in srcs : icv'[g + off] = IF icv[g] = Inv THEN Inv ELSE job.dst.tag]_vars
  BY <1>1
<1> QED BY <1>2, RepMovsInvariant, PTL DEF Spec, TripwiresCopied
=============================================================================
