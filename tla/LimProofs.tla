----------------------------- MODULE LimProofs ------------------------------
(***************************************************************************)
(* The invariants of module Lim, for every memory, set of slot sizes and   *)
(* allocations, and any number of accesses and page faults.                *)
(*                                                                         *)
(* Four facts make them inductive.  The metadata of an object lies in its  *)
(* bounds and these in its slot (WellPlaced), so that a tag found in       *)
(* memory is the one of the object whose slot it is in (TagsInMetadata).   *)
(* What address_before left behind is about the pointer's own object while *)
(* its instruction lasts, and about some object afterwards, when a page    *)
(* fault has left it there (AccOK).  And what the program last stored at   *)
(* an address is where its mode keeps that byte (Homes).                   *)
(***************************************************************************)
EXTENDS Lim, WellFoundedInduction, TLAPS

SlotOf(o) == get_slot_start(o.ptr, o.slot) .. get_slot_end(o.ptr, o.slot)

WellPlaced(o) ==
  /\ <<o.ptr, o.size, o.tag>> \in Allocs /\ o.slot \in SlotSizes
  /\ o.lower_la \in Int /\ o.upper_la \in Int
  /\ o.meta_size = get_metadata_size(o.slot)
  /\ o.la_meta = get_metadata_address(o.ptr, o.slot)
  /\ o.lower_la = get_middle_address(o.ptr, o.slot) - decode_bound(o.lb)
  /\ o.upper_la = get_middle_address(o.ptr, o.slot) + decode_bound(o.ub) - 1
  /\ get_slot_start(o.ptr, o.slot) <= o.lower_la /\ o.upper_la <= get_slot_end(o.ptr, o.slot)
  /\ o.lower_la <= o.ptr /\ o.ptr < o.la_meta
  /\ o.la_meta + o.meta_size - 1 <= o.upper_la
  /\ o.ptr + o.size - 1 <= o.upper_la - o.meta_size

\* The objects are placed well, have different tags and lie apart.
ObjsOK ==
  /\ \A o \in objs : WellPlaced(o)
  /\ \A o, q \in objs : o # q => o.tag # q.tag /\ BoundsOf(o) \cap BoundsOf(q) = {}

\* Only the metadata of an object looks like metadata.
TagsInMetadata == \A a \in Addr : mem[a].tag # 0 => \E o \in objs : a \in MetaOf(o)

\* The pointer of the current instruction was made for o.
PointsTo(o) == instr.ptr.tag = o.tag /\ instr.ptr.slot = o.slot

\* An instruction under way accesses memory there is, with the pointer of an object or with
\* a linear address outside of all of them.
InstrOK ==
  phase # "idle" =>
    /\ instr.op \in {"load", "store", "prefetch"}
    /\ First \in Nat /\ instr.size \in Nat \ {0} /\ First .. Last \subseteq Addr
    /\ IF is_encoded_lim_ptr(instr.ptr) THEN \E o \in objs : PointsTo(o)
       ELSE instr.ptr.tag = 0 /\ First .. Last \subseteq PlainBytes

\* What address_before left behind is about o.
About(o) ==
  /\ acc # NoAcc /\ acc.la_decoded \in BoundsOf(o)
  /\ acc.la_meta = o.la_meta /\ acc.meta_size = o.meta_size
  /\ acc.dec.lower_la = o.lower_la /\ acc.dec.upper_la = o.upper_la

\* The first transaction has been let through as one of o.
HalfWay(o) == o.lower_la <= First /\ Border - 1 + o.meta_size <= o.upper_la

\* What uninitialized metadata leaves behind.
Uninitialized ==
  /\ instr.op = "prefetch" /\ is_encoded_lim_ptr(instr.ptr)
  /\ acc.meta_size = get_metadata_size(instr.ptr.slot)
  /\ acc.dec.upper_la = get_slot_end(First, instr.ptr.slot)
  /\ acc.crossing = CrossingInfo

AccOK ==
  /\ DOMAIN acc = DOMAIN NoAcc
  /\ acc # NoAcc /\ ~uninit => \E o \in objs : About(o)
  /\ phase = "data" /\ is_encoded_lim_ptr(instr.ptr) /\ ~uninit =>
       /\ \E o \in objs : PointsTo(o) /\ About(o)
       /\ acc.la_decoded = First /\ acc.crossing = CrossingInfo
  /\ phase = "data" /\ uninit => Uninitialized
  /\ phase \in {"addr2", "data2"} =>
       IF is_encoded_lim_ptr(instr.ptr) /\ instr.op # "prefetch"
       THEN /\ \E o \in objs : PointsTo(o) /\ About(o) /\ HalfWay(o)
            /\ phase = "data2" => acc.la_decoded = Border
       ELSE acc = NoAcc
  /\ uninit => phase \in {"idle", "data", "addr2", "data2"} /\ (phase # "idle" => instr.op = "prefetch")

\* Where the mode keeps the byte of address a of o.
HomeIn(o, a) == IF data_disp THEN Displaced(o.la_meta, o.meta_size, o, a)
                ELSE Shifted(o.la_meta, o.meta_size, a)

Homes ==
  \A a \in Addr : content[a] # 0 =>
    \/ a \in PlainBytes /\ mem[a] = Data(a, content[a])
    \/ \E o \in objs : a \in DataOf(o) /\ mem[HomeIn(o, a)] = Data(a, content[a])

IInv ==
  /\ TypeOK /\ ObjsOK /\ MetadataKept /\ TagsInMetadata /\ InstrOK /\ AccOK /\ Homes
-----------------------------------------------------------------------------
(***************************************************************************)
(* Slots, and the operators of lim_ptr_encoding.h.                         *)
(***************************************************************************)
LEMMA Constants ==
  /\ PageSize \in Nat /\ PageSize > 0 /\ BoundGranule \in Nat /\ BoundGranule > 0
  /\ HeapMinChunk \in Nat /\ Limit1 \in Nat /\ Limit2 \in Nat /\ MaxWrites \in Nat
  /\ BigMeta \in Nat /\ BigMeta > 0 /\ BigMeta - BigMeta \div 2 <= BoundGranule
BY LimAssumption

LEMMA AddrNat == Addr \subseteq Nat
<1> SUFFICES ASSUME NEW p \in Pages, NEW a \in PageSize * p .. PageSize * p + PageSize - 1
             PROVE  a \in Nat
  BY DEF Addr
<1>1. p \in Nat /\ PageSize \in Nat
  BY LimAssumption
<1>2. PageSize * p \in Nat
  BY <1>1
<1> QED BY <1>1, <1>2

LEMMA DivMod ==
  ASSUME NEW s \in Nat, s > 0, NEW a \in Int
  PROVE  a \div s \in Int /\ s * (a \div s) \in Int /\ s * (a \div s) <= a /\ a <= s * (a \div s) + s - 1
<1>1. a \div s \in Int /\ a % s \in 0 .. s - 1 /\ a = s * (a \div s) + (a % s)
  OBVIOUS
<1>2. s * (a \div s) \in Int
  BY <1>1
<1> QED BY <1>1, <1>2

LEMMA DivUnique ==
  ASSUME NEW s \in Nat, s > 0, NEW q \in Int, NEW a \in Int, s * q <= a, a <= s * q + s - 1
  PROVE  a \div s = q
OBVIOUS

LEMMA MultipleInside ==
  ASSUME NEW s \in Nat, s > 0, NEW k \in Int, 0 <= s * k, s * k < s
  PROVE  k = 0
<1>1. CASE k >= 1
  <2>1. s * k >= s
    BY <1>1
  <2> QED BY <2>1
<1>2. CASE k <= 0 - 1
  <2>1. s * k <= 0 - s
    BY <1>2
  <2> QED BY <2>1
<1> QED BY <1>1, <1>2

LEMMA MaxTwo ==
  ASSUME NEW x \in Int, NEW y \in Int
  PROVE  Max({x, y}) \in Int /\ Max({x, y}) >= x /\ Max({x, y}) >= y
<1>1. \E z \in {x, y} : \A w \in {x, y} : z >= w
  OBVIOUS
<1> QED BY <1>1 DEF Max

LEMMA MinTwo ==
  ASSUME NEW x \in Int, NEW y \in Int
  PROVE  Min({x, y}) = IF x <= y THEN x ELSE y
<1>1. \E z \in {x, y} : \A w \in {x, y} : z =< w
  OBVIOUS
<1> QED BY <1>1 DEF Min

LEMMA MinIn ==
  ASSUME NEW S \in SUBSET Nat, S # {}
  PROVE  Min(S) \in S
<1>1. \E x \in S : \A y \in S : ~ (<<y, x>> \in OpToRel(<, Nat))
  BY WFMin, NatLessThanWellFounded, Zenon
<1>2. \A x, y \in Nat : <<y, x>> \in OpToRel(<, Nat) <=> y < x
  BY Zenon DEF OpToRel
<1>3. \E x \in S : \A y \in S : ~ (y < x)
  BY <1>1, <1>2, Zenon
<1>4. \E x \in S : \A y \in S : x =< y
  BY <1>3
<1> QED BY <1>4 DEF Min

LEMMA MetaSize ==
  ASSUME NEW s \in Nat
  PROVE  /\ get_metadata_size(s) \in Nat /\ get_metadata_size(s) > 0
         /\ get_metadata_size(s) \in {1, 2, BigMeta}
BY Constants DEF get_metadata_size

LEMMA SlotAround ==
  ASSUME NEW s \in Nat, s > 0, NEW a \in Int
  PROVE  /\ get_slot_start(a, s) \in Int /\ get_slot_end(a, s) \in Int
         /\ get_slot_start(a, s) <= a /\ a <= get_slot_end(a, s)
         /\ get_slot_end(a, s) = get_slot_start(a, s) + s - 1
         /\ get_middle_address(a, s) = get_slot_start(a, s) + s \div 2
         /\ get_middle_address(a, s) \in Int
BY DivMod DEF get_slot_start, get_slot_end, get_middle_address

\* How far the metadata reaches around the middle of a slot.
MetaBelow(s) == IF s <= Limit1 THEN 0 ELSE get_metadata_size(s) \div 2

LEMMA MetaReach ==
  ASSUME NEW s \in Nat, s > 0, NEW a \in Int
  PROVE  /\ get_metadata_address(a, s) = get_middle_address(a, s) - MetaBelow(s)
         /\ MetaBelow(s) \in Nat
         /\ get_metadata_address(a, s) \in Int
         /\ get_metadata_size(s) - MetaBelow(s) <= BoundGranule
<1>1. get_metadata_address(a, s) = get_middle_address(a, s) - MetaBelow(s)
  BY DEF get_metadata_address, MetaBelow
<1>2. MetaBelow(s) \in Nat
  BY MetaSize DEF MetaBelow
<1>3. get_metadata_size(s) - MetaBelow(s) <= BoundGranule
  BY Constants DEF get_metadata_size, MetaBelow
<1> QED BY <1>1, <1>2, <1>3, SlotAround

LEMMA BoundRoundedUp ==
  ASSUME NEW b \in Int
  PROVE  /\ decode_bound(encode_bound(b)) \in Int
         /\ b + 1 <= decode_bound(encode_bound(b))
<1>1. encode_bound(b) \in Int /\ BoundGranule * encode_bound(b) \in Int
      /\ b <= BoundGranule * encode_bound(b) + BoundGranule - 1
  BY DivMod, Constants DEF encode_bound
<1>2. decode_bound(encode_bound(b)) = BoundGranule * encode_bound(b) + BoundGranule
  BY <1>1, Constants DEF decode_bound
<1> QED BY <1>1, <1>2, Constants

LEMMA BoundBig ==
  ASSUME NEW b \in Nat
  PROVE  BoundGranule <= decode_bound(encode_bound(b))
<1>1. encode_bound(b) \in Nat
  BY Constants DEF encode_bound
<1>2. decode_bound(encode_bound(b)) = BoundGranule * encode_bound(b) + BoundGranule
  BY <1>1, Constants DEF decode_bound
<1>3. BoundGranule * encode_bound(b) >= 0
  BY <1>1, Constants
<1>4. BoundGranule * encode_bound(b) \in Int
  BY <1>1, Constants
<1> QED BY <1>2, <1>3, <1>4, Constants

LEMMA SlotSizesPositive ==
  ASSUME NEW s \in SlotSizes
  PROVE  s \in Nat /\ s > 0
<1>1. SlotSizes \subseteq Nat \ {0}
  BY LimAssumption
<1> QED BY <1>1

LEMMA AllocFields ==
  ASSUME NEW x \in Allocs
  PROVE  x[1] \in Addr /\ x[1] \in Nat /\ x[2] \in Nat /\ x[3] \in Nat /\ x[3] # 0
         /\ x = <<x[1], x[2], x[3]>>
<1>1. Allocs \subseteq Addr \X Nat \X (Nat \ {0})
  BY LimAssumption
<1>2. x \in Addr \X Nat \X (Nat \ {0})
  BY <1>1
<1>3. x[1] \in Addr /\ x[2] \in Nat /\ x[3] \in Nat \ {0} /\ x = <<x[1], x[2], x[3]>>
  BY <1>2
<1> QED BY <1>3, AddrNat

LEMMA AllocParts ==
  ASSUME NEW p, NEW n, NEW t, <<p, n, t>> \in Allocs
  PROVE  p \in Addr /\ p \in Nat /\ n \in Nat /\ t \in Nat /\ t # 0
<1> DEFINE x == <<p, n, t>>
<1>1. x[1] = p /\ x[2] = n /\ x[3] = t
  OBVIOUS
<1> HIDE DEF x
<1> QED BY <1>1, AllocFields DEF x

LEMMA EncodedSize ==
  ASSUME NEW ptr \in Nat, NEW n \in Nat,
         {s \in SlotSizes : ptr \div s = (ptr + Max({n, HeapMinChunk}) - 1) \div s} # {}
  PROVE  calculate_encoded_size(ptr, n) \in SlotSizes
<1> DEFINE S == {s \in SlotSizes : ptr \div s = (ptr + Max({n, HeapMinChunk}) - 1) \div s}
<1>1. S \in SUBSET Nat
  BY LimAssumption
<1>2. Min(S) \in S
  BY <1>1, MinIn
<1> QED BY <1>2 DEF calculate_encoded_size

\* The assertions of lim_compute_bounded_data_size are enough: an object that passes them has
\* its metadata in its bounds, and these in its slot.
LEMMA ObjectPlaced ==
  ASSUME NEW x \in Allocs, CanEncode(x[1], x[2])
  PROVE  /\ WellPlaced(ObjectOf(x))
         /\ ObjectOf(x).ptr = x[1] /\ ObjectOf(x).size = x[2] /\ ObjectOf(x).tag = x[3]
<1> DEFINE p == x[1]
           n == x[2]
           m == get_min_metadata_size(n)
           s == calculate_encoded_size(p, n + m)
           mid == get_middle_address(p, s)
           b == EncodedBounds(p, n, m)
           l == get_metadata_address(p, s)
           top == Max({0, p + n + m - 1 - mid})
           lower == mid - decode_bound(b.lb)
           upper == mid + decode_bound(b.ub) - 1
           o == ObjectOf(x)
<1>1. p \in Nat /\ n \in Nat /\ x[3] \in Nat \ {0} /\ x = <<p, n, x[3]>>
  BY AllocFields
<1>2. m \in Nat
  BY <1>1, Constants DEF get_min_metadata_size
<1>3. s \in SlotSizes
  <2>1. {z \in SlotSizes : p \div z = (p + Max({n + m, HeapMinChunk}) - 1) \div z} # {}
    BY DEF CanEncode
  <2>2. n + m \in Nat
    BY <1>1, <1>2
  <2> HIDE DEF p, n, m
  <2> QED BY <1>1, <2>1, <2>2, EncodedSize DEF s
<1>4. /\ l > p /\ decode_bound(b.lb) <= s \div 2 /\ decode_bound(b.ub) <= s \div 2
      /\ m = get_metadata_size(s)
  BY DEF CanEncode
<1>5. b.lb = encode_bound(mid - 1 - p) /\ b.ub = encode_bound(top)
  BY DEF EncodedBounds
<1>6. /\ o.ptr = p /\ o.size = n /\ o.tag = x[3] /\ o.slot = s /\ o.la_meta = l /\ o.meta_size = m
      /\ o.lb = b.lb /\ o.ub = b.ub
  BY DEF ObjectOf
<1>7. o.lower_la = lower /\ o.upper_la = upper
  BY DEF ObjectOf, lim_decode_metadata, Meta
<1> HIDE DEF p, n, m, s, mid, b, l, o
<1>8. s \in Nat /\ s > 0 /\ p \in Int
  BY <1>1, <1>3, SlotSizesPositive
<1>9. /\ mid \in Int /\ get_slot_start(p, s) \in Int /\ mid = get_slot_start(p, s) + s \div 2
      /\ get_slot_end(p, s) = get_slot_start(p, s) + s - 1
  BY <1>8, SlotAround DEF mid
<1>10. l = mid - MetaBelow(s) /\ MetaBelow(s) \in Nat /\ l \in Int /\ m - MetaBelow(s) <= BoundGranule
  BY <1>4, <1>8, MetaReach DEF l, mid
<1>11. top \in Nat /\ top >= p + n + m - 1 - mid
  BY <1>1, <1>2, <1>9, MaxTwo
<1> HIDE DEF top
<1>12. decode_bound(b.lb) \in Int /\ mid - p <= decode_bound(b.lb)
  BY <1>1, <1>5, <1>9, BoundRoundedUp
<1>13. decode_bound(b.ub) \in Int /\ top + 1 <= decode_bound(b.ub) /\ BoundGranule <= decode_bound(b.ub)
  BY <1>5, <1>11, BoundRoundedUp, BoundBig
<1>14. lower \in Int /\ upper \in Int /\ lower <= p /\ p < l
  BY <1>1, <1>4, <1>9, <1>10, <1>12, <1>13
<1>15. get_slot_start(p, s) <= lower /\ upper <= get_slot_end(p, s)
  BY <1>4, <1>8, <1>9, <1>12, <1>13
<1>16. l + m - 1 <= upper /\ p + n - 1 <= upper - m
  BY <1>1, <1>2, <1>9, <1>10, <1>11, <1>13, Constants
<1>17. <<o.ptr, o.size, o.tag>> \in Allocs
  BY <1>1, <1>6
<1> HIDE DEF lower, upper
<1>18. WellPlaced(o)
  BY <1>3, <1>4, <1>6, <1>7, <1>14, <1>15, <1>16, <1>17 DEF WellPlaced, lower, upper, mid, l
<1> QED BY <1>18, <1>6 DEF o, p, n

\* The numbers of a well-placed object.
LEMMA PlacedNumbers ==
  ASSUME NEW o, WellPlaced(o)
  PROVE  /\ o.ptr \in Nat /\ o.ptr \in Addr /\ o.size \in Nat /\ o.tag \in Nat /\ o.tag # 0
         /\ o.slot \in Nat /\ o.slot > 0 /\ o.slot \in SlotSizes
         /\ o.lower_la \in Int /\ o.upper_la \in Int /\ o.la_meta \in Int
         /\ o.meta_size \in Nat /\ o.meta_size > 0 /\ o.meta_size \in {1, 2, BigMeta}
         /\ o.lower_la < o.la_meta /\ o.la_meta + o.meta_size - 1 <= o.upper_la
<1>1. <<o.ptr, o.size, o.tag>> \in Allocs /\ o.slot \in SlotSizes
  BY DEF WellPlaced
<1>2. /\ o.ptr \in Nat /\ o.ptr \in Addr /\ o.size \in Nat /\ o.tag \in Nat /\ o.tag # 0
      /\ o.slot \in Nat /\ o.slot > 0
  BY <1>1, AllocParts, SlotSizesPositive
<1>3. o.meta_size \in Nat /\ o.meta_size > 0 /\ o.meta_size \in {1, 2, BigMeta}
  BY <1>2, MetaSize DEF WellPlaced
<1>4. o.la_meta \in Int
  BY <1>2, MetaReach DEF WellPlaced
<1> QED BY <1>1, <1>2, <1>3, <1>4 DEF WellPlaced

LEMMA PlacedAddr ==
  ASSUME NEW o, WellPlaced(o)
  PROVE  BoundsOf(o) \subseteq SlotOf(o) /\ SlotOf(o) \subseteq Addr
<1>1. o.ptr \in Int /\ o.ptr \in Addr /\ o.slot \in Nat /\ o.slot > 0 /\ o.slot \in SlotSizes
      /\ o.lower_la \in Int /\ o.upper_la \in Int
  BY PlacedNumbers
<1>2. get_slot_start(o.ptr, o.slot) \in Int /\ get_slot_end(o.ptr, o.slot) \in Int
  BY <1>1, SlotAround
<1>3. SlotOf(o) \subseteq Addr
  BY <1>1, LimAssumption DEF SlotOf, get_slot_start, get_slot_end
<1>4. BoundsOf(o) \subseteq SlotOf(o)
  BY <1>1, <1>2 DEF BoundsOf, SlotOf, WellPlaced
<1> QED BY <1>3, <1>4

-----------------------------------------------------------------------------
(***************************************************************************)
(* Where the two modes keep the bytes of an object.                        *)
(***************************************************************************)
LEMMA DispBase ==
  ASSUME NEW o, WellPlaced(o)
  PROVE  lim_compute_disp_base(o.la_meta, o.meta_size, o) =
           IF o.meta_size <= o.upper_la - (o.la_meta + o.meta_size - 1)
           THEN o.upper_la - o.meta_size + 1 ELSE o.la_meta + o.meta_size
<1>1. o.la_meta \in Int /\ o.meta_size \in Int /\ o.upper_la \in Int
  BY PlacedNumbers
<1>2. o.upper_la - (o.la_meta + o.meta_size - 1) \in Int
  BY <1>1
<1>3. lim_compute_disp_size(o.la_meta, o.meta_size, o) =
        IF o.meta_size <= o.upper_la - (o.la_meta + o.meta_size - 1)
        THEN o.meta_size ELSE o.upper_la - (o.la_meta + o.meta_size - 1)
  BY <1>1, <1>2, MinTwo DEF lim_compute_disp_size
<1> QED BY <1>1, <1>3 DEF lim_compute_disp_base

LEMMA ShiftedPlace ==
  ASSUME NEW o, WellPlaced(o), NEW a \in DataOf(o)
  PROVE  /\ a \in Int /\ Shifted(o.la_meta, o.meta_size, a) \in Int
         /\ Shifted(o.la_meta, o.meta_size, a) \in BoundsOf(o)
         /\ Shifted(o.la_meta, o.meta_size, a) \notin MetaOf(o)
         /\ Shifted(o.la_meta, o.meta_size, a) =
              IF a < o.la_meta THEN a ELSE a + o.meta_size
BY PlacedNumbers DEF DataOf, BoundsOf, MetaOf, Shifted

LEMMA DisplacedPlace ==
  ASSUME NEW o, WellPlaced(o), NEW a \in DataOf(o)
  PROVE  /\ a \in Int /\ Displaced(o.la_meta, o.meta_size, o, a) \in Int
         /\ Displaced(o.la_meta, o.meta_size, o, a) \in BoundsOf(o)
         /\ Displaced(o.la_meta, o.meta_size, o, a) \notin MetaOf(o)
         /\ a \notin MetaOf(o) => Displaced(o.la_meta, o.meta_size, o, a) = a
         /\ a \in MetaOf(o) => /\ Displaced(o.la_meta, o.meta_size, o, a) > o.upper_la - o.meta_size
                               /\ Displaced(o.la_meta, o.meta_size, o, a) =
                                    lim_compute_disp_base(o.la_meta, o.meta_size, o) + (a - o.la_meta)
<1>1. a \in Int /\ o.lower_la <= a /\ a <= o.upper_la - o.meta_size
  BY PlacedNumbers DEF DataOf
<1>2. CASE a \in MetaOf(o)
  <2>1. Displaced(o.la_meta, o.meta_size, o, a) =
          lim_compute_disp_base(o.la_meta, o.meta_size, o) + (a - o.la_meta)
    BY <1>2 DEF Displaced, MetaOf
  <2>2. o.la_meta <= a /\ a <= o.la_meta + o.meta_size - 1
    BY <1>2, PlacedNumbers DEF MetaOf
  <2> QED BY <1>1, <1>2, <2>1, <2>2, DispBase, PlacedNumbers DEF BoundsOf, MetaOf
<1>3. CASE a \notin MetaOf(o)
  <2>1. Displaced(o.la_meta, o.meta_size, o, a) = a
    BY <1>3 DEF Displaced, MetaOf
  <2> QED BY <1>1, <1>3, <2>1, PlacedNumbers DEF BoundsOf
<1> QED BY <1>2, <1>3

LEMMA ShiftedApart ==
  ASSUME NEW o, WellPlaced(o), NEW a \in DataOf(o), NEW b \in DataOf(o),
         Shifted(o.la_meta, o.meta_size, a) = Shifted(o.la_meta, o.meta_size, b)
  PROVE  a = b
<1> DEFINE S(c) == Shifted(o.la_meta, o.meta_size, c)
<1>1. \A c \in DataOf(o) : c \in Int /\ S(c) = IF c < o.la_meta THEN c ELSE c + o.meta_size
  BY ShiftedPlace
<1>2. o.la_meta \in Int /\ o.meta_size \in Nat
  BY PlacedNumbers
<1>3. S(a) = S(b)
  OBVIOUS
<1> HIDE DEF S
<1> QED BY <1>1, <1>2, <1>3

LEMMA DisplacedApart ==
  ASSUME NEW o, WellPlaced(o), NEW a \in DataOf(o), NEW b \in DataOf(o),
         Displaced(o.la_meta, o.meta_size, o, a) = Displaced(o.la_meta, o.meta_size, o, b)
  PROVE  a = b
<1> DEFINE base == lim_compute_disp_base(o.la_meta, o.meta_size, o)
           D(c) == Displaced(o.la_meta, o.meta_size, o, c)
<1>1. \A c \in DataOf(o) : /\ c \in Int /\ c <= o.upper_la - o.meta_size
                           /\ c \notin MetaOf(o) => D(c) = c
                           /\ c \in MetaOf(o) => D(c) > o.upper_la - o.meta_size /\ D(c) = base + (c - o.la_meta)
  BY DisplacedPlace, PlacedNumbers DEF DataOf
<1>2. base \in Int
  BY DispBase, PlacedNumbers
<1>3. D(a) = D(b)
  OBVIOUS
<1>4. o.upper_la - o.meta_size \in Int /\ o.la_meta \in Int
  BY PlacedNumbers
<1> HIDE DEF base, D
<1>5. CASE a \in MetaOf(o) /\ b \in MetaOf(o)
  BY <1>1, <1>2, <1>3, <1>4, <1>5
<1>6. CASE a \notin MetaOf(o) /\ b \notin MetaOf(o)
  BY <1>1, <1>3, <1>6
<1>7. CASE a \notin MetaOf(o) /\ b \in MetaOf(o)
  BY <1>1, <1>3, <1>4, <1>7
<1>8. CASE a \in MetaOf(o) /\ b \notin MetaOf(o)
  BY <1>1, <1>3, <1>4, <1>8
<1> QED BY <1>5, <1>6, <1>7, <1>8

LEMMA PlacesInjective ==
  ASSUME NEW o, WellPlaced(o)
  PROVE  /\ [a \in DataOf(o) |-> Shifted(o.la_meta, o.meta_size, a)]
              \in Injection(DataOf(o), BoundsOf(o) \ MetaOf(o))
         /\ [a \in DataOf(o) |-> Displaced(o.la_meta, o.meta_size, o, a)]
              \in Injection(DataOf(o), BoundsOf(o) \ MetaOf(o))
<1> DEFINE f == [a \in DataOf(o) |-> Shifted(o.la_meta, o.meta_size, a)]
           g == [a \in DataOf(o) |-> Displaced(o.la_meta, o.meta_size, o, a)]
<1>1. f \in [DataOf(o) -> BoundsOf(o) \ MetaOf(o)]
  BY ShiftedPlace
<1>2. g \in [DataOf(o) -> BoundsOf(o) \ MetaOf(o)]
  BY DisplacedPlace
<1>3. IsInjective(f)
  BY ShiftedApart DEF IsInjective
<1>4. IsInjective(g)
  BY DisplacedApart DEF IsInjective
<1> QED BY <1>1, <1>2, <1>3, <1>4 DEF Injection

LEMMA HomeFacts ==
  ASSUME NEW o, WellPlaced(o), NEW a \in DataOf(o), data_disp \in BOOLEAN
  PROVE  HomeIn(o, a) \in BoundsOf(o) /\ HomeIn(o, a) \notin MetaOf(o)
BY ShiftedPlace, DisplacedPlace DEF HomeIn

-----------------------------------------------------------------------------
(***************************************************************************)
(* Where address_before finds the metadata of a pointer.                   *)
(***************************************************************************)
LEMMA MetaOffset ==
  ASSUME NEW o, WellPlaced(o), NEW p, p.slot = o.slot, p.la \in Int
  PROVE  /\ MetaLo(p) - get_slot_start(p.la, o.slot) = o.la_meta - get_slot_start(o.ptr, o.slot)
         /\ MetaLo(p) \in Int /\ MetaHi(p) = MetaLo(p) + o.meta_size - 1
         /\ get_slot_start(p.la, o.slot) <= MetaLo(p) /\ MetaHi(p) <= get_slot_end(p.la, o.slot)
<1>1. o.ptr \in Int /\ o.slot \in Nat /\ o.slot > 0
  BY PlacedNumbers
<1>2. /\ MetaLo(p) = get_middle_address(p.la, o.slot) - MetaBelow(o.slot)
      /\ MetaLo(p) \in Int /\ MetaBelow(o.slot) \in Nat
  BY <1>1, MetaReach DEF MetaLo
<1>3. o.la_meta = get_middle_address(o.ptr, o.slot) - MetaBelow(o.slot)
  BY <1>1, MetaReach DEF WellPlaced
<1>4. /\ get_slot_start(p.la, o.slot) \in Int
      /\ get_slot_end(p.la, o.slot) = get_slot_start(p.la, o.slot) + o.slot - 1
      /\ get_middle_address(p.la, o.slot) = get_slot_start(p.la, o.slot) + o.slot \div 2
  BY <1>1, SlotAround
<1>5. /\ get_slot_start(o.ptr, o.slot) \in Int
      /\ get_slot_end(o.ptr, o.slot) = get_slot_start(o.ptr, o.slot) + o.slot - 1
      /\ get_middle_address(o.ptr, o.slot) = get_slot_start(o.ptr, o.slot) + o.slot \div 2
  BY <1>1, SlotAround
<1>6. o.slot \div 2 \in Int
  BY <1>1
<1>7. MetaHi(p) = MetaLo(p) + o.meta_size - 1
  BY DEF MetaHi, WellPlaced
<1>8. /\ get_slot_start(o.ptr, o.slot) <= o.la_meta
      /\ o.la_meta + o.meta_size - 1 <= get_slot_end(o.ptr, o.slot)
      /\ o.la_meta \in Int /\ o.meta_size \in Nat
  <2>1. /\ get_slot_start(o.ptr, o.slot) <= o.lower_la /\ o.upper_la <= get_slot_end(o.ptr, o.slot)
    BY DEF WellPlaced
  <2> QED BY <1>1, <1>5, <2>1, PlacedNumbers
<1> DEFINE h == o.slot \div 2
           sp == get_slot_start(p.la, o.slot)
           so == get_slot_start(o.ptr, o.slot)
<1> HIDE DEF h, sp, so
<1>9. MetaLo(p) - sp = o.la_meta - so
  <2>1. get_middle_address(p.la, o.slot) = sp + h /\ get_middle_address(o.ptr, o.slot) = so + h
    BY <1>4, <1>5 DEF h, sp, so
  <2>2. sp \in Int /\ so \in Int /\ h \in Int /\ MetaBelow(o.slot) \in Int
    BY <1>2, <1>4, <1>5, <1>6 DEF h, sp, so
  <2>3. MetaLo(p) = sp + h - MetaBelow(o.slot) /\ o.la_meta = so + h - MetaBelow(o.slot)
    BY <1>2, <1>3, <2>1, <2>2
  <2> QED BY <2>2, <2>3
<1>10. sp <= MetaLo(p) /\ MetaHi(p) <= get_slot_end(p.la, o.slot)
  <2>1. /\ get_slot_end(p.la, o.slot) = sp + o.slot - 1 /\ so <= o.la_meta /\ sp \in Int /\ so \in Int
        /\ o.la_meta + o.meta_size - 1 <= so + o.slot - 1
    BY <1>4, <1>5, <1>8 DEF sp, so
  <2>2. /\ MetaHi(p) = MetaLo(p) + o.meta_size - 1 /\ MetaLo(p) - sp = o.la_meta - so
        /\ MetaLo(p) \in Int /\ o.la_meta \in Int /\ o.meta_size \in Int /\ o.slot \in Int
    BY <1>9, <1>7, <1>8, <1>2, <1>1
  <2> QED BY <2>1, <2>2
<1> QED BY <1>2, <1>7, <1>9, <1>10 DEF sp, so

LEMMA MetaInAddr ==
  ASSUME NEW o, WellPlaced(o), NEW p, p.slot = o.slot, p.la \in Addr
  PROVE  MetaLo(p) \in Addr /\ MetaHi(p) \in Addr
<1>1. p.la \in Int /\ o.slot \in Nat /\ o.slot > 0 /\ o.slot \in SlotSizes /\ o.meta_size \in Nat
      /\ o.meta_size > 0
  <2>1. p.la \in Nat
    BY AddrNat
  <2> QED BY <2>1, PlacedNumbers
<1>2. get_slot_start(p.la, o.slot) .. get_slot_end(p.la, o.slot) \subseteq Addr
  <2>1. \A s \in SlotSizes : \A a \in Addr :
          s * (a \div s) .. s * (a \div s) + s - 1 \subseteq Addr
    BY LimAssumption
  <2> QED BY <1>1, <2>1 DEF get_slot_start, get_slot_end
<1>3. get_slot_start(p.la, o.slot) \in Int /\ get_slot_end(p.la, o.slot) \in Int
  BY <1>1, SlotAround
<1>4. /\ MetaLo(p) \in Int /\ MetaHi(p) = MetaLo(p) + o.meta_size - 1
      /\ get_slot_start(p.la, o.slot) <= MetaLo(p) /\ MetaHi(p) <= get_slot_end(p.la, o.slot)
  BY <1>1, MetaOffset
<1>5. /\ MetaLo(p) \in get_slot_start(p.la, o.slot) .. get_slot_end(p.la, o.slot)
      /\ MetaHi(p) \in get_slot_start(p.la, o.slot) .. get_slot_end(p.la, o.slot)
  BY <1>1, <1>3, <1>4
<1> QED BY <1>2, <1>5

\* In the slot of o, a pointer of that slot size leads to the metadata of o.
LEMMA SlotShared ==
  ASSUME NEW o, WellPlaced(o), NEW p, p.slot = o.slot, p.la \in SlotOf(o)
  PROVE  get_slot_start(p.la, o.slot) = get_slot_start(o.ptr, o.slot)
<1>1. o.ptr \in Int /\ o.slot \in Nat /\ o.slot > 0
  BY PlacedNumbers
<1>2. o.ptr \div o.slot \in Int /\ o.slot * (o.ptr \div o.slot) \in Int
  BY <1>1, DivMod
<1>3. /\ p.la \in Int /\ o.slot * (o.ptr \div o.slot) <= p.la
      /\ p.la <= o.slot * (o.ptr \div o.slot) + o.slot - 1
  BY <1>1, <1>2 DEF SlotOf, get_slot_start, get_slot_end
<1>4. p.la \div o.slot = o.ptr \div o.slot
  BY <1>1, <1>2, <1>3, DivUnique
<1> QED BY <1>4 DEF get_slot_start

\* Conversely, where the metadata is the one of o, the pointer is in the slot of o.
LEMMA MetaShared ==
  ASSUME NEW o, WellPlaced(o), NEW p, p.slot = o.slot, p.la \in Int, MetaLo(p) \in MetaOf(o)
  PROVE  get_slot_start(p.la, o.slot) = get_slot_start(o.ptr, o.slot)
<1> DEFINE s == o.slot
           k == p.la \div o.slot
           j == o.ptr \div o.slot
<1>1. o.ptr \in Int /\ o.slot \in Nat /\ o.slot > 0 /\ o.la_meta \in Int /\ o.meta_size \in Nat
      /\ o.lower_la \in Int /\ o.upper_la \in Int /\ o.lower_la < o.la_meta
      /\ o.la_meta + o.meta_size - 1 <= o.upper_la
  BY PlacedNumbers
<1>2. j \in Int /\ s * j \in Int /\ k \in Int /\ s * k \in Int
  BY <1>1, DivMod
<1>3. MetaLo(p) - s * k = o.la_meta - s * j /\ MetaLo(p) \in Int
  BY <1>1, MetaOffset DEF get_slot_start
<1>4. o.la_meta <= MetaLo(p) /\ MetaLo(p) <= o.la_meta + o.meta_size - 1
  BY <1>1, <1>3 DEF MetaOf
<1>5. s * j <= o.lower_la /\ o.upper_la <= s * j + s - 1
  BY DEF WellPlaced, get_slot_start, get_slot_end
<1>6. k - j \in Int /\ s * (k - j) = s * k - s * j
  BY <1>1, <1>2
<1> HIDE DEF j, k, s
<1>7. s \in Nat /\ s > 0
  BY <1>1 DEF s
<1>8. 0 <= s * k - s * j /\ s * k - s * j < s
  BY <1>1, <1>2, <1>3, <1>4, <1>5, <1>7
<1>9. k - j = 0
  BY <1>6, <1>7, <1>8, MultipleInside
<1>10. k = j
  BY <1>9, <1>2
<1> QED BY <1>10 DEF k, j, get_slot_start

LEMMA OwnMetadata ==
  ASSUME NEW o, WellPlaced(o), NEW p, p.slot = o.slot, p.la \in Int,
         get_slot_start(p.la, o.slot) = get_slot_start(o.ptr, o.slot)
  PROVE  /\ MetaLo(p) = o.la_meta /\ MetaHi(p) = o.la_meta + o.meta_size - 1
         /\ get_middle_address(p.la, o.slot) = get_middle_address(o.ptr, o.slot)
         /\ get_slot_end(p.la, o.slot) = get_slot_end(o.ptr, o.slot)
<1>1. get_middle_address(p.la, o.slot) = get_middle_address(o.ptr, o.slot)
      /\ get_slot_end(p.la, o.slot) = get_slot_end(o.ptr, o.slot)
  BY DEF get_middle_address, get_slot_end
<1>2. MetaLo(p) = o.la_meta
  BY <1>1 DEF MetaLo, WellPlaced, get_metadata_address
<1> QED BY <1>1, <1>2 DEF MetaHi, WellPlaced

\* What the metadata of o says.
DecOf(o) ==
  [tag_left |-> o.tag, tag_right |-> o.tag, lower_la |-> o.lower_la, upper_la |-> o.upper_la]

LEMMA MetaRead ==
  ASSUME MetadataKept, NEW o \in objs, NEW a \in MetaOf(o)
  PROVE  mem[a].tag = o.tag /\ mem[a].lb = o.lb /\ mem[a].ub = o.ub
<1>1. mem[a] = Meta(a - o.la_meta, o.lb, o.ub, o.tag)
  BY Zenon DEF MetadataKept
<1>2. \A k, lb, ub, t : /\ Meta(k, lb, ub, t).tag = t /\ Meta(k, lb, ub, t).lb = lb
                        /\ Meta(k, lb, ub, t).ub = ub
  BY DEF Meta
<1> QED BY <1>1, <1>2

LEMMA Decoded ==
  ASSUME NEW o \in objs, WellPlaced(o), MetadataKept, NEW p, p.slot = o.slot, p.la \in Int,
         get_slot_start(p.la, o.slot) = get_slot_start(o.ptr, o.slot)
  PROVE  DecodedMeta(p) = DecOf(o)
<1>1. /\ MetaLo(p) = o.la_meta /\ MetaHi(p) = o.la_meta + o.meta_size - 1
      /\ get_middle_address(p.la, p.slot) = get_middle_address(o.ptr, o.slot)
  BY OwnMetadata
<1>2. o.la_meta \in MetaOf(o) /\ o.la_meta + o.meta_size - 1 \in MetaOf(o)
  BY PlacedNumbers DEF MetaOf
<1>3. /\ mem[MetaLo(p)].tag = o.tag /\ mem[MetaLo(p)].lb = o.lb
      /\ mem[MetaHi(p)].tag = o.tag /\ mem[MetaHi(p)].ub = o.ub
  BY <1>1, <1>2, MetaRead
<1>4. /\ o.lower_la = get_middle_address(o.ptr, o.slot) - decode_bound(o.lb)
      /\ o.upper_la = get_middle_address(o.ptr, o.slot) + decode_bound(o.ub) - 1
  BY DEF WellPlaced
<1> QED BY <1>1, <1>3, <1>4 DEF DecodedMeta, lim_decode_metadata, DecOf

\* A pointer that address_before does not refuse is in the bounds of its object.
LEMMA NotRefused ==
  ASSUME ObjsOK, MetadataKept, TagsInMetadata, NEW o \in objs, NEW p, p.slot = o.slot,
         p.tag = o.tag, p.la \in Addr, ~Refused(p, DecodedMeta(p))
  PROVE  /\ DecodedMeta(p) = DecOf(o) /\ p.la \in BoundsOf(o)
         /\ MetaLo(p) = o.la_meta /\ get_metadata_size(p.slot) = o.meta_size
<1>1. WellPlaced(o)
  BY DEF ObjsOK
<1>2. p.la \in Int
  BY AddrNat
<1>3. mem[MetaLo(p)].tag = o.tag /\ o.tag # 0
  BY <1>1, PlacedNumbers DEF Refused, DecodedMeta, lim_decode_metadata
<1>4. PICK q \in objs : MetaLo(p) \in MetaOf(q)
  BY <1>1, <1>3, MetaInAddr DEF TagsInMetadata
<1>5. mem[MetaLo(p)].tag = q.tag
  BY <1>4, MetaRead
<1>6. q = o
  BY <1>3, <1>5 DEF ObjsOK
<1>7. get_slot_start(p.la, o.slot) = get_slot_start(o.ptr, o.slot)
  BY <1>1, <1>2, <1>4, <1>6, MetaShared
<1>8. DecodedMeta(p) = DecOf(o)
  BY <1>1, <1>2, <1>7, Decoded
<1>9. ~ (p.la < o.lower_la) /\ ~ (p.la > o.upper_la)
  BY <1>8 DEF Refused, DecOf
<1>10. p.la \in BoundsOf(o)
  BY <1>1, <1>2, <1>9, PlacedNumbers DEF BoundsOf
<1> QED BY <1>1, <1>2, <1>7, <1>8, <1>10, OwnMetadata DEF WellPlaced

LEMMA NotRefusedInside ==
  ASSUME ObjsOK, MetadataKept, NEW o \in objs, NEW p, p.slot = o.slot, p.tag = o.tag,
         p.la \in BoundsOf(o)
  PROVE  ~Refused(p, DecodedMeta(p))
<1>1. WellPlaced(o)
  BY DEF ObjsOK
<1>2. p.la \in SlotOf(o) /\ p.la \in Int
  BY <1>1, PlacedAddr, PlacedNumbers DEF BoundsOf
<1>3. get_slot_start(p.la, o.slot) = get_slot_start(o.ptr, o.slot)
  BY <1>1, <1>2, SlotShared
<1>4. DecodedMeta(p) = DecOf(o)
  BY <1>1, <1>2, <1>3, Decoded
<1>5. get_slot_end(p.la, o.slot) = get_slot_end(o.ptr, o.slot)
  BY <1>1, <1>2, <1>3, OwnMetadata
<1>6. o.lower_la <= p.la /\ p.la <= o.upper_la
  BY <1>1, <1>2, PlacedNumbers DEF BoundsOf
<1>7. /\ get_slot_start(o.ptr, o.slot) <= o.lower_la /\ o.upper_la <= get_slot_end(o.ptr, o.slot)
      /\ get_slot_start(o.ptr, o.slot) \in Int /\ get_slot_end(o.ptr, o.slot) \in Int
      /\ o.lower_la \in Int /\ o.upper_la \in Int
  <2>1. /\ get_slot_start(o.ptr, o.slot) <= o.lower_la /\ o.upper_la <= get_slot_end(o.ptr, o.slot)
    BY <1>1 DEF WellPlaced
  <2>2. o.ptr \in Int /\ o.slot \in Nat /\ o.slot > 0 /\ o.lower_la \in Int /\ o.upper_la \in Int
    BY <1>1, PlacedNumbers
  <2> QED BY <2>1, <2>2, SlotAround
<1> QED BY <1>2, <1>3, <1>4, <1>5, <1>6, <1>7 DEF Refused, DecOf

-----------------------------------------------------------------------------
(***************************************************************************)
(* The transactions of an instruction.                                     *)
(***************************************************************************)
LEMMA PartInside ==
  ASSUME TypeOK, InstrOK, phase # "idle"
  PROVE  /\ First \in Int /\ Last \in Int /\ Border \in Int /\ Lo \in Int /\ Hi \in Int
         /\ First <= Lo /\ Lo <= Hi /\ Hi <= Last /\ First <= Last
         /\ Part \subseteq First .. Last /\ First .. Last \subseteq Addr
<1>1. First \in Int /\ instr.size \in Nat \ {0} /\ First .. Last \subseteq Addr
  BY DEF InstrOK
<1>2. Last \in Int /\ First <= Last
  BY <1>1 DEF Last
<1>3. Border \in Int /\ Border <= Last
  BY <1>2, DivMod, Constants DEF Border, Page
<1>4. OnFirst \/ Crosses
  BY DEF TypeOK, OnFirst
<1>5. Lo \in Int /\ Hi \in Int /\ First <= Lo /\ Lo <= Hi /\ Hi <= Last
  BY <1>1, <1>2, <1>3, <1>4 DEF Lo, Hi, Crosses
<1> QED BY <1>1, <1>2, <1>3, <1>5 DEF Part

LEMMA SameInstr ==
  ASSUME instr' = instr
  PROVE  /\ First' = First /\ Last' = Last /\ Border' = Border /\ Crosses' = Crosses
         /\ \A o : PointsTo(o)' = PointsTo(o) /\ HalfWay(o)' = HalfWay(o)
BY DEF First, Last, Border, Page, Crosses, PointsTo, HalfWay

\* A transaction that is treated as one of an encoded pointer is one, of the pointer's object.
LEMMA Treated ==
  ASSUME TypeOK, InstrOK, AccOK, ObjsOK, phase \in {"data", "data2"}, ~uninit, Modifies
  PROVE  /\ is_encoded_lim_ptr(instr.ptr)
         /\ \E o \in objs : PointsTo(o) /\ About(o) /\ o.lower_la <= Lo
<1>1. acc # NoAcc /\ Lo = acc.la_decoded
  BY DEF Modifies
<1>2. CASE phase = "data" /\ ~is_encoded_lim_ptr(instr.ptr)
  <2>1. PICK o \in objs : About(o)
    BY <1>1 DEF AccOK
  <2>2. Lo = First /\ First \in First .. Last /\ First .. Last \subseteq PlainBytes
    <3>1. First \in First .. Last
      BY <1>2, PartInside
    <3> QED BY <3>1, <1>2 DEF Lo, OnFirst, InstrOK
  <2>3. Lo \in BoundsOf(o)
    BY <1>1, <2>1 DEF About
  <2> QED BY <2>1, <2>2, <2>3 DEF PlainBytes
<1>3. CASE phase = "data" /\ is_encoded_lim_ptr(instr.ptr)
  <2>1. PICK o \in objs : PointsTo(o) /\ About(o)
    BY <1>3 DEF AccOK
  <2>2. Lo \in BoundsOf(o)
    BY <1>1, <2>1 DEF About
  <2>3. o.lower_la \in Int /\ o.upper_la \in Int
    BY PlacedNumbers DEF ObjsOK
  <2>4. o.lower_la <= Lo
    BY <2>2, <2>3 DEF BoundsOf
  <2> QED BY <1>3, <2>1, <2>4
<1>4. CASE phase = "data2"
  <2>1. is_encoded_lim_ptr(instr.ptr) /\ \E o \in objs : PointsTo(o) /\ About(o) /\ HalfWay(o)
    BY <1>1, <1>4 DEF AccOK
  <2>2. PICK o \in objs : PointsTo(o) /\ About(o) /\ HalfWay(o)
    BY <2>1
  <2>3. o.lower_la \in Int
    BY PlacedNumbers DEF ObjsOK
  <2>4. First <= Lo /\ First \in Int /\ Lo \in Int
    BY <1>4, PartInside
  <2>5. o.lower_la <= Lo
    BY <2>2, <2>3, <2>4 DEF HalfWay
  <2> QED BY <2>1, <2>2, <2>5
<1> QED BY <1>2, <1>3, <1>4

LEMMA EncodedTreated ==
  ASSUME TypeOK, InstrOK, AccOK, phase \in {"data", "data2"}, instr.op # "prefetch",
         is_encoded_lim_ptr(instr.ptr)
  PROVE  ~uninit /\ Modifies
<1>1. ~uninit
  BY DEF AccOK
<1>2. CASE phase = "data"
  BY <1>1, <1>2 DEF AccOK, Modifies, About, Lo, OnFirst
<1>3. CASE phase = "data2"
  BY <1>1, <1>3 DEF AccOK, Modifies, About, Lo, OnFirst
<1> QED BY <1>1, <1>2, <1>3

LEMMA LinearUntreated ==
  ASSUME TypeOK, InstrOK, AccOK, ObjsOK, phase \in {"data", "data2"},
         ~is_encoded_lim_ptr(instr.ptr)
  PROVE  ~Modifies
<1>1. CASE ~uninit
  BY <1>1, Treated
<1>2. CASE uninit
  BY <1>2 DEF AccOK, Uninitialized, Modifies
<1> QED BY <1>1, <1>2

\* The bytes of a transaction that is let through are data of the object.
LEMMA PartInData ==
  ASSUME TypeOK, InstrOK, phase \in {"data", "data2"}, NEW o \in objs, WellPlaced(o), About(o),
         o.lower_la <= Lo, ~CrossesUpper
  PROVE  Part \subseteq DataOf(o) /\ Hi + o.meta_size <= o.upper_la /\ Lo \in Int /\ Hi \in Int
<1>1. Lo \in Int /\ Hi \in Int
  BY PartInside
<1>2. /\ o.meta_size \in Nat /\ o.upper_la \in Int /\ o.lower_la \in Int
  BY PlacedNumbers
<1>3. Hi + o.meta_size <= o.upper_la
  BY <1>1, <1>2 DEF CrossesUpper, About
<1> QED BY <1>1, <1>2, <1>3 DEF Part, DataOf

LEMMA OwnObject ==
  ASSUME IInv
  PROVE  OwnObjectOnly
<1> SUFFICES ASSUME InData, instr.op # "prefetch", ~(Modifies /\ CrossesUpper)
             PROVE  IF is_encoded_lim_ptr(instr.ptr) THEN Modifies /\ ~CrossesLower /\ Own(Part)
                    ELSE ~Modifies
  BY DEF OwnObjectOnly
<1>1. TypeOK /\ InstrOK /\ AccOK /\ ObjsOK /\ phase \in {"data", "data2"}
  BY DEF IInv, InData
<1>2. CASE ~is_encoded_lim_ptr(instr.ptr)
  BY <1>1, <1>2, LinearUntreated
<1>3. CASE is_encoded_lim_ptr(instr.ptr)
  <2>1. ~uninit /\ Modifies
    BY <1>1, <1>3, EncodedTreated
  <2>2. PICK o \in objs : PointsTo(o) /\ About(o) /\ o.lower_la <= Lo
    BY <1>1, <2>1, Treated
  <2>3. WellPlaced(o) /\ ~CrossesUpper
    BY <1>1, <2>1 DEF ObjsOK
  <2>4. Part \subseteq DataOf(o) /\ Lo \in Int
    BY <1>1, <2>2, <2>3, PartInData
  <2>5. Own(Part)
    BY <2>2, <2>4 DEF Own, PointsTo
  <2>6. ~CrossesLower
    <3>1. o.lower_la \in Int
      BY <2>3, PlacedNumbers
    <3> QED BY <2>2, <2>4, <3>1 DEF CrossesLower, About
  <2> QED BY <1>3, <2>1, <2>5, <2>6
<1> QED BY <1>2, <1>3

\* The object a pointer was made for is the one of its tag.
LEMMA OwnObjectOf ==
  ASSUME InstrOK, ObjsOK, phase # "idle", NEW o \in objs, instr.ptr.tag = o.tag
  PROVE  is_encoded_lim_ptr(instr.ptr) /\ PointsTo(o) /\ \A q \in objs : PointsTo(q) => q = o
<1>1. o.tag # 0
  BY PlacedNumbers DEF ObjsOK
<1>2. is_encoded_lim_ptr(instr.ptr) /\ \E q \in objs : PointsTo(q)
  BY <1>1 DEF InstrOK
<1>3. \A q \in objs : PointsTo(q) => q = o
  BY DEF ObjsOK, PointsTo
<1> QED BY <1>2, <1>3

LEMMA Justified ==
  ASSUME IInv
  PROVE  FaultsJustified
<1> SUFFICES ASSUME \/ phase = "addr" /\ Refused(instr.ptr, DecodedMeta(instr.ptr))
                    \/ InData /\ Modifies /\ CrossesUpper,
                    NEW o \in objs, instr.ptr.tag = o.tag, First .. Last \subseteq DataOf(o)
             PROVE  FALSE
  BY DEF FaultsJustified, Own
<1>1. TypeOK /\ InstrOK /\ AccOK /\ ObjsOK /\ MetadataKept /\ phase # "idle" /\ WellPlaced(o)
  BY DEF IInv, InData, ObjsOK
<1>2. is_encoded_lim_ptr(instr.ptr) /\ PointsTo(o) /\ \A q \in objs : PointsTo(q) => q = o
  BY <1>1, OwnObjectOf
<1>3. First \in Int /\ Last \in Int /\ First <= Last /\ Hi \in Int /\ Hi <= Last
  BY <1>1, PartInside
<1>4. First \in DataOf(o) /\ Last \in DataOf(o)
  BY <1>3
<1>5. /\ o.meta_size \in Nat /\ o.upper_la \in Int /\ o.lower_la \in Int
  BY <1>1, PlacedNumbers
<1>6. First \in BoundsOf(o) /\ Last <= o.upper_la - o.meta_size
  BY <1>3, <1>4, <1>5 DEF DataOf, BoundsOf
<1>7. CASE phase = "addr" /\ Refused(instr.ptr, DecodedMeta(instr.ptr))
  BY <1>1, <1>2, <1>6, <1>7, NotRefusedInside DEF First, PointsTo
<1>8. CASE InData /\ Modifies /\ CrossesUpper /\ ~uninit
  <2>1. PICK q \in objs : PointsTo(q) /\ About(q)
    BY <1>1, <1>8, Treated DEF InData
  <2>2. q = o
    BY <1>2, <2>1
  <2>3. Hi + o.meta_size > o.upper_la
    BY <1>8, <2>1, <2>2 DEF CrossesUpper, About
  <2> QED BY <1>3, <1>5, <1>6, <2>3
<1>9. CASE InData /\ Modifies /\ CrossesUpper /\ uninit
  <2>1. phase = "data" /\ Uninitialized
    BY <1>1, <1>9 DEF AccOK, InData, Modifies
  <2>2. acc.meta_size = o.meta_size /\ acc.dec.upper_la = get_slot_end(First, o.slot)
    BY <1>1, <1>2, <2>1 DEF Uninitialized, PointsTo, WellPlaced
  <2>3. First \in SlotOf(o)
    BY <1>1, <1>6, PlacedAddr
  <2>4. get_slot_start(First, o.slot) = get_slot_start(o.ptr, o.slot)
    BY <1>1, <1>2, <2>3, SlotShared DEF First, PointsTo
  <2>5. get_slot_end(First, o.slot) = get_slot_end(o.ptr, o.slot)
    BY <2>4 DEF get_slot_end
  <2>6. o.upper_la <= get_slot_end(o.ptr, o.slot) /\ get_slot_end(o.ptr, o.slot) \in Int
    <3>1. o.ptr \in Int /\ o.slot \in Nat /\ o.slot > 0
      BY <1>1, PlacedNumbers
    <3> QED BY <1>1, <3>1, SlotAround DEF WellPlaced
  <2>7. Hi + o.meta_size > get_slot_end(o.ptr, o.slot)
    BY <1>9, <2>2, <2>5 DEF CrossesUpper
  <2> QED BY <1>3, <1>5, <1>6, <2>6, <2>7
<1> QED BY <1>7, <1>8, <1>9

LEMMA InBounds ==
  ASSUME NEW o, WellPlaced(o)
  PROVE  DataOf(o) \subseteq BoundsOf(o) /\ MetaOf(o) \subseteq BoundsOf(o)
BY PlacedNumbers DEF DataOf, MetaOf, BoundsOf

LEMMA PlaceIsHome ==
  ASSUME NEW o, About(o), NEW a
  PROVE  Place(a) = HomeIn(o, a)
BY DEF About, Place, HomeIn, Displaced, lim_compute_disp_base, lim_compute_disp_size, Shifted

LEMMA PartPlain ==
  ASSUME TypeOK, InstrOK, phase # "idle", ~is_encoded_lim_ptr(instr.ptr)
  PROVE  Part \subseteq PlainBytes
BY PartInside DEF InstrOK

LEMMA ReadsLast ==
  ASSUME IInv
  PROVE  ReadsLastWrite
<1> SUFFICES ASSUME InData, instr.op = "load", ~(Modifies /\ CrossesUpper),
                    NEW a \in Part, content[a] # 0
             PROVE  mem[IF Modifies THEN Place(a) ELSE a] = Data(a, content[a])
  BY DEF ReadsLastWrite, Loaded
<1>1. TypeOK /\ InstrOK /\ AccOK /\ ObjsOK /\ Homes /\ phase \in {"data", "data2"} /\ phase # "idle"
  BY DEF IInv, InData
<1>2. a \in Addr
  BY <1>1, PartInside
<1>3. \/ a \in PlainBytes /\ mem[a] = Data(a, content[a])
      \/ \E o \in objs : a \in DataOf(o) /\ mem[HomeIn(o, a)] = Data(a, content[a])
  BY <1>1, <1>2 DEF Homes
<1>4. \A o \in objs : WellPlaced(o)
  BY <1>1 DEF ObjsOK
<1>5. CASE ~is_encoded_lim_ptr(instr.ptr)
  <2>1. ~Modifies /\ a \in PlainBytes
    BY <1>1, <1>5, LinearUntreated, PartPlain
  <2>2. \A o \in objs : a \notin DataOf(o)
    BY <1>4, <2>1, InBounds DEF PlainBytes
  <2> QED BY <1>3, <2>1, <2>2
<1>6. CASE is_encoded_lim_ptr(instr.ptr)
  <2>1. ~uninit /\ Modifies
    BY <1>1, <1>6, EncodedTreated
  <2>2. PICK o \in objs : About(o) /\ o.lower_la <= Lo
    BY <1>1, <2>1, Treated
  <2>3. a \in DataOf(o)
    BY <1>1, <1>4, <2>1, <2>2, PartInData
  <2>4. a \in BoundsOf(o)
    BY <1>4, <2>3, InBounds
  <2>5. PICK q \in objs : a \in DataOf(q) /\ mem[HomeIn(q, a)] = Data(a, content[a])
    BY <1>3, <2>4 DEF PlainBytes
  <2>6. q = o
    BY <1>1, <1>4, <2>4, <2>5, InBounds DEF ObjsOK
  <2>7. Place(a) = HomeIn(o, a)
    BY <2>2, PlaceIsHome
  <2> QED BY <2>1, <2>5, <2>6, <2>7
<1> QED BY <1>5, <1>6

-----------------------------------------------------------------------------
(***************************************************************************)
(* A store of an encoded pointer that is let through.                      *)
(***************************************************************************)
LEMMA HomeUnique ==
  ASSUME NEW o, WellPlaced(o), NEW a \in DataOf(o), NEW b \in DataOf(o),
         data_disp \in BOOLEAN, HomeIn(o, a) = HomeIn(o, b)
  PROVE  a = b
<1>1. CASE data_disp
  BY <1>1, DisplacedApart DEF HomeIn
<1>2. CASE ~data_disp
  BY <1>2, ShiftedApart DEF HomeIn
<1> QED BY <1>1, <1>2

LEMMA MovedAre ==
  ASSUME NEW o, About(o), NEW b
  PROVE  b \in Moved <=> \E a \in Part : HomeIn(o, a) = b /\ b # a
<1>1. \A a \in Part : Place(a) = HomeIn(o, a)
  BY PlaceIsHome
<1>2. b \in Moved <=> \E a \in Part : Place(a) = b /\ Place(a) # a
  BY Zenon DEF Moved
<1> QED BY <1>1, <1>2

LEMMA StoredAt ==
  ASSUME Modifies, NEW b \in Addr
  PROVE  Stored[b] = IF b \in Part THEN Fixup(b)
                     ELSE IF b \in Moved THEN Data(CHOOSE a \in Part : Place(a) = b, writes)
                     ELSE mem[b]
BY DEF Stored

LEMMA StoredMoved ==
  ASSUME NEW o, WellPlaced(o), About(o), Modifies, Part \subseteq DataOf(o), data_disp \in BOOLEAN,
         NEW a \in Part, HomeIn(o, a) \notin Part
  PROVE  Stored[HomeIn(o, a)] = Data(a, writes)
<1> DEFINE h == HomeIn(o, a)
           c == CHOOSE x \in Part : Place(x) = h
<1>1. h \in Addr
  BY HomeFacts, PlacedAddr
<1>2. h # a
  OBVIOUS
<1>3. h \in Moved
  BY <1>2, MovedAre
<1>4. Place(a) = h
  BY PlaceIsHome
<1>5. c \in Part /\ Place(c) = h
  BY <1>4
<1>6. HomeIn(o, c) = h
  BY <1>5, PlaceIsHome
<1>7. c = a
  <2>1. c \in DataOf(o) /\ a \in DataOf(o)
    BY <1>5
  <2> HIDE DEF c
  <2> QED BY <1>6, <2>1, HomeUnique
<1>8. Stored[h] = Data(c, writes)
  BY <1>1, <1>3, StoredAt
<1> HIDE DEF c
<1> QED BY <1>7, <1>8

LEMMA StoredOutside ==
  ASSUME NEW o, WellPlaced(o), About(o), Modifies, Part \subseteq DataOf(o), data_disp \in BOOLEAN,
         NEW b \in Addr, b \notin BoundsOf(o)
  PROVE  Stored[b] = mem[b]
<1>1. b \notin Part
  BY InBounds
<1>2. b \notin Moved
  BY MovedAre, HomeFacts
<1> QED BY <1>1, <1>2, StoredAt

\* What is neither written by the CPU nor by the callback, or is written back, stays.
LEMMA StoredKept ==
  ASSUME NEW o, WellPlaced(o), About(o), Modifies, NEW b \in Addr,
         b \in Part => Fixup(b) = mem[b], \A a \in Part : HomeIn(o, a) = b => a = b
  PROVE  Stored[b] = mem[b]
<1>1. b \notin Moved
  BY MovedAre
<1> QED BY <1>1, StoredAt

LEMMA FixupShift ==
  ASSUME NEW o, WellPlaced(o), About(o), data_disp = FALSE, NEW b \in Int, Lo \in Int
  PROVE  /\ b < FixupStart => Fixup(b) = Data(b, writes)
         /\ FixupStart <= b /\ b < FixupStart + o.meta_size => Fixup(b) = mem[b]
         /\ FixupStart + o.meta_size <= b => Fixup(b) = Data(b - o.meta_size, writes)
         /\ FixupStart = IF Lo < o.la_meta THEN o.la_meta ELSE Lo
         /\ FixupStart \in Int
<1>1. FixupStart = IF Lo < o.la_meta THEN o.la_meta ELSE Lo
  BY DEF FixupStart, About
<1>2. FixupStart \in Int /\ o.meta_size \in Nat /\ o.meta_size > 0
  BY <1>1, PlacedNumbers
<1>3. acc.meta_size = o.meta_size
  BY DEF About
<1>4. CASE b < FixupStart
  BY <1>1, <1>2, <1>3, <1>4 DEF Fixup
<1>5. CASE FixupStart <= b /\ b < FixupStart + o.meta_size
  BY <1>1, <1>2, <1>3, <1>5 DEF Fixup
<1>6. CASE FixupStart + o.meta_size <= b
  BY <1>1, <1>2, <1>3, <1>6 DEF Fixup
<1> QED BY <1>1, <1>2, <1>4, <1>5, <1>6

LEMMA FixupDisp ==
  ASSUME NEW o, WellPlaced(o), About(o), data_disp = TRUE, NEW b \in Int
  PROVE  /\ b \in MetaOf(o) => Fixup(b) = mem[b]
         /\ b \notin MetaOf(o) => Fixup(b) = Data(b, writes)
<1>1. MetaBytes = MetaOf(o)
  BY DEF About, MetaBytes, MetaOf
<1> QED BY <1>1 DEF Fixup

\* A store in shift mode, byte by byte of its object.
LEMMA StoredShift ==
  ASSUME NEW o, WellPlaced(o), About(o), Modifies, Part \subseteq DataOf(o), data_disp = FALSE,
         Lo \in Int, Hi \in Int
  PROVE  /\ \A b \in MetaOf(o) : Stored[b] = mem[b]
         /\ \A a \in Part : Stored[HomeIn(o, a)] = Data(a, writes)
         /\ \A a \in DataOf(o) \ Part : Stored[HomeIn(o, a)] = mem[HomeIn(o, a)]
<1> DEFINE l == o.la_meta
           m == o.meta_size
           H(a) == HomeIn(o, a)
           start == FixupStart
<1>1. l \in Int /\ m \in Nat /\ m > 0
  BY PlacedNumbers
<1>2. data_disp \in BOOLEAN
  OBVIOUS
<1>3. \A a \in DataOf(o) : a \in Int /\ H(a) \in Int /\ H(a) = IF a < l THEN a ELSE a + m
  BY ShiftedPlace DEF HomeIn
<1>4. \A a \in DataOf(o) : H(a) \in Addr
  BY <1>2, HomeFacts, PlacedAddr
<1>5. start \in Int /\ start = IF Lo < l THEN l ELSE Lo
  BY FixupShift
<1>6. \A b \in Int : /\ b < start => Fixup(b) = Data(b, writes)
                     /\ start <= b /\ b < start + m => Fixup(b) = mem[b]
                     /\ start + m <= b => Fixup(b) = Data(b - m, writes)
  BY FixupShift
<1>7. \A b \in Int : b \in Part <=> Lo <= b /\ b <= Hi
  BY DEF Part
<1>8. \A a \in Part : a \in DataOf(o) /\ a \in Int /\ Lo <= a /\ a <= Hi
  BY <1>3, <1>7
<1>9. \A a, b \in DataOf(o) : H(a) = H(b) => a = b
  BY <1>2, HomeUnique
<1>10. \A b \in Addr : (b \in Part => Fixup(b) = mem[b]) /\ (\A a \in Part : H(a) = b => a = b)
                         => Stored[b] = mem[b]
  BY StoredKept
<1>11. \A a \in Part : H(a) \notin Part => Stored[H(a)] = Data(a, writes)
  BY <1>2, StoredMoved
<1>12. \A b \in Addr : b \in Part => Stored[b] = Fixup(b)
  BY StoredAt
<1>13. \A b \in MetaOf(o) : b \in Addr /\ b \in Int /\ l <= b /\ b < l + m
  BY <1>1, InBounds, PlacedAddr DEF MetaOf
<1> HIDE DEF l, m, H, start
<1>14. ASSUME NEW b \in MetaOf(o)
       PROVE  Stored[b] = mem[b]
  <2>1. b \in Addr /\ b \in Int /\ l <= b /\ b < l + m
    BY <1>13
  <2>2. ASSUME b \in Part
        PROVE  Fixup(b) = mem[b]
    <3>1. start <= b /\ b < start + m
      BY <1>1, <1>5, <1>7, <2>1, <2>2
    <3> QED BY <1>6, <2>1, <3>1
  <2>3. ASSUME NEW a \in Part, H(a) = b
        PROVE  a = b
    BY <1>1, <1>3, <1>8, <2>1, <2>3
  <2> QED BY <1>10, <2>1, <2>2, <2>3
<1>15. ASSUME NEW a \in Part
       PROVE  Stored[H(a)] = Data(a, writes)
  <2>1. a \in DataOf(o) /\ a \in Int /\ Lo <= a /\ a <= Hi
    BY <1>8
  <2>2. CASE H(a) \notin Part
    BY <1>11, <2>2
  <2>3. CASE H(a) \in Part /\ a < l
    <3>1. H(a) = a /\ a < start
      BY <1>1, <1>3, <1>5, <2>1, <2>3
    <3> QED BY <1>4, <1>6, <1>12, <2>1, <2>3, <3>1
  <2>4. CASE H(a) \in Part /\ ~(a < l)
    <3>1. H(a) = a + m /\ start + m <= a + m /\ a + m \in Int /\ (a + m) - m = a
      BY <1>1, <1>3, <1>5, <2>1, <2>4
    <3>2. Fixup(a + m) = Data((a + m) - m, writes)
      BY <1>6, <3>1
    <3> QED BY <1>4, <1>12, <2>1, <2>4, <3>1, <3>2
  <2> QED BY <2>2, <2>3, <2>4
<1>16. ASSUME NEW a \in DataOf(o) \ Part
       PROVE  Stored[H(a)] = mem[H(a)]
  <2>1. a \in Int /\ H(a) \in Int /\ H(a) \in Addr
    BY <1>3, <1>4
  <2>2. ASSUME H(a) \in Part
        PROVE  Fixup(H(a)) = mem[H(a)]
    <3>1. H(a) = a + m /\ ~(a < l)
      BY <1>3, <2>2
    <3>2. a < Lo
      BY <1>1, <1>7, <2>1, <2>2, <3>1
    <3>3. start <= H(a) /\ H(a) < start + m
      BY <1>1, <1>5, <1>7, <2>1, <2>2, <3>1, <3>2
    <3> QED BY <1>6, <2>1, <3>3
  <2>3. ASSUME NEW c \in Part, H(c) = H(a)
        PROVE  c = H(a)
    BY <1>8, <1>9, <2>3
  <2> QED BY <1>10, <2>1, <2>2, <2>3
<1> QED BY <1>14, <1>15, <1>16 DEF H

\* A store in data_disp mode.
LEMMA StoredDisp ==
  ASSUME NEW o, WellPlaced(o), About(o), Modifies, Part \subseteq DataOf(o), data_disp = TRUE
  PROVE  /\ \A b \in MetaOf(o) : Stored[b] = mem[b]
         /\ \A a \in Part : Stored[HomeIn(o, a)] = Data(a, writes)
         /\ \A a \in DataOf(o) \ Part : Stored[HomeIn(o, a)] = mem[HomeIn(o, a)]
<1> DEFINE H(a) == HomeIn(o, a)
           top == o.upper_la - o.meta_size
<1>1. top \in Int
  BY PlacedNumbers
<1>2. data_disp \in BOOLEAN
  OBVIOUS
<1>3. \A a \in DataOf(o) : /\ a \in Int /\ a <= top /\ H(a) \in Int /\ H(a) \in Addr
                           /\ H(a) \notin MetaOf(o)
                           /\ a \notin MetaOf(o) => H(a) = a
                           /\ a \in MetaOf(o) => H(a) > top
  <2>1. \A a \in DataOf(o) : a <= top
    BY PlacedNumbers DEF DataOf
  <2>2. \A a \in DataOf(o) : H(a) \in Addr
    BY <1>2, HomeFacts, PlacedAddr
  <2> QED BY <2>1, <2>2, DisplacedPlace DEF HomeIn
<1>4. \A b \in Int : /\ b \in MetaOf(o) => Fixup(b) = mem[b]
                     /\ b \notin MetaOf(o) => Fixup(b) = Data(b, writes)
  BY FixupDisp
<1>5. \A a, b \in DataOf(o) : H(a) = H(b) => a = b
  BY <1>2, HomeUnique
<1>6. \A b \in Addr : (b \in Part => Fixup(b) = mem[b]) /\ (\A a \in Part : H(a) = b => a = b)
                         => Stored[b] = mem[b]
  BY StoredKept
<1>7. \A a \in Part : H(a) \notin Part => Stored[H(a)] = Data(a, writes)
  BY <1>2, StoredMoved
<1>8. \A b \in Addr : b \in Part => Stored[b] = Fixup(b)
  BY StoredAt
<1>9. \A b \in MetaOf(o) : b \in Addr /\ b \in Int
  BY PlacedNumbers, InBounds, PlacedAddr DEF MetaOf
<1> HIDE DEF H, top
<1>10. ASSUME NEW b \in MetaOf(o)
       PROVE  Stored[b] = mem[b]
  BY <1>3, <1>4, <1>6, <1>9
<1>11. ASSUME NEW a \in Part
       PROVE  Stored[H(a)] = Data(a, writes)
  <2>1. CASE H(a) \notin Part
    BY <1>7, <2>1
  <2>2. CASE H(a) \in Part
    <3>1. H(a) <= top /\ a \in DataOf(o)
      BY <1>3, <2>2
    <3>2. a \notin MetaOf(o) /\ H(a) = a /\ a \in Int /\ a \in Addr
      BY <1>1, <1>3, <3>1
    <3> QED BY <1>4, <1>8, <2>2, <3>2
  <2> QED BY <2>1, <2>2
<1>12. ASSUME NEW a \in DataOf(o) \ Part
       PROVE  Stored[H(a)] = mem[H(a)]
  <2>1. a \in Int /\ H(a) \in Int /\ H(a) \in Addr
    BY <1>3
  <2>2. H(a) \notin Part
    <3>1. CASE a \in MetaOf(o)
      BY <1>1, <1>3, <3>1
    <3>2. CASE a \notin MetaOf(o)
      BY <1>3, <3>2
    <3> QED BY <3>1, <3>2
  <2>3. ASSUME NEW c \in Part, H(c) = H(a)
        PROVE  c = H(a)
    BY <1>5, <2>3
  <2> QED BY <1>6, <2>1, <2>2, <2>3
<1> QED BY <1>10, <1>11, <1>12 DEF H

\* A store seen from the program: the metadata stays, and of the homes of the bytes those
\* stored to change, in the accessed object, in other objects and in plain memory.
LEMMA StoredHomes ==
  ASSUME IInv, phase \in {"data", "data2"}, instr.op = "store", ~(Modifies /\ CrossesUpper)
  PROVE  /\ \A q \in objs : \A b \in MetaOf(q) : Stored[b] = mem[b]
         /\ \A a \in PlainBytes : Stored[a] = IF a \in Part THEN Data(a, writes) ELSE mem[a]
         /\ \A q \in objs : \A a \in DataOf(q) :
              Stored[HomeIn(q, a)] = IF a \in Part THEN Data(a, writes) ELSE mem[HomeIn(q, a)]
         /\ Part \subseteq PlainBytes \/ \E q \in objs : Part \subseteq DataOf(q)
<1>1. TypeOK /\ InstrOK /\ AccOK /\ ObjsOK /\ data_disp \in BOOLEAN /\ phase # "idle"
  BY DEF IInv, TypeOK
<1>2. \A q \in objs : WellPlaced(q)
  BY <1>1 DEF ObjsOK
<1>3. \A q \in objs : /\ BoundsOf(q) \subseteq Addr /\ DataOf(q) \subseteq BoundsOf(q)
                      /\ MetaOf(q) \subseteq BoundsOf(q)
  BY <1>2, PlacedAddr, InBounds
<1>4. \A q \in objs : \A a \in DataOf(q) : HomeIn(q, a) \in BoundsOf(q)
  BY <1>1, <1>2, HomeFacts
<1>5. PlainBytes \subseteq Addr /\ \A q \in objs : \A a \in BoundsOf(q) : a \notin PlainBytes
  BY DEF PlainBytes
<1>6. CASE ~is_encoded_lim_ptr(instr.ptr)
  <2>1. ~Modifies /\ Part \subseteq PlainBytes
    BY <1>1, <1>6, LinearUntreated, PartPlain
  <2>2. \A b \in Addr : Stored[b] = IF b \in Part THEN Data(b, writes) ELSE mem[b]
    BY <2>1 DEF Stored
  <2>3. \A q \in objs : \A b \in BoundsOf(q) : b \notin Part /\ b \in Addr
    BY <1>3, <1>5, <2>1
  <2>4. \A q \in objs : \A b \in BoundsOf(q) : Stored[b] = mem[b]
    BY <2>2, <2>3
  <2>5. \A q \in objs : \A a \in DataOf(q) : Stored[HomeIn(q, a)] = mem[HomeIn(q, a)] /\ a \notin Part
    BY <1>3, <1>4, <2>3, <2>4
  <2>6. \A q \in objs : \A b \in MetaOf(q) : Stored[b] = mem[b]
    BY <1>3, <2>4
  <2>7. \A a \in PlainBytes : Stored[a] = IF a \in Part THEN Data(a, writes) ELSE mem[a]
    BY <1>5, <2>2
  <2> QED BY <2>1, <2>5, <2>6, <2>7
<1>7. CASE is_encoded_lim_ptr(instr.ptr)
  <2>1. ~uninit /\ Modifies
    BY <1>1, <1>7, EncodedTreated
  <2>2. PICK o \in objs : About(o) /\ o.lower_la <= Lo
    BY <1>1, <2>1, Treated
  <2>3. WellPlaced(o) /\ Part \subseteq DataOf(o) /\ Lo \in Int /\ Hi \in Int
    BY <1>1, <1>2, <2>1, <2>2, PartInData
  <2>4. /\ \A b \in MetaOf(o) : Stored[b] = mem[b]
        /\ \A a \in Part : Stored[HomeIn(o, a)] = Data(a, writes)
        /\ \A a \in DataOf(o) \ Part : Stored[HomeIn(o, a)] = mem[HomeIn(o, a)]
    <3>1. CASE data_disp = TRUE
      BY <2>1, <2>2, <2>3, <3>1, StoredDisp
    <3>2. CASE data_disp = FALSE
      BY <2>1, <2>2, <2>3, <3>2, StoredShift
    <3> QED BY <1>1, <3>1, <3>2
  <2>5. \A b \in Addr : b \notin BoundsOf(o) => Stored[b] = mem[b]
    BY <1>1, <2>1, <2>2, <2>3, StoredOutside
  <2>6. \A q \in objs : q # o => \A b \in BoundsOf(q) : b \in Addr /\ b \notin BoundsOf(o)
    BY <1>1, <1>3 DEF ObjsOK
  <2>7. \A q \in objs : q # o => \A b \in BoundsOf(q) : Stored[b] = mem[b] /\ b \notin Part
    BY <1>3, <2>3, <2>5, <2>6
  <2>8. ASSUME NEW q \in objs, NEW b \in MetaOf(q)
        PROVE  Stored[b] = mem[b]
    BY <1>3, <2>4, <2>7
  <2>9. ASSUME NEW a \in PlainBytes
        PROVE  Stored[a] = IF a \in Part THEN Data(a, writes) ELSE mem[a]
    <3>1. a \in Addr /\ a \notin BoundsOf(o)
      BY <1>5
    <3>2. a \notin Part
      BY <1>3, <2>3, <3>1
    <3> QED BY <2>5, <3>1, <3>2
  <2>10. ASSUME NEW q \in objs, NEW a \in DataOf(q)
         PROVE  Stored[HomeIn(q, a)] = IF a \in Part THEN Data(a, writes) ELSE mem[HomeIn(q, a)]
    <3>1. CASE q = o
      BY <2>4, <3>1
    <3>2. CASE q # o
      <4>1. a \notin Part
        BY <1>3, <2>7, <3>2
      <4>2. Stored[HomeIn(q, a)] = mem[HomeIn(q, a)]
        BY <1>4, <2>7, <3>2
      <4> QED BY <4>1, <4>2
    <3> QED BY <3>1, <3>2
  <2> QED BY <2>3, <2>8, <2>9, <2>10
<1> QED BY <1>6, <1>7

LEMMA StoredBytes ==
  ASSUME NEW b \in Addr
  PROVE  Stored[b] = mem[b] \/ \E a, w : Stored[b] = Data(a, w)
<1>1. Fixup(b) = mem[b] \/ \E a, w : Fixup(b) = Data(a, w)
  BY DEF Fixup
<1>2. \/ Stored[b] = Fixup(b) \/ Stored[b] = mem[b]
      \/ Stored[b] = Data(b, writes) \/ Stored[b] = Data(CHOOSE a \in Part : Place(a) = b, writes)
  BY DEF Stored
<1> QED BY <1>1, <1>2

\* The parts of the invariant about memory.
MemOK == ObjsOK /\ MetadataKept /\ TagsInMetadata /\ Homes
MemTypes == DOMAIN mem = Addr /\ content \in [Addr -> 0 .. MaxWrites]

LEMMA StoreKeeps ==
  ASSUME IInv, phase \in {"data", "data2"}, instr.op = "store", ~(Modifies /\ CrossesUpper),
         mem' = Stored, content' = [a \in Addr |-> IF a \in Part THEN writes ELSE content[a]],
         data_disp' = data_disp, objs' = objs
  PROVE  MemOK' /\ MemTypes'
<1>1. ObjsOK /\ MetadataKept /\ TagsInMetadata /\ Homes /\ TypeOK
  BY DEF IInv
<1>2. ObjsOK'
  BY <1>1 DEF ObjsOK
<1>3. MemTypes'
  BY <1>1 DEF MemTypes, TypeOK, Stored
<1>4. /\ \A q \in objs : \A b \in MetaOf(q) : Stored[b] = mem[b]
      /\ \A a \in PlainBytes : Stored[a] = IF a \in Part THEN Data(a, writes) ELSE mem[a]
      /\ \A q \in objs : \A a \in DataOf(q) :
           Stored[HomeIn(q, a)] = IF a \in Part THEN Data(a, writes) ELSE mem[HomeIn(q, a)]
      /\ Part \subseteq PlainBytes \/ \E q \in objs : Part \subseteq DataOf(q)
  BY StoredHomes
<1>5. MetadataKept'
  BY <1>1, <1>4 DEF MetadataKept
<1>6. TagsInMetadata'
  <2> SUFFICES ASSUME NEW a \in Addr, Stored[a].tag # 0
               PROVE  \E o \in objs : a \in MetaOf(o)
    BY DEF TagsInMetadata
  <2>1. \A k, w : Data(k, w).tag = 0
    BY DEF Data
  <2>2. Stored[a] = mem[a]
    BY <2>1, StoredBytes
  <2> QED BY <1>1, <2>2 DEF TagsInMetadata
<1>7. PlainBytes' = PlainBytes /\ \A o, a : HomeIn(o, a)' = HomeIn(o, a)
  BY DEF PlainBytes, HomeIn
<1>8. Homes'
  <2> SUFFICES ASSUME NEW a \in Addr, content'[a] # 0
               PROVE  \/ a \in PlainBytes /\ Stored[a] = Data(a, content'[a])
                      \/ \E o \in objs : a \in DataOf(o) /\ Stored[HomeIn(o, a)] = Data(a, content'[a])
    BY <1>7 DEF Homes
  <2>1. content'[a] = IF a \in Part THEN writes ELSE content[a]
    OBVIOUS
  <2>2. CASE a \in Part
    BY <1>4, <2>1, <2>2
  <2>3. CASE a \notin Part
    <3>1. \/ a \in PlainBytes /\ mem[a] = Data(a, content[a])
          \/ \E o \in objs : a \in DataOf(o) /\ mem[HomeIn(o, a)] = Data(a, content[a])
      BY <1>1, <2>1, <2>3 DEF Homes
    <3> QED BY <1>4, <2>1, <2>3, <3>1
  <2> QED BY <2>2, <2>3
<1> QED BY <1>2, <1>3, <1>5, <1>6, <1>8 DEF MemOK

-----------------------------------------------------------------------------
(***************************************************************************)
(* The steps.                                                              *)
(***************************************************************************)
LEMMA MemFrame ==
  ASSUME IInv, UNCHANGED <<data_disp, mem, objs, content>>
  PROVE  MemOK' /\ MemTypes'
<1>1. ObjsOK /\ MetadataKept /\ TagsInMetadata /\ Homes /\ TypeOK
  BY DEF IInv
<1>2. ObjsOK' /\ MetadataKept' /\ TagsInMetadata' /\ MemTypes'
  BY <1>1 DEF ObjsOK, MetadataKept, TagsInMetadata, MemTypes, TypeOK
<1>3. PlainBytes' = PlainBytes /\ \A o, a : HomeIn(o, a)' = HomeIn(o, a)
  BY DEF PlainBytes, HomeIn
<1>4. Homes'
  BY <1>1, <1>3 DEF Homes
<1> QED BY <1>2, <1>4 DEF MemOK

LEMMA Together ==
  ASSUME MemOK', TypeOK', InstrOK', AccOK'
  PROVE  IInv'
BY DEF IInv, MemOK

\* The rest of an instruction is given up, or it is over.
LEMMA LeaveKeeps ==
  ASSUME IInv, Leave, MemTypes', UNCHANGED <<data_disp, mapped, objs, writes, uninit>>,
         acc' = NoAcc \/ acc' = acc
  PROVE  TypeOK' /\ InstrOK' /\ AccOK'
<1>1. TypeOK /\ AccOK
  BY DEF IInv
<1>2. phase' = "idle" /\ instr' = NoInstr
  BY DEF Leave
<1>3. TypeOK'
  BY <1>1, <1>2 DEF TypeOK, MemTypes
<1>4. InstrOK'
  BY <1>2 DEF InstrOK
<1>5. acc' # NoAcc /\ ~uninit' => \E o \in objs' : About(o)'
  BY <1>1 DEF AccOK, About
<1>6. AccOK'
  BY <1>1, <1>2, <1>5 DEF AccOK
<1> QED BY <1>3, <1>4, <1>6

LEMMA EncodeKeeps ==
  ASSUME IInv, NEW x \in Allocs, Encode(x)
  PROVE  IInv'
<1> DEFINE o == ObjectOf(x)
<1>1. ObjsOK /\ MetadataKept /\ TagsInMetadata /\ Homes /\ TypeOK /\ AccOK
  BY DEF IInv
<1>2. /\ WellPlaced(o) /\ o.ptr = x[1] /\ o.size = x[2] /\ o.tag = x[3]
  BY ObjectPlaced DEF Encode
<1>3. /\ phase = "idle"
      /\ \A q \in objs : q.tag # o.tag /\ BoundsOf(q) \cap BoundsOf(o) = {}
      /\ objs' = objs \cup {o}
      /\ mem' = set_metadata(o)
      /\ content' = [a \in Addr |-> IF a \in BoundsOf(o) THEN 0 ELSE content[a]]
      /\ UNCHANGED <<data_disp, mapped, acc, phase, instr, writes, uninit>>
  BY DEF Encode
<1> HIDE DEF o
<1>4. \A q \in objs' : WellPlaced(q)
  BY <1>1, <1>2, <1>3 DEF ObjsOK
<1>5. ObjsOK'
  <2>1. \A q, r \in objs' : q # r => q.tag # r.tag /\ BoundsOf(q) \cap BoundsOf(r) = {}
    BY <1>1, <1>3 DEF ObjsOK
  <2> QED BY <1>4, <2>1 DEF ObjsOK
<1>6. \A q \in objs' : /\ BoundsOf(q) \subseteq Addr /\ DataOf(q) \subseteq BoundsOf(q)
                       /\ MetaOf(q) \subseteq BoundsOf(q)
  BY <1>4, PlacedAddr, InBounds
<1>7. /\ \A a \in MetaOf(o) : mem'[a] = Meta(a - o.la_meta, o.lb, o.ub, o.tag)
      /\ \A a \in Addr : a \notin MetaOf(o) => mem'[a] = mem[a]
  BY <1>3, <1>6 DEF set_metadata
<1>8. \A q \in objs : \A a \in BoundsOf(q) : a \in Addr /\ a \notin BoundsOf(o) /\ mem'[a] = mem[a]
  BY <1>3, <1>6, <1>7
<1>9. MetadataKept'
  <2>1. \A q \in objs : \A a \in MetaOf(q) : mem'[a] = mem[a]
    BY <1>3, <1>6, <1>8
  <2> QED BY <1>1, <1>3, <1>7, <2>1 DEF MetadataKept
<1>10. TagsInMetadata'
  BY <1>1, <1>3, <1>7 DEF TagsInMetadata
<1>11. MemTypes'
  BY <1>1, <1>3, Constants DEF TypeOK, MemTypes, set_metadata
<1>12. Homes'
  <2> SUFFICES ASSUME NEW a \in Addr, content'[a] # 0
               PROVE  \/ (a \in PlainBytes)' /\ mem'[a] = Data(a, content'[a])
                      \/ \E q \in objs' : a \in DataOf(q) /\ mem'[HomeIn(q, a)'] = Data(a, content'[a])
    BY DEF Homes
  <2>1. a \notin BoundsOf(o) /\ content'[a] = content[a]
    BY <1>3
  <2>2. \A q : HomeIn(q, a)' = HomeIn(q, a)
    BY <1>3 DEF HomeIn
  <2>3. CASE a \in PlainBytes /\ mem[a] = Data(a, content[a])
    <3>1. (a \in PlainBytes)'
      BY <1>3, <2>1, <2>3 DEF PlainBytes
    <3> QED BY <1>3, <1>6, <1>7, <2>1, <2>3, <3>1
  <2>4. CASE \E q \in objs : a \in DataOf(q) /\ mem[HomeIn(q, a)] = Data(a, content[a])
    <3>1. PICK q \in objs : a \in DataOf(q) /\ mem[HomeIn(q, a)] = Data(a, content[a])
      BY <2>4
    <3>2. HomeIn(q, a) \in BoundsOf(q)
      BY <1>1, <3>1, HomeFacts DEF ObjsOK, TypeOK
    <3>3. mem'[HomeIn(q, a)] = mem[HomeIn(q, a)]
      BY <1>8, <3>2
    <3> QED BY <1>3, <2>1, <2>2, <3>1, <3>3
  <2> QED BY <1>1, <2>1, <2>3, <2>4 DEF Homes
<1>13. TypeOK'
  <2>1. \A q \in objs' : <<q.ptr, q.size, q.tag>> \in Allocs
    BY <1>4 DEF WellPlaced
  <2> QED BY <1>1, <1>3, <1>11, <2>1 DEF TypeOK, MemTypes, Crosses
<1>14. InstrOK'
  BY <1>3 DEF InstrOK
<1>15. AccOK'
  <2>1. acc' # NoAcc /\ ~uninit' => \E q \in objs' : About(q)'
    BY <1>1, <1>3 DEF AccOK, About
  <2> QED BY <1>1, <1>3, <2>1 DEF AccOK
<1> QED BY <1>5, <1>9, <1>10, <1>12, <1>13, <1>14, <1>15, Together DEF MemOK

LEMMA StartKeeps ==
  ASSUME IInv, NEW op \in {"load", "store", "prefetch"}, NEW o \in objs \cup {NoObj},
         NEW la \in Starts, NEW n \in AccessSizes, Start(op, o, la, n)
  PROVE  IInv'
<1>1. TypeOK /\ AccOK /\ ObjsOK
  BY DEF IInv
<1>2. /\ phase = "idle" /\ ~uninit
      /\ la .. la + n - 1 \subseteq IF o \in objs THEN Addr ELSE PlainBytes
      /\ op = "store" => writes < MaxWrites
      /\ phase' = "addr"
      /\ writes' = IF op = "store" THEN writes + 1 ELSE writes
      /\ UNCHANGED <<data_disp, mem, mapped, objs, acc, content, uninit>>
  BY DEF Start
<1>3. /\ instr'.op = op /\ instr'.size = n /\ instr'.ptr.la = la
      /\ instr'.ptr.tag = IF o \in objs THEN o.tag ELSE 0
      /\ instr'.ptr.slot = IF o \in objs THEN o.slot ELSE 0
  BY DEF Start
<1>4. la \in Nat /\ n \in Nat \ {0}
  BY LimAssumption
<1>5. MemOK' /\ MemTypes'
  BY <1>2, MemFrame
<1>6. instr' # NoInstr
  BY <1>3 DEF NoInstr
<1>7. writes' \in 0 .. MaxWrites
  BY <1>1, <1>2, Constants DEF TypeOK
<1>8. TypeOK'
  BY <1>1, <1>2, <1>5, <1>6, <1>7 DEF TypeOK, MemTypes
<1>9. First' = la /\ Last' = la + n - 1
  BY <1>3 DEF First, Last
<1>10. PlainBytes' = PlainBytes /\ PlainBytes \subseteq Addr
  BY <1>2 DEF PlainBytes
<1>11. InstrOK'
  <2>1. /\ instr'.op \in {"load", "store", "prefetch"}
        /\ First' \in Nat /\ instr'.size \in Nat \ {0} /\ (First .. Last)' \subseteq Addr
    BY <1>2, <1>3, <1>4, <1>9, <1>10
  <2>2. CASE o \in objs
    <3>1. o.slot # 0
      BY <1>1, <2>2, PlacedNumbers DEF ObjsOK
    <3>2. is_encoded_lim_ptr(instr'.ptr) /\ PointsTo(o)'
      BY <1>3, <2>2, <3>1 DEF is_encoded_lim_ptr, PointsTo
    <3> QED BY <1>2, <2>1, <2>2, <3>2 DEF InstrOK
  <2>3. CASE o \notin objs
    <3>1. ~is_encoded_lim_ptr(instr'.ptr) /\ instr'.ptr.tag = 0
      BY <1>3, <2>3 DEF is_encoded_lim_ptr
    <3>2. (First .. Last)' \subseteq PlainBytes'
      BY <1>2, <1>9, <1>10, <2>3
    <3> QED BY <2>1, <3>1, <3>2 DEF InstrOK
  <2> QED BY <2>2, <2>3
<1>12. AccOK'
  <2>1. acc' # NoAcc /\ ~uninit' => \E q \in objs' : About(q)'
    BY <1>1, <1>2 DEF AccOK, About
  <2> QED BY <1>1, <1>2, <2>1 DEF AccOK
<1> QED BY <1>5, <1>8, <1>11, <1>12, Together

\* An instruction that goes on keeps its pointer.
LEMMA InstrFrame ==
  ASSUME InstrOK, phase # "idle", UNCHANGED <<objs, instr>>
  PROVE  InstrOK'
<1>1. First' = First /\ Last' = Last /\ \A o : PointsTo(o)' = PointsTo(o)
  BY SameInstr
<1>2. PlainBytes' = PlainBytes
  BY DEF PlainBytes
<1> QED BY <1>1, <1>2 DEF InstrOK

LEMMA TypeFrame ==
  ASSUME TypeOK, MemTypes', phase # "idle", UNCHANGED <<data_disp, mapped, objs, instr, writes>>,
         uninit' \in BOOLEAN, phase' \in {"data", "addr2", "data2", "aborted"},
         acc' # NoAcc => acc'.la_decoded \in Addr /\ acc'.meta_size \in {1, 2, BigMeta},
         phase' # "data" => Crosses
  PROVE  TypeOK'
<1>1. Crosses' = Crosses
  BY SameInstr
<1>2. phase' # "idle" /\ instr' # NoInstr
  BY DEF TypeOK
<1> QED BY <1>1, <1>2 DEF TypeOK, MemTypes

LEMMA AccOfFields ==
  ASSUME NEW p, NEW d
  PROVE  /\ AccOf(p, d).la_decoded = p.la /\ AccOf(p, d).la_meta = MetaLo(p)
         /\ AccOf(p, d).meta_size = get_metadata_size(p.slot)
         /\ AccOf(p, d).crossing = CrossingInfo /\ AccOf(p, d).dec = d
BY DEF AccOf

LEMMA AccOfDomain ==
  ASSUME NEW p, NEW d
  PROVE  DOMAIN AccOf(p, d) = DOMAIN NoAcc
BY DEF AccOf, NoAcc

LEMMA AddressBeforeKeeps ==
  ASSUME IInv, AddressBefore
  PROVE  IInv'
<1> DEFINE p == instr.ptr
           d == DecodedMeta(p)
<1>1. TypeOK /\ InstrOK /\ AccOK /\ ObjsOK /\ MetadataKept /\ TagsInMetadata
  BY DEF IInv
<1>2. /\ phase = "addr" /\ is_encoded_lim_ptr(p)
      /\ IF Refused(p, d) THEN acc' = NoAcc /\ Leave
         ELSE acc' = AccOf(p, d) /\ phase' = "data" /\ UNCHANGED instr
      /\ UNCHANGED <<data_disp, mem, mapped, objs, writes, content, uninit>>
  BY DEF AddressBefore
<1>3. MemOK' /\ MemTypes'
  BY <1>2, MemFrame
<1>4. CASE Refused(p, d)
  BY <1>2, <1>3, <1>4, LeaveKeeps, Together
<1>5. CASE ~Refused(p, d)
  <2>1. acc' = AccOf(p, d) /\ phase' = "data" /\ instr' = instr
    BY <1>2, <1>5
  <2>2. PICK o \in objs : PointsTo(o)
    BY <1>1, <1>2 DEF InstrOK
  <2>3. p.slot = o.slot /\ p.tag = o.tag /\ p.la = First
    BY <2>2 DEF PointsTo, First
  <2>4. First \in Addr
    <3>1. First \in First .. Last /\ First .. Last \subseteq Addr
      BY <1>1, <1>2, PartInside
    <3> QED BY <3>1
  <2>5. /\ d = DecOf(o) /\ First \in BoundsOf(o)
        /\ MetaLo(p) = o.la_meta /\ get_metadata_size(p.slot) = o.meta_size
    BY <1>1, <1>5, <2>3, <2>4, NotRefused
  <2>6. /\ acc'.la_decoded = First /\ acc'.la_meta = o.la_meta /\ acc'.meta_size = o.meta_size
        /\ acc'.crossing = CrossingInfo
        /\ acc'.dec.lower_la = o.lower_la /\ acc'.dec.upper_la = o.upper_la
    BY <2>1, <2>3, <2>5, AccOfFields DEF DecOf
  <2>7. o.meta_size > 0 /\ o.meta_size \in {1, 2, BigMeta} /\ o.meta_size \in Nat
    BY <1>1, PlacedNumbers DEF ObjsOK
  <2>8. acc' # NoAcc
    BY <2>6, <2>7 DEF NoAcc
  <2>9. About(o)'
    BY <2>5, <2>6, <2>8 DEF About
  <2>10. TypeOK'
    BY <1>1, <1>2, <1>3, <2>1, <2>4, <2>6, <2>7, TypeFrame DEF TypeOK
  <2>11. InstrOK'
    BY <1>1, <1>2, <2>1, InstrFrame
  <2>12. First' = First /\ CrossingInfo' = CrossingInfo /\ PointsTo(o)'
    BY <1>2, <2>1, <2>2, SameInstr DEF CrossingInfo, OnFirst
  <2>13. ~uninit /\ ~uninit'
    BY <1>1, <1>2 DEF AccOK
  <2>14. AccOK'
    BY <1>2, <2>1, <2>6, <2>9, <2>12, <2>13, AccOfDomain DEF AccOK
  <2> QED BY <1>3, <2>10, <2>11, <2>14, Together
<1> QED BY <1>4, <1>5

LEMMA PrefetchGarbageKeeps ==
  ASSUME IInv, PrefetchGarbage
  PROVE  IInv'
<1> DEFINE p == instr.ptr
<1>1. TypeOK /\ InstrOK /\ AccOK /\ ObjsOK
  BY DEF IInv
<1>2. /\ phase = "addr" /\ is_encoded_lim_ptr(p) /\ instr.op = "prefetch"
      /\ UNCHANGED <<data_disp, mem, mapped, objs, writes, content>>
  BY DEF PrefetchGarbage
<1>3. PICK d \in GarbageOf(p) :
        IF Refused(p, d) THEN acc' = NoAcc /\ Leave /\ UNCHANGED uninit
        ELSE acc' = AccOf(p, d) /\ phase' = "data" /\ uninit' = TRUE /\ UNCHANGED instr
  BY DEF PrefetchGarbage
<1>4. MemOK' /\ MemTypes'
  BY <1>2, MemFrame
<1>5. CASE Refused(p, d)
  BY <1>2, <1>3, <1>4, <1>5, LeaveKeeps, Together
<1>6. CASE ~Refused(p, d)
  <2>1. acc' = AccOf(p, d) /\ phase' = "data" /\ uninit' = TRUE /\ instr' = instr
    BY <1>3, <1>6
  <2>2. PICK o \in objs : PointsTo(o)
    BY <1>1, <1>2 DEF InstrOK
  <2>3. WellPlaced(o) /\ p.tag = o.tag /\ o.tag # 0 /\ p.slot = o.slot
    BY <1>1, <2>2, PlacedNumbers DEF ObjsOK, PointsTo
  <2>4. d # NoAcc.dec
    <3>1. NoAcc.dec.tag_left = 0
      BY DEF NoAcc
    <3> QED BY <1>6, <2>3, <3>1 DEF Refused
  <2>5. d.upper_la = get_slot_end(p.la, p.slot)
    BY <1>3, <2>4 DEF GarbageOf
  <2>6. First \in Addr
    <3>1. First \in First .. Last /\ First .. Last \subseteq Addr
      BY <1>1, <1>2, PartInside
    <3> QED BY <3>1
  <2>7. /\ acc'.la_decoded = First /\ acc'.meta_size = get_metadata_size(p.slot)
        /\ acc'.crossing = CrossingInfo /\ acc'.dec.upper_la = get_slot_end(First, p.slot)
    BY <2>1, <2>5, AccOfFields DEF First
  <2>8. acc'.meta_size \in {1, 2, BigMeta}
    BY <2>3, <2>7, PlacedNumbers DEF WellPlaced
  <2>9. TypeOK'
    BY <1>1, <1>2, <1>4, <2>1, <2>6, <2>7, <2>8, TypeFrame
  <2>10. InstrOK'
    BY <1>1, <1>2, <2>1, InstrFrame
  <2>11. First' = First /\ CrossingInfo' = CrossingInfo
    BY <1>2, <2>1, SameInstr DEF CrossingInfo, OnFirst
  <2>12. Uninitialized'
    BY <1>2, <2>1, <2>7, <2>11 DEF Uninitialized
  <2>13. AccOK'
    BY <1>2, <2>1, <2>12, AccOfDomain DEF AccOK
  <2> QED BY <1>4, <2>9, <2>10, <2>13, Together
<1> QED BY <1>5, <1>6

LEMMA SecondHalf ==
  ASSUME DOMAIN acc = DOMAIN NoAcc, NEW a
  PROVE  LET n == [acc EXCEPT !.la_decoded = a, !.crossing = "second"]
         IN  /\ DOMAIN n = DOMAIN NoAcc
             /\ n.la_decoded = a /\ n.crossing = "second" /\ n.la_meta = acc.la_meta
             /\ n.meta_size = acc.meta_size /\ n.dec = acc.dec
<1>1. DOMAIN NoAcc = {"la_decoded", "la_meta", "meta_size", "crossing", "dec"}
  BY DEF NoAcc
<1> QED BY <1>1

LEMMA AddressBeforeLaKeeps ==
  ASSUME IInv, AddressBeforeLa
  PROVE  IInv'
<1>1. TypeOK /\ InstrOK /\ AccOK /\ ObjsOK
  BY DEF IInv
<1>2. /\ \/ phase = "addr" /\ ~is_encoded_lim_ptr(instr.ptr) /\ phase' = "data"
         \/ phase = "addr2" /\ phase' = "data2"
      /\ acc' = address_before_la
      /\ UNCHANGED <<data_disp, mem, mapped, objs, instr, writes, content, uninit>>
  BY DEF AddressBeforeLa
<1>3. MemOK' /\ MemTypes'
  BY <1>2, MemFrame
<1>4. InstrOK'
  BY <1>1, <1>2, InstrFrame
<1>5. CASE phase = "addr"
  <2>1. acc' = acc
    BY <1>2, <1>5 DEF address_before_la, CrossingInfo, OnFirst
  <2>2. ~is_encoded_lim_ptr(instr.ptr) /\ phase' = "data" /\ ~uninit
    BY <1>1, <1>2, <1>5 DEF AccOK
  <2>3. TypeOK'
    BY <1>1, <1>2, <1>3, <1>5, <2>1, <2>2, TypeFrame DEF TypeOK
  <2>4. acc' # NoAcc => \E o \in objs' : About(o)'
    BY <1>1, <1>2, <2>1, <2>2 DEF AccOK, About
  <2>5. AccOK'
    BY <1>1, <1>2, <2>1, <2>2, <2>4 DEF AccOK
  <2> QED BY <1>3, <1>4, <2>3, <2>5, Together
<1>6. CASE phase = "addr2" /\ acc = NoAcc
  <2>1. acc' = NoAcc /\ phase' = "data2"
    BY <1>2, <1>6 DEF address_before_la
  <2>2. Crosses
    BY <1>1, <1>6 DEF TypeOK
  <2>3. TypeOK'
    BY <1>1, <1>2, <1>3, <1>6, <2>1, <2>2, TypeFrame DEF TypeOK
  <2>4. ~(is_encoded_lim_ptr(instr.ptr) /\ instr.op # "prefetch")
    BY <1>1, <1>6 DEF AccOK, About
  <2>5. AccOK'
    BY <1>1, <1>2, <1>6, <2>1, <2>4 DEF AccOK
  <2> QED BY <1>3, <1>4, <2>3, <2>5, Together
<1>7. CASE phase = "addr2" /\ acc # NoAcc
  <2>1. is_encoded_lim_ptr(instr.ptr) /\ instr.op # "prefetch" /\ ~uninit /\ phase' = "data2"
    BY <1>1, <1>2, <1>7 DEF AccOK
  <2>2. PICK o \in objs : PointsTo(o) /\ About(o) /\ HalfWay(o)
    BY <1>1, <1>7, <2>1 DEF AccOK
  <2>3. Crosses
    BY <1>1, <1>7 DEF TypeOK
  <2>4. acc' = [acc EXCEPT !.la_decoded = Border, !.crossing = "second"]
    BY <1>2, <1>7, <2>3 DEF address_before_la, CrossingInfo, OnFirst, Lo
  <2>5. /\ DOMAIN acc' = DOMAIN NoAcc /\ acc'.la_decoded = Border
        /\ acc'.la_meta = acc.la_meta /\ acc'.meta_size = acc.meta_size /\ acc'.dec = acc.dec
    BY <1>1, <2>4, SecondHalf DEF AccOK
  <2>6. /\ o.meta_size > 0 /\ o.meta_size \in {1, 2, BigMeta} /\ o.meta_size \in Nat
        /\ o.lower_la \in Int /\ o.upper_la \in Int
    BY <1>1, PlacedNumbers DEF ObjsOK
  <2>7. /\ First \in Int /\ Last \in Int /\ Border \in Int /\ First .. Last \subseteq Addr
        /\ First < Border /\ Border <= Last
    BY <1>1, <1>7, <2>3, PartInside DEF Lo, OnFirst, Hi, Crosses
  <2>8. Border \in BoundsOf(o)
    BY <2>2, <2>6, <2>7 DEF BoundsOf, HalfWay
  <2>9. acc' # NoAcc
    BY <2>2, <2>5, <2>6 DEF NoAcc, About
  <2>10. Border' = Border /\ PointsTo(o)' /\ HalfWay(o)'
    BY <1>2, <2>2, SameInstr
  <2>11. About(o)'
    BY <2>2, <2>5, <2>8, <2>9 DEF About
  <2>12. TypeOK'
    <3>1. acc'.la_decoded \in Addr /\ acc'.meta_size \in {1, 2, BigMeta}
      BY <2>2, <2>5, <2>6, <2>7 DEF About
    <3> QED BY <1>1, <1>2, <1>3, <1>7, <2>1, <2>3, <3>1, TypeFrame DEF TypeOK
  <2>13. AccOK'
    BY <1>2, <2>1, <2>5, <2>10, <2>11 DEF AccOK
  <2> QED BY <1>3, <1>4, <2>12, <2>13, Together
<1> QED BY <1>2, <1>5, <1>6, <1>7

LEMMA FaultKeeps ==
  ASSUME IInv, MetadataFault \/ CpuFault \/ MovedFault
  PROVE  IInv'
<1>1. /\ Leave /\ UNCHANGED <<data_disp, mem, mapped, objs, writes, content, uninit>>
      /\ acc' = NoAcc \/ acc' = acc
  BY DEF MetadataFault, CpuFault, MovedFault
<1>2. MemOK' /\ MemTypes'
  BY <1>1, MemFrame
<1> QED BY <1>1, <1>2, LeaveKeeps, Together

LEMMA ModifyDataKeeps ==
  ASSUME IInv, ModifyData
  PROVE  IInv'
<1>1. TypeOK /\ InstrOK /\ AccOK /\ ObjsOK
  BY DEF IInv
<1>2. /\ phase \in {"data", "data2"} /\ ~(Modifies /\ CrossesUpper)
      /\ acc' = IF Modifies /\ CrossingInfo = "first" /\ instr.op # "prefetch" THEN acc ELSE NoAcc
      /\ NextTransaction
      /\ UNCHANGED <<data_disp, mapped, objs, writes, uninit>>
  BY DEF ModifyData, InData
<1>3. MemOK' /\ MemTypes'
  <2>1. CASE instr.op = "store"
    BY <1>2, <2>1, StoreKeeps DEF ModifyData
  <2>2. CASE instr.op # "store"
    BY <1>2, <2>2, MemFrame DEF ModifyData
  <2> QED BY <2>1, <2>2
<1>4. CASE CrossingInfo # "first"
  BY <1>2, <1>3, <1>4, LeaveKeeps, Together DEF NextTransaction
<1>5. CASE CrossingInfo = "first"
  <2>1. phase' = "addr2" /\ instr' = instr
    BY <1>2, <1>5 DEF NextTransaction
  <2>2. phase = "data" /\ Crosses /\ Lo = First /\ Hi = Border - 1
    BY <1>2, <1>5 DEF CrossingInfo, OnFirst, Lo, Hi
  <2>3. TypeOK'
    BY <1>1, <1>2, <1>3, <2>1, <2>2, TypeFrame DEF TypeOK
  <2>4. InstrOK'
    BY <1>1, <1>2, <2>1, InstrFrame
  <2>5. ~uninit => (acc' # NoAcc => \E o \in objs : About(o)')
    BY <1>1, <1>2 DEF AccOK, About
  <2>6. DOMAIN acc' = DOMAIN NoAcc
    BY <1>1, <1>2 DEF AccOK
  <2>7. uninit => instr.op = "prefetch"
    BY <1>1, <2>2 DEF AccOK
  <2>8. CASE is_encoded_lim_ptr(instr.ptr) /\ instr.op # "prefetch"
    <3>1. ~uninit /\ Modifies
      BY <1>1, <1>2, <2>8, EncodedTreated
    <3>2. PICK o \in objs : PointsTo(o) /\ About(o) /\ o.lower_la <= Lo
      BY <1>1, <1>2, <3>1, Treated
    <3>3. Hi + o.meta_size <= o.upper_la
      BY <1>1, <1>2, <3>1, <3>2, PartInData DEF ObjsOK
    <3>4. HalfWay(o)
      BY <2>2, <3>2, <3>3 DEF HalfWay
    <3>5. acc' = acc
      BY <1>2, <1>5, <2>8, <3>1
    <3>6. PointsTo(o)' /\ HalfWay(o)'
      BY <2>1, <3>2, <3>4, SameInstr
    <3>7. About(o)'
      BY <3>2, <3>5 DEF About
    <3>8. AccOK'
      BY <1>2, <2>1, <2>6, <2>8, <3>1, <3>6, <3>7 DEF AccOK
    <3> QED BY <1>3, <2>3, <2>4, <3>8, Together
  <2>9. CASE ~(is_encoded_lim_ptr(instr.ptr) /\ instr.op # "prefetch")
    <3>1. acc' = NoAcc
      BY <1>1, <1>2, <2>9, LinearUntreated
    <3>2. AccOK'
      BY <1>2, <2>1, <2>6, <2>7, <2>9, <3>1 DEF AccOK
    <3> QED BY <1>3, <2>3, <2>4, <3>2, Together
  <2> QED BY <2>8, <2>9
<1> QED BY <1>4, <1>5

LEMMA OutOfBoundsKeeps ==
  ASSUME IInv, OutOfBounds
  PROVE  IInv'
<1>1. TypeOK /\ InstrOK /\ AccOK /\ ObjsOK
  BY DEF IInv
<1>2. /\ phase \in {"data", "data2"} /\ Modifies
      /\ IF acc.crossing = "second" THEN phase' = "aborted" /\ UNCHANGED <<acc, instr>>
         ELSE acc' = NoAcc /\ Leave
      /\ UNCHANGED <<data_disp, mem, mapped, objs, writes, content, uninit>>
  BY DEF OutOfBounds, InData
<1>3. MemOK' /\ MemTypes'
  BY <1>2, MemFrame
<1>4. CASE acc.crossing # "second"
  BY <1>2, <1>3, <1>4, LeaveKeeps, Together
<1>5. CASE acc.crossing = "second"
  <2>1. phase' = "aborted" /\ acc' = acc /\ instr' = instr
    BY <1>2, <1>5
  <2>2. phase = "data2"
    <3>1. ASSUME phase = "data"
          PROVE  acc.crossing = CrossingInfo
      <4>1. CASE uninit
        BY <1>1, <3>1, <4>1 DEF AccOK, Uninitialized
      <4>2. CASE ~uninit
        <5>1. is_encoded_lim_ptr(instr.ptr)
          BY <1>1, <1>2, <4>2, Treated
        <5> QED BY <1>1, <3>1, <4>2, <5>1 DEF AccOK
      <4> QED BY <4>1, <4>2
    <3>2. phase = "data" => CrossingInfo # "second"
      BY DEF CrossingInfo, OnFirst
    <3> QED BY <1>2, <1>5, <3>1, <3>2
  <2>3. Crosses /\ ~uninit
    BY <1>1, <1>2, <2>2 DEF TypeOK, AccOK, Modifies
  <2>4. TypeOK'
    BY <1>1, <1>2, <1>3, <2>1, <2>2, <2>3, TypeFrame DEF TypeOK
  <2>5. InstrOK'
    BY <1>1, <1>2, <2>1, <2>2, InstrFrame
  <2>6. acc' # NoAcc => \E o \in objs' : About(o)'
    BY <1>1, <1>2, <2>1, <2>3 DEF AccOK, About
  <2>7. AccOK'
    BY <1>1, <1>2, <2>1, <2>3, <2>6 DEF AccOK
  <2> QED BY <1>3, <2>4, <2>5, <2>7, Together
<1> QED BY <1>4, <1>5

\* Steps that leave the access and the objects alone.
LEMMA IdleFrame ==
  ASSUME IInv, UNCHANGED <<data_disp, mem, objs, acc, phase, instr, writes, content, uninit>>,
         mapped' \subseteq Pages
  PROVE  IInv'
<1>1. TypeOK /\ InstrOK /\ AccOK
  BY DEF IInv
<1>2. MemOK' /\ MemTypes'
  BY MemFrame
<1>3. /\ First' = First /\ Last' = Last /\ Border' = Border /\ Crosses' = Crosses
      /\ \A o : PointsTo(o)' = PointsTo(o) /\ HalfWay(o)' = HalfWay(o)
  BY SameInstr
<1>4. CrossingInfo' = CrossingInfo /\ PlainBytes' = PlainBytes /\ \A o : About(o)' = About(o)
  BY <1>3 DEF CrossingInfo, OnFirst, PlainBytes, About
<1>5. Uninitialized' = Uninitialized
  BY <1>3, <1>4 DEF Uninitialized
<1>6. TypeOK'
  BY <1>1, <1>3 DEF TypeOK
<1>7. InstrOK'
  BY <1>1, <1>3, <1>4 DEF InstrOK
<1>8. AccOK'
  BY <1>1, <1>3, <1>4, <1>5 DEF AccOK
<1> QED BY <1>2, <1>6, <1>7, <1>8, Together

LEMMA InitHolds ==
  ASSUME Init
  PROVE  IInv
<1>1. TypeOK
  <2>1. writes \in 0 .. MaxWrites /\ content \in [Addr -> 0 .. MaxWrites] /\ DOMAIN mem = Addr
    BY Constants DEF Init
  <2>2. /\ data_disp \in BOOLEAN /\ mapped = Pages /\ objs = {} /\ phase = "idle" /\ instr = NoInstr
        /\ acc = NoAcc /\ uninit \in BOOLEAN
    BY DEF Init
  <2> QED BY <2>1, <2>2 DEF TypeOK
<1>2. ObjsOK /\ MetadataKept /\ InstrOK
  BY DEF Init, ObjsOK, MetadataKept, InstrOK
<1>3. TagsInMetadata
  BY DEF Init, TagsInMetadata, Data
<1>4. AccOK
  BY DEF Init, AccOK
<1>5. Homes
  BY DEF Init, Homes
<1> QED BY <1>1, <1>2, <1>3, <1>4, <1>5 DEF IInv

LEMMA StepKeeps ==
  ASSUME IInv, [Next]_vars
  PROVE  IInv'
<1>1. TypeOK
  BY DEF IInv
<1>2. ASSUME NEW x \in Allocs, Encode(x)
      PROVE  IInv'
  BY <1>2, EncodeKeeps
<1>3. ASSUME NEW op \in {"load", "store", "prefetch"}, NEW o \in objs \cup {NoObj},
             NEW la \in Starts, NEW n \in AccessSizes, Start(op, o, la, n)
      PROVE  IInv'
  BY <1>3, StartKeeps
<1>4. CASE AddressBefore
  BY <1>4, AddressBeforeKeeps
<1>5. CASE MetadataFault \/ CpuFault \/ MovedFault
  BY <1>5, FaultKeeps
<1>6. CASE PrefetchGarbage
  BY <1>6, PrefetchGarbageKeeps
<1>7. CASE AddressBeforeLa
  BY <1>7, AddressBeforeLaKeeps
<1>8. CASE ModifyData
  BY <1>8, ModifyDataKeeps
<1>9. CASE OutOfBounds
  BY <1>9, OutOfBoundsKeeps
<1>10. ASSUME NEW p \in Swapped, Remap(p)
       PROVE  IInv'
  <2>1. mapped' \subseteq Pages
    BY <1>1, <1>10, LimAssumption DEF Remap, TypeOK
  <2> QED BY <1>10, <2>1, IdleFrame DEF Remap
<1>11. CASE UNCHANGED vars
  BY <1>1, <1>11, IdleFrame DEF vars, TypeOK
<1> QED BY <1>2, <1>3, <1>4, <1>5, <1>6, <1>7, <1>8, <1>9, <1>10, <1>11 DEF Next

-----------------------------------------------------------------------------
\* The inductive invariant holds in every reachable state of the LIM model.
THEOREM LimInvariant == Spec => []IInv
<1>1. Init => IInv
  BY InitHolds
<1>2. IInv /\ [Next]_vars => IInv'
  BY StepKeeps
<1> QED BY <1>1, <1>2, PTL DEF Spec

\* The variables keep their types, and only an access that crosses a page has a second
\* transaction.
THEOREM LimTypes == Spec => []TypeOK
<1>1. IInv => TypeOK
  BY DEF IInv
<1> QED BY <1>1, LimInvariant, PTL

\* Whatever a program stores, and wherever a page fault cuts it short, fixup_data writes the
\* metadata of every object back as it was.
THEOREM MetadataAlwaysKept == Spec => []MetadataKept
<1>1. IInv => MetadataKept
  BY DEF IInv
<1> QED BY <1>1, LimInvariant, PTL

\* In both modes, a load finds each byte where the store that last wrote it put it.
THEOREM LoadsReadLastWrite == Spec => []ReadsLastWrite
<1>1. IInv => ReadsLastWrite
  BY ReadsLast
<1> QED BY <1>1, LimInvariant, PTL

\* The checks of address_before and of the data callback confine an encoded pointer to its
\* object, although the callback itself only looks at the upper bound.
THEOREM AccessesStayInObject == Spec => []OwnObjectOnly
<1>1. IInv => OwnObjectOnly
  BY OwnObject
<1> QED BY <1>1, LimInvariant, PTL

\* Neither callback refuses an access that lies in the object of its pointer, as long as the
\* metadata can be read.
THEOREM FaultsAlwaysJustified == Spec => []FaultsJustified
<1>1. IInv => FaultsJustified
  BY Justified
<1> QED BY <1>1, LimInvariant, PTL

\* Of every object that passes the assertions of lim_compute_bounded_data_size, in every slot
\* size, both modes find a place of its own for each byte, in the bounds and off the metadata.
THEOREM PlacesAlwaysApart == Spec => PlacesApart
<1>1. ASSUME IInv', NEW o \in objs'
      PROVE  LET Apart == Injection(DataOf(o), BoundsOf(o) \ MetaOf(o))
             IN  /\ o.ptr .. o.ptr + o.size - 1 \subseteq DataOf(o)
                 /\ BoundsOf(o) \subseteq
                      get_slot_start(o.ptr, o.slot) .. get_slot_end(o.ptr, o.slot)
                 /\ [a \in DataOf(o) |-> Shifted(o.la_meta, o.meta_size, a)] \in Apart
                 /\ [a \in DataOf(o) |-> Displaced(o.la_meta, o.meta_size, o, a)] \in Apart
  <2>1. WellPlaced(o)
    BY <1>1 DEF IInv, ObjsOK
  <2>2. o.ptr .. o.ptr + o.size - 1 \subseteq DataOf(o)
    <3>1. /\ o.ptr \in Int /\ o.size \in Int /\ o.lower_la \in Int /\ o.upper_la \in Int
          /\ o.meta_size \in Int
      BY <2>1, PlacedNumbers
    <3>2. o.lower_la <= o.ptr /\ o.ptr + o.size - 1 <= o.upper_la - o.meta_size
      BY <2>1 DEF WellPlaced
    <3> QED BY <3>1, <3>2 DEF DataOf
  <2>3. BoundsOf(o) \subseteq SlotOf(o)
    BY <2>1, PlacedAddr
  <2> QED BY <2>1, <2>2, <2>3, PlacesInjective DEF SlotOf
<1> DEFINE Step == \A o \in objs' \ objs :
                     LET Apart == Injection(DataOf(o), BoundsOf(o) \ MetaOf(o))
                     IN  /\ o.ptr .. o.ptr + o.size - 1 \subseteq DataOf(o)
                         /\ BoundsOf(o) \subseteq
                              get_slot_start(o.ptr, o.slot) .. get_slot_end(o.ptr, o.slot)
                         /\ [a \in DataOf(o) |-> Shifted(o.la_meta, o.meta_size, a)] \in Apart
                         /\ [a \in DataOf(o) |-> Displaced(o.la_meta, o.meta_size, o, a)] \in Apart
<1>2. IInv /\ [Next]_vars => [Step]_vars
  BY <1>1, StepKeeps
<1>3. [][Step]_vars => PlacesApart
  BY PTL DEF PlacesApart
<1> HIDE DEF Step
<1>4. []IInv /\ [][Next]_vars => [][Step]_vars
  BY <1>2, PTL
<1> QED BY <1>3, <1>4, LimInvariant, PTL DEF Spec
=============================================================================
