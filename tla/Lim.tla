-------------------------------- MODULE Lim ---------------------------------
(***************************************************************************)
(* The linear inline metadata (LIM) model of modules/lim_model/model.cpp   *)
(* and the encodings it shares with the allocator,                         *)
(* malloc/lim_ptr_encoding.h.                                              *)
(*                                                                         *)
(* An object's tag and bounds are kept in the middle of the power-of-two   *)
(* slot it lies in.  A pointer holds the slot size and the tag.            *)
(* address_before finds the metadata, checks it and decodes the pointer;   *)
(* modify_data_on_mem_access then makes room for the metadata: data beyond *)
(* it is stored further up (shift mode), or only the bytes it covers are,  *)
(* at the end of the object (data_disp mode).  An access that crosses a    *)
(* page is two transactions, the second announced with a linear address.   *)
(*                                                                         *)
(* GP_fault and PF_fault leave the callback by a long jump.  Data bytes    *)
(* never look like metadata: the code relies on the tag for that, with     *)
(* some probability.  The flag is_page_fault is left out: the check for    *)
(* two faults in a row reads the instruction first, which resets it.       *)
(* Printing, statistics, trace_only and disable_meta_check are left out,   *)
(* except for an assertion in print_access_info.                           *)
(***************************************************************************)
EXTENDS Integers, FiniteSets, FiniteSetsExt

CONSTANTS PageSize, Pages,       \* bytes per page; page numbers
          Swapped,               \* the pages that may be swapped out
          BoundGranule,          \* 2^LIM_BOUND_ENC_OFFSET
          HeapMinChunk,          \* HEAP_MIN_CHUNK_SZ
          SlotSizes,             \* powers of two, the smallest is LIM_MIN_SLOT_SZ
          Limit1, Limit2,        \* LIM_ENCODING_LIMIT_1 and _2
          BigMeta,               \* LIM_METADATA_SIZE_512B
          Allocs,                \* the allocations, as <<ptr, data_size, tag>>
          Starts, AccessSizes,   \* where accesses start, and their sizes
          MaxWrites              \* bound: stores

Addr == UNION {PageSize * p .. PageSize * p + PageSize - 1 : p \in Pages}

Page(a) == a \div PageSize

\* The half of the biggest metadata that lies behind the middle is no more than a granule: the
\* upper bound, rounded up from the middle, covers it.
ASSUME LimAssumption ==
  /\ PageSize \in Nat \ {0} /\ Pages \subseteq Nat /\ Swapped \subseteq Pages
  /\ BoundGranule \in Nat \ {0} /\ {HeapMinChunk, Limit1, Limit2, MaxWrites} \subseteq Nat
  /\ BigMeta \in Nat \ {0} /\ BigMeta - BigMeta \div 2 <= BoundGranule
  /\ SlotSizes \subseteq Nat \ {0} /\ SlotSizes # {}
  /\ \A s \in SlotSizes : \A a \in Addr : s * (a \div s) .. s * (a \div s) + s - 1 \subseteq Addr
  /\ Allocs \subseteq Addr \X Nat \X (Nat \ {0})
  /\ Starts \subseteq Nat /\ AccessSizes \subseteq Nat \ {0}

VARIABLES
  data_disp,        \* the option
  mem,              \* raw bytes
  mapped,           \* the pages that translate
  objs,             \* the encoded objects
  acc,              \* what address_before leaves for the data callback, or NoAcc
  phase, instr,     \* the simulator: where it is in which instruction
  writes,           \* number of stores so far
  content,          \* history: the store that last wrote each address of the program
  uninit            \* history: uninitialized metadata has passed the checks

vars == <<data_disp, mem, mapped, objs, acc, phase, instr, writes, content, uninit>>

\* A data byte remembers its address and store, a metadata byte its offset and fields.
Data(a, w) == [k |-> a, lb |-> w, ub |-> 0, tag |-> 0]

Meta(k, lb, ub, tag) == [k |-> k, lb |-> lb, ub |-> ub, tag |-> tag]

-----------------------------------------------------------------------------
(***************************************************************************)
(* lim_ptr_encoding.h; the encoded size of a pointer is its slot size.     *)
(***************************************************************************)
is_encoded_lim_ptr(p) == p.slot # 0

get_slot_start(a, s) == s * (a \div s)

get_slot_end(a, s) == get_slot_start(a, s) + s - 1

get_middle_address(a, s) == get_slot_start(a, s) + s \div 2

get_metadata_size(s) == IF s <= Limit1 THEN 1 ELSE IF s <= Limit2 THEN 2 ELSE BigMeta

get_metadata_address(a, s) ==
  get_middle_address(a, s) - (IF s <= Limit1 THEN 0 ELSE get_metadata_size(s) \div 2)

get_min_metadata_size(n) ==
  IF n + 1 <= Limit1 THEN 1 ELSE IF n + 2 <= Limit2 THEN 2 ELSE BigMeta

\* The smallest slot that holds the block.
calculate_encoded_size(ptr, n) ==
  Min({s \in SlotSizes : ptr \div s = (ptr + Max({n, HeapMinChunk}) - 1) \div s})

encode_bound(b) == b \div BoundGranule

decode_bound(b) == (b + 1) * BoundGranule

\* The two bounds of lim_compute_bounded_data_size, encoded.
EncodedBounds(ptr, n, m) ==
  LET mid == get_middle_address(ptr, calculate_encoded_size(ptr, n + m))
  IN  [lb |-> encode_bound(mid - 1 - ptr),
       ub |-> encode_bound(Max({0, ptr + n + m - 1 - mid}))]

\* A block that fits into some slot and passes the assertions of lim_compute_bounded_data_size.
CanEncode(ptr, n) ==
  LET m  == get_min_metadata_size(n)
      ok == {s \in SlotSizes : ptr \div s = (ptr + Max({n + m, HeapMinChunk}) - 1) \div s}
      s  == calculate_encoded_size(ptr, n + m)
      b  == EncodedBounds(ptr, n, m)
  IN  /\ ok # {}
      /\ get_metadata_address(ptr, s) > ptr
      /\ get_middle_address(ptr, s) <= ptr + n + m - 1 \/ n <= Min(SlotSizes) \div 2
      /\ decode_bound(b.lb) <= s \div 2 /\ decode_bound(b.ub) <= s \div 2
      /\ m = get_metadata_size(s)

\* lim_decode_metadata: the left half holds the lower bound, the right half the upper one.
lim_decode_metadata(left, right, mid) ==
  [tag_left |-> left.tag, tag_right |-> right.tag,
   lower_la |-> mid - decode_bound(left.lb), upper_la |-> mid + decode_bound(right.ub) - 1]

lim_compute_disp_size(la_meta, m, d) == Min({m, d.upper_la - (la_meta + m - 1)})

\* A bug: displaced bytes go right behind the metadata, where other data is.
lim_compute_disp_base_behind(la_meta, m, d) == la_meta + m

lim_compute_disp_base(la_meta, m, d) == d.upper_la - lim_compute_disp_size(la_meta, m, d) + 1

\* Where the two modes keep the byte of address a, the metadata being the m bytes at l.
Shifted(l, m, a) == IF a >= l THEN a + m ELSE a

Displaced(l, m, d, a) ==
  IF a \in l .. l + m - 1 THEN lim_compute_disp_base(l, m, d) + (a - l) ELSE a

-----------------------------------------------------------------------------
\* The object a block becomes, with the metadata set_metadata writes for it.
ObjectOf(x) ==
  LET m == get_min_metadata_size(x[2])
      s == calculate_encoded_size(x[1], x[2] + m)
      b == EncodedBounds(x[1], x[2], m)
      l == get_metadata_address(x[1], s)
      d == lim_decode_metadata(Meta(0, b.lb, b.ub, x[3]), Meta(m - 1, b.lb, b.ub, x[3]),
                               get_middle_address(x[1], s))
  IN  [ptr |-> x[1], size |-> x[2], tag |-> x[3], slot |-> s, la_meta |-> l, meta_size |-> m,
       lb |-> b.lb, ub |-> b.ub, lower_la |-> d.lower_la, upper_la |-> d.upper_la]

\* Its bounds, its metadata, and what a program may access of it.
BoundsOf(o) == o.lower_la .. o.upper_la
MetaOf(o)   == o.la_meta .. o.la_meta + o.meta_size - 1
DataOf(o)   == o.lower_la .. o.upper_la - o.meta_size

set_metadata(o) ==
  [a \in Addr |-> IF a \in MetaOf(o) THEN Meta(a - o.la_meta, o.lb, o.ub, o.tag) ELSE mem[a]]

NoObj == [ptr |-> 0, size |-> 0, tag |-> 0]

NoInstr == [op |-> "none", ptr |-> [tag |-> 0, slot |-> 0, la |-> 0], size |-> 1]

NoAcc == [la_decoded |-> 0, la_meta |-> 0, meta_size |-> 0, crossing |-> "none",
          dec |-> [tag_left |-> 0, tag_right |-> 0, lower_la |-> 0, upper_la |-> 0]]

\* The allocator takes blocks whose bounds are apart, and here distinct tags; then come
\* set_metadata and lim_encode_pointer.
Encode(x) ==
  LET o == ObjectOf(x)
  IN  /\ phase = "idle" /\ CanEncode(x[1], x[2])
      /\ \A q \in objs : q.tag # o.tag /\ BoundsOf(q) \cap BoundsOf(o) = {}
      /\ objs' = objs \cup {o}
      /\ mem' = set_metadata(o)
      /\ content' = [a \in Addr |-> IF a \in BoundsOf(o) THEN 0 ELSE content[a]]
      /\ UNCHANGED <<data_disp, mapped, acc, phase, instr, writes, uninit>>

-----------------------------------------------------------------------------
\* The current access, and the first and last byte its transaction covers.
First   == instr.ptr.la
Last    == First + instr.size - 1
Border  == PageSize * Page(Last)
Crosses == First < Border
OnFirst == phase \in {"addr", "data"}
Lo      == IF OnFirst THEN First ELSE Border
Hi      == IF OnFirst /\ Crosses THEN Border - 1 ELSE Last
Part    == Lo .. Hi

CrossingInfo == IF ~Crosses THEN "none" ELSE IF OnFirst THEN "first" ELSE "second"

Leave == phase' = "idle" /\ instr' = NoInstr

\* The bytes belong to the object the current instruction's pointer was made for.
Own(bytes) == \E o \in objs : instr.ptr.tag = o.tag /\ bytes \subseteq DataOf(o)

PlainBytes == Addr \ UNION {BoundsOf(o) : o \in objs}

\* A program that uses linear addresses for its other memory only, and pointers of its
\* objects anywhere in or out of bounds.  It is not followed beyond uninitialized metadata.
Start(op, o, la, n) ==
  /\ phase = "idle" /\ ~uninit
  /\ la .. la + n - 1 \subseteq IF o \in objs THEN Addr ELSE PlainBytes
  /\ op = "store" => writes < MaxWrites
  /\ phase' = "addr"
  /\ instr' = [op |-> op, size |-> n,
               ptr |-> IF o \in objs THEN [tag |-> o.tag, slot |-> o.slot, la |-> la]
                       ELSE [tag |-> 0, slot |-> 0, la |-> la]]
  /\ writes' = IF op = "store" THEN writes + 1 ELSE writes
  /\ UNCHANGED <<data_disp, mem, mapped, objs, acc, content, uninit>>

\* The metadata of the slot a pointer leads to, and its halves (words of the biggest form).
MetaLo(p) == get_metadata_address(p.la, p.slot)
MetaHi(p) == MetaLo(p) + get_metadata_size(p.slot) - 1

Translates(p) == {Page(MetaLo(p)), Page(MetaHi(p))} \subseteq mapped

\* A bug: the slot size is taken for the size of the metadata.
AccOf_slot(p, dec) ==
  [la_decoded |-> p.la, la_meta |-> MetaLo(p), meta_size |-> p.slot,
   crossing |-> CrossingInfo, dec |-> dec]

\* What address_before leaves behind.
AccOf(p, dec) ==
  [la_decoded |-> p.la, la_meta |-> MetaLo(p), meta_size |-> get_metadata_size(p.slot),
   crossing |-> CrossingInfo, dec |-> dec]

DecodedMeta(p) ==
  lim_decode_metadata(mem[MetaLo(p)], mem[MetaHi(p)], get_middle_address(p.la, p.slot))

\* The checks of address_before: tags, bounds inside the slot, first byte inside the bounds.
Refused(p, d) ==
  \/ p.tag # d.tag_left \/ d.tag_left # d.tag_right
  \/ d.lower_la < get_slot_start(p.la, p.slot) \/ d.upper_la > get_slot_end(p.la, p.slot)
  \/ p.la < d.lower_la \/ p.la > d.upper_la

\* address_before of an encoded pointer whose metadata translates.
AddressBefore ==
  LET p == instr.ptr
      d == DecodedMeta(p)
  IN  /\ phase = "addr" /\ is_encoded_lim_ptr(p) /\ Translates(p)
      /\ IF Refused(p, d)
         THEN acc' = NoAcc /\ Leave
         ELSE acc' = AccOf(p, d) /\ phase' = "data" /\ UNCHANGED instr
      /\ UNCHANGED <<data_disp, mem, mapped, objs, writes, content, uninit>>

\* raise_page_fault_exception on the metadata.
MetadataFault ==
  /\ phase = "addr" /\ is_encoded_lim_ptr(instr.ptr) /\ ~Translates(instr.ptr)
  /\ instr.op # "prefetch"
  /\ acc' = NoAcc /\ Leave
  /\ UNCHANGED <<data_disp, mem, mapped, objs, writes, content, uninit>>

\* Uninitialized metadata that is refused, and some that passes.
GarbageOf(p) ==
  {NoAcc.dec, [tag_left |-> p.tag, tag_right |-> p.tag,
               lower_la |-> get_slot_start(p.la, p.slot), upper_la |-> get_slot_end(p.la, p.slot)]}

\* A prefetch is spared the page fault, and goes on with an uninitialized buffer.
PrefetchGarbage ==
  /\ phase = "addr" /\ is_encoded_lim_ptr(instr.ptr) /\ ~Translates(instr.ptr)
  /\ instr.op = "prefetch"
  /\ \E d \in GarbageOf(instr.ptr) :
       IF Refused(instr.ptr, d)
       THEN acc' = NoAcc /\ Leave /\ UNCHANGED uninit
       ELSE /\ acc' = AccOf(instr.ptr, d)
            /\ phase' = "data" /\ uninit' = TRUE
            /\ UNCHANGED instr
  /\ UNCHANGED <<data_disp, mem, mapped, objs, writes, content>>

\* address_before of a linear address: a plain access, or the second half of an encoded one.
address_before_la ==
  IF acc # NoAcc /\ CrossingInfo = "second"
  THEN [acc EXCEPT !.la_decoded = Lo, !.crossing = "second"]
  ELSE acc

AddressBeforeLa ==
  /\ \/ phase = "addr" /\ ~is_encoded_lim_ptr(instr.ptr) /\ phase' = "data"
     \/ phase = "addr2" /\ phase' = "data2"
  /\ acc' = address_before_la
  /\ UNCHANGED <<data_disp, mem, mapped, objs, instr, writes, content, uninit>>

\* The CPU's own page fault, and its silence for a prefetch: the model is not told.
CpuFault ==
  /\ phase \in {"data", "data2"} /\ Page(Lo) \notin mapped
  /\ Leave
  /\ UNCHANGED <<data_disp, mem, mapped, objs, acc, writes, content, uninit>>

-----------------------------------------------------------------------------
InData == phase \in {"data", "data2"} /\ Page(Lo) \in mapped

\* A bug: whatever comes after address_before is taken for its access.
Modifies_any == acc # NoAcc

\* The transaction is the one address_before decoded.
Modifies == acc # NoAcc /\ Lo = acc.la_decoded

\* A bug: the last byte of the object is refused.
CrossesUpper_early == Hi + acc.meta_size >= acc.dec.upper_la

CrossesUpper == Hi + acc.meta_size > acc.dec.upper_la

\* Only a warning, by print_access_info.
CrossesLower == Lo < acc.dec.lower_la

MetaBytes == acc.la_meta .. acc.la_meta + acc.meta_size - 1

\* Where the callback itself finds or puts the byte of address a.
Place(a) == IF data_disp THEN Displaced(acc.la_meta, acc.meta_size, acc.dec, a)
            ELSE Shifted(acc.la_meta, acc.meta_size, a)

\* The addresses the callback reads or writes on its own.
Moved == {Place(a) : a \in {b \in Part : Place(b) # b}}

\* raise_page_fault_exception on the page of moved bytes.
ModifyFaults == Modifies /\ ~CrossesUpper /\ \E a \in Moved : Page(a) \notin mapped

FixupStart == IF Lo < acc.la_meta THEN acc.la_meta ELSE Lo

\* A bug: in data_disp mode the metadata is not written back.
Fixup_no_writeback(a) ==
  LET start == FixupStart
  IN  CASE data_disp \/ a < start -> Data(a, writes)
        [] ~data_disp /\ a >= start /\ a < start + acc.meta_size -> mem[a]
        [] OTHER -> Data(a - acc.meta_size, writes)

\* fixup_data of a store: what the CPU will write at a, old bytes being written back where
\* the metadata is or, in shift mode, where the data was moved away from.
Fixup(a) ==
  LET start == FixupStart
  IN  CASE data_disp -> IF a \in MetaBytes THEN mem[a] ELSE Data(a, writes)
        [] ~data_disp /\ a < start -> Data(a, writes)
        [] ~data_disp /\ a >= start /\ a < start + acc.meta_size -> mem[a]
        [] OTHER -> Data(a - acc.meta_size, writes)

\* The memory after a store: the callback's own writes, then the CPU's.
Stored ==
  [b \in Addr |->
     IF b \in Part THEN IF Modifies THEN Fixup(b) ELSE Data(b, writes)
     ELSE IF Modifies /\ b \in Moved THEN Data(CHOOSE a \in Part : Place(a) = b, writes)
     ELSE mem[b]]

\* A bug: a load that starts inside the metadata reads from the start of the displaced bytes.
Loaded_from_base ==
  [a \in Part |-> mem[IF ~Modifies THEN a
                     ELSE IF data_disp /\ a \in MetaBytes THEN Place(a) - (FixupStart - acc.la_meta)
                     ELSE Place(a)]]

\* What a load returns.
Loaded == [a \in Part |-> mem[IF Modifies THEN Place(a) ELSE a]]

\* The access is past its last transaction, or goes on to the second one.
NextTransaction ==
  IF CrossingInfo = "first" THEN phase' = "addr2" /\ UNCHANGED instr ELSE Leave

\* modify_data_on_mem_access when it lets the transaction through.  A prefetch has no data.
ModifyData ==
  /\ InData /\ ~(Modifies /\ CrossesUpper)
  /\ instr.op = "prefetch" \/ ~ModifyFaults
  /\ acc' = IF Modifies /\ CrossingInfo = "first" /\ instr.op # "prefetch" THEN acc ELSE NoAcc
  /\ IF instr.op = "store"
     THEN /\ mem' = Stored
          /\ content' = [a \in Addr |-> IF a \in Part THEN writes ELSE content[a]]
     ELSE UNCHANGED <<mem, content>>
  /\ NextTransaction
  /\ UNCHANGED <<data_disp, mapped, objs, writes, uninit>>

\* The upper bound is crossed: #GP, after print_access_info, which asserts that this is not
\* the second half of an access.
OutOfBounds ==
  /\ InData /\ Modifies /\ CrossesUpper
  /\ IF acc.crossing = "second"
     THEN phase' = "aborted" /\ UNCHANGED <<acc, instr>>
     ELSE acc' = NoAcc /\ Leave
  /\ UNCHANGED <<data_disp, mem, mapped, objs, writes, content, uninit>>

\* The page fault of the callback's own accesses.  Nothing is stored yet: shift mode looks at
\* the last page first, and the displaced bytes of one transaction lie on one page.
MovedFault ==
  /\ InData /\ ModifyFaults /\ instr.op # "prefetch"
  /\ acc' = NoAcc /\ Leave
  /\ UNCHANGED <<data_disp, mem, mapped, objs, writes, content, uninit>>

\* The operating system pages in and out.
Remap(p) ==
  /\ phase = "idle"
  /\ mapped' = IF p \in mapped THEN mapped \ {p} ELSE mapped \cup {p}
  /\ UNCHANGED <<data_disp, mem, objs, acc, phase, instr, writes, content, uninit>>

-----------------------------------------------------------------------------
Init ==
  /\ data_disp \in BOOLEAN
  /\ mem = [a \in Addr |-> Data(a, 0)]
  /\ mapped = Pages
  /\ objs = {} /\ acc = NoAcc
  /\ phase = "idle" /\ instr = NoInstr
  /\ writes = 0 /\ content = [a \in Addr |-> 0] /\ uninit = FALSE

Next ==
  \/ \E x \in Allocs : Encode(x)
  \/ \E op \in {"load", "store", "prefetch"}, o \in objs \cup {NoObj}, la \in Starts,
        n \in AccessSizes : Start(op, o, la, n)
  \/ AddressBefore
  \/ MetadataFault
  \/ PrefetchGarbage
  \/ AddressBeforeLa
  \/ CpuFault
  \/ ModifyData
  \/ OutOfBounds
  \/ MovedFault
  \/ \E p \in Swapped : Remap(p)

Spec == Init /\ [][Next]_vars

-----------------------------------------------------------------------------
\* The types of the state; a transaction under way has its pointer.
TypeOK ==
  /\ data_disp \in BOOLEAN /\ mapped \subseteq Pages
  /\ DOMAIN mem = Addr /\ content \in [Addr -> 0 .. MaxWrites]
  /\ \A o \in objs : <<o.ptr, o.size, o.tag>> \in Allocs
  /\ phase \in {"idle", "addr", "data", "addr2", "data2", "aborted"}
  /\ phase = "idle" <=> instr = NoInstr
  /\ writes \in 0 .. MaxWrites /\ uninit \in BOOLEAN
  /\ acc # NoAcc => acc.la_decoded \in Addr /\ acc.meta_size \in {1, 2, BigMeta}
  /\ phase \in {"addr2", "data2", "aborted"} => Crosses

\* Wherever an object is encoded, its bounds hold it and stay in its slot, and both modes find
\* a place of its own for each byte of it, inside those bounds and off the metadata.
PlacesApart ==
  [][\A o \in objs' \ objs :
       LET Apart == Injection(DataOf(o), BoundsOf(o) \ MetaOf(o))
       IN  /\ o.ptr .. o.ptr + o.size - 1 \subseteq DataOf(o)
           /\ BoundsOf(o) \subseteq get_slot_start(o.ptr, o.slot) .. get_slot_end(o.ptr, o.slot)
           /\ [a \in DataOf(o) |-> Shifted(o.la_meta, o.meta_size, a)] \in Apart
           /\ [a \in DataOf(o) |-> Displaced(o.la_meta, o.meta_size, o, a)] \in Apart]_vars

\* No store, in or out of bounds, whole or cut short by a page fault, changes the metadata of
\* an object: the bytes written back over it (fixup_data) are its own.
MetadataKept ==
  \A o \in objs : \A a \in MetaOf(o) : mem[a] = Meta(a - o.la_meta, o.lb, o.ub, o.tag)

\* A load returns what the program last stored at each address, for the bytes around the
\* metadata, accesses of two transactions, retries after page faults, neighbouring objects
\* and plain memory alike.
ReadsLastWrite ==
  InData /\ instr.op = "load" /\ ~(Modifies /\ CrossesUpper) /\ ~ModifyFaults
    => \A a \in Part : content[a] # 0 => Loaded[a] = Data(a, content[a])

\* A transaction of an encoded pointer that is let through is treated as one, and stays in the
\* object the pointer was made for, so that it is enough that the data callback only warns about
\* the lower bound (model.cpp:428); one of a linear address never is treated so -- unless a
\* prefetch passed with uninitialized metadata, and left flags that fit it.
OwnObjectOnly ==
  InData /\ instr.op # "prefetch" /\ ~(Modifies /\ CrossesUpper)
    => IF is_encoded_lim_ptr(instr.ptr) THEN Modifies /\ ~CrossesLower /\ Own(Part)
       ELSE ~Modifies

\* An access that lies in its object is never refused -- not even a prefetch, unless its
\* metadata is on a page that is not mapped (the buffer read instead is uninitialized).
FaultsJustified ==
  \/ phase = "addr" /\ is_encoded_lim_ptr(instr.ptr) /\ Translates(instr.ptr)
        /\ Refused(instr.ptr, DecodedMeta(instr.ptr))
  \/ InData /\ Modifies /\ CrossesUpper
  => ~Own(First .. Last)
=============================================================================
