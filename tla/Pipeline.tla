------------------------------ MODULE Pipeline ------------------------------
(***************************************************************************)
(* The memory pipeline of modules/common/ccsimics/c3_base_model.h, on its  *)
(* own and as the C3 model uses it (modules/c3_model/c3_model.h), with the *)
(* pointers of module PtrEncoding and the stack hardening of castack.h.    *)
(*                                                                         *)
(* The simulator announces each transaction to address_before, which       *)
(* decodes a CA, translates the address, and then passes the data through  *)
(* modify_data_on_mem_access.  The two callbacks talk through flags and    *)
(* the two la_ variables; an access that crosses a page is two             *)
(* transactions, the second announced with a linear address.  A page fault *)
(* between the callbacks abandons the instruction, to be retried later.    *)
(*                                                                         *)
(* Memory holds bytes under XOR pads: a pad is the CA that is the tweak of *)
(* the key stream, so applying one twice removes it.  Integrity checks are *)
(* in module Integrity; of them only the assignment to la_decoded_ shows   *)
(* here.  Printing, statistics and break_on_decode_fault are left out.     *)
(***************************************************************************)
EXTENDS PtrEncoding

CONSTANTS PageSize,     \* bytes per page
          Pages,        \* page numbers; page 0 is never mapped
          Boxes,        \* the blocks that have CAs, as <<address, size, version>>
          StackBox,     \* the block of the stack
          Starts,       \* where accesses start
          MaxWarnings   \* warnings about mismatching addresses (3)

Addr == UNION {PageSize * p .. PageSize * p + PageSize - 1 : p \in Pages}

Page(a) == a \div PageSize

ASSUME PipelineAssumption ==
  /\ MaxWarnings \in Nat /\ Starts \subseteq Addr
  /\ PageSize \in Nat \ {0} /\ Pages \subseteq Nat \ {0} /\ Region % PageSize = 0
  /\ StackBox \in Boxes /\ Boxes \subseteq Addr \X Nat \X Nat
  /\ \A b \in Boxes : b[1] < 2^AddrBits /\ b[1] + b[2] <= 2^AddrBits
  /\ \A a, b \in Addr : a \div Region = b \div Region /\ a \div Region # Noise

VARIABLES
  la_encoded, la_decoded, is_encoded_pointer,    \* of C3BaseModel
  crossing_first, crossing_second, la_mismatch_count,
  checks,                \* the model is C3Model, which calls check_integrity
  cc_enabled,            \* of the context
  hardening,             \* the callbacks of CaStack are enabled
  rsp,                   \* the stack pointer
  mem,                   \* byte -> the pads its content is under
  phase, instr,          \* the simulator: where it is in which instruction
  owner,                 \* history: byte -> the pointer to it that last wrote it
  crossing_lost,         \* history: a fault ended a CA access that crosses pages
  cross_failed,          \* history: the "Cross-page handling fail" fault was raised
  misread,               \* history: a load decrypted its own pointer's data wrongly
  rsp_lost               \* history: a fault ended an FXSAVE or FXRSTOR on an encoded stack

base    == <<la_encoded, la_decoded, is_encoded_pointer, crossing_first,
             crossing_second, la_mismatch_count>>
config  == <<checks, cc_enabled, hardening>>
history == <<owner, crossing_lost, cross_failed, misread, rsp_lost>>
vars    == <<base, config, mem, phase, instr, rsp, history>>

-----------------------------------------------------------------------------
\* The pointer to a that a program has from box b: a CA if the ISA was enabled when it made
\* it, possibly with its sign bit changed.
Pointer(b, on, a, flip) ==
  LET md == [size |-> try_box(b[1], b[2]), version |-> b[3]]
      p  == IF cc_can_box(b[1], b[2]) THEN ccptrenc_emulation(Linear(b[1], 0), md, on)
            ELSE Linear(b[1], 0)
  IN  [Moved(p, a) EXCEPT !.s = IF flip THEN 1 ELSE 0]

\* A bug: the last result is used again for a CA that differs in the clear bits only.
model_decode_pointer_cached(p) ==
  IF ~cc_enabled THEN p
  ELSE IF p.ct = la_encoded.ct THEN [decode_pointer(p) EXCEPT !.ct.up = la_decoded \div Region]
  ELSE decode_pointer(p)

\* The base model: a disabled C3 leaves the CA as it is.
base_decode_pointer(p) == IF cc_enabled THEN decode_pointer(p) ELSE p

\* CaStack: stack pointers are CAs like others.
is_encoded_sp(p) == FALSE
decode_sp(p)     == decode_pointer(p)

\* C3Model asks the stack first.
model_decode_pointer(p) ==
  IF cc_enabled /\ is_encoded_sp(p) THEN decode_sp(p) ELSE base_decode_pointer(p)

\* XOR with the key stream for the bytes from la on, tweaked from the CA on.
Pads(ca, la, n) == [a \in la .. la + n - 1 |-> [ca EXCEPT !.low = @ + (a - la)]]

encrypt_decrypt_bytes(m, ca, la, n) ==
  [a \in Addr |-> IF a \in la .. la + n - 1
                  THEN LET pad == Pads(ca, la, n)[a]
                       IN  (m[a] \ {pad}) \cup ({pad} \ m[a])
                  ELSE m[a]]

-----------------------------------------------------------------------------
\* The part of the current instruction's access that each transaction covers.
Span    == instr.at .. instr.at + instr.size - 1
Crosses == Page(instr.at) # Page(instr.at + instr.size - 1)
Bytes   == {a \in Span : (Page(a) = Page(instr.at)) <=> phase \in {"addr", "data"}}
First   == CHOOSE a \in Bytes : \A b \in Bytes : a <= b

\* get_page_crossing_info
CrossingInfo == IF ~Crosses THEN "none" ELSE IF phase = "addr" THEN "first" ELSE "second"

\* What the access unit presents: the pointer, or the address the first chunk led to.
Presented == IF phase = "addr" THEN instr.ptr ELSE Linear(First, 0)

-----------------------------------------------------------------------------
\* An access of size bytes meant for address at.
Op(op, ptr, at, size) ==
  [op |-> op, ptr |-> ptr, at |-> at, size |-> size, fx |-> FALSE, saved_reg |-> Linear(0, 0)]

NoInstr == Op("none", Linear(0, 0), 0, 1)

\* A bug: only FXSAVE puts the stack pointer back.
ca_stack_after_fxsave == rsp' = IF instr.fx /\ instr.op = "store" THEN instr.saved_reg ELSE rsp

\* CaStack::instruction_after_cb
ca_stack_after == rsp' = IF instr.fx THEN instr.saved_reg ELSE rsp

GoOn(ph) == phase' = ph /\ UNCHANGED <<instr, rsp, crossing_lost, rsp_lost>>

Complete ==
  /\ phase' = "idle" /\ instr' = NoInstr
  /\ ca_stack_after
  /\ UNCHANGED <<crossing_lost, rsp_lost>>

\* The exception leaves the current instruction; the flags and the stack pointer stay.
Abandon ==
  /\ phase' = "idle" /\ instr' = NoInstr
  /\ crossing_lost' = (crossing_lost \/ (Crosses /\ is_encoded_cc_ptr(instr.ptr)))
  /\ rsp_lost' = (rsp_lost \/ (instr.fx /\ is_encoded_cc_ptr(instr.saved_reg)))
  /\ UNCHANGED rsp

\* A bug: the crossing flag is set on every chunk of a crossing access.
address_before_ca_always(p, la) ==
  /\ is_encoded_pointer' = TRUE
  /\ IF is_canonical(la)
     THEN la_decoded' = AddrOf(la) /\ la_encoded' = p
     ELSE UNCHANGED <<la_decoded, la_encoded>>
  /\ crossing_first' = TRUE
  /\ UNCHANGED <<crossing_second, la_mismatch_count>>

\* address_before of a CA that decodes to la; a non-canonical result leaves the previous la_
\* values.
address_before_ca(p, la) ==
  /\ is_encoded_pointer' = TRUE
  /\ IF is_canonical(la)
     THEN la_decoded' = AddrOf(la) /\ la_encoded' = p
     ELSE UNCHANGED <<la_decoded, la_encoded>>
  /\ crossing_first' = (crossing_first \/ CrossingInfo = "first")
  /\ UNCHANGED <<crossing_second, la_mismatch_count>>

\* Raised for a linear address while a second chunk is awaited.
CrossPageFails == crossing_second /\ CrossingInfo # "second"

\* A bug: the second chunk counts as a plain access.
address_before_la_forgets ==
  /\ is_encoded_pointer' = FALSE
  /\ UNCHANGED <<la_encoded, la_decoded, crossing_first, crossing_second, la_mismatch_count>>

\* address_before of anything else: the second chunk of a CA access, or a plain one.
address_before_la ==
  /\ is_encoded_pointer' = crossing_second
  /\ UNCHANGED <<la_encoded, la_decoded, crossing_first, crossing_second, la_mismatch_count>>

AddressBefore ==
  /\ phase \in {"addr", "addr2"}
  /\ LET p  == Presented
         la == model_decode_pointer(p)
     IN  \/ /\ is_encoded_cc_ptr(p)
            /\ address_before_ca(p, la)
            /\ IF is_canonical(la)
               THEN GoOn(IF phase = "addr" THEN "data" ELSE "data2")
               ELSE Abandon       \* the CPU refuses the address
            /\ UNCHANGED cross_failed
         \/ /\ ~is_encoded_cc_ptr(p) /\ CrossPageFails
            /\ Abandon            \* gp_fault leaves by a long jump
            /\ cross_failed' = TRUE
            /\ UNCHANGED base
         \/ /\ ~is_encoded_cc_ptr(p) /\ ~CrossPageFails
            /\ address_before_la
            /\ IF is_canonical(p)
               THEN GoOn(IF phase = "addr" THEN "data" ELSE "data2")
               ELSE Abandon
            /\ UNCHANGED cross_failed
  /\ UNCHANGED <<config, mem, owner, misread>>

-----------------------------------------------------------------------------
\* A bug: one warning more than there are counts for.
handle_la_mismatch_late ==
  IF la_mismatch_count > MaxWarnings THEN UNCHANGED base
  ELSE /\ la_mismatch_count' = la_mismatch_count + 1
       /\ crossing_first' = FALSE /\ crossing_second' = FALSE
       /\ is_encoded_pointer' = FALSE
       /\ UNCHANGED <<la_encoded, la_decoded>>

(***************************************************************************)
(* handle_la_mismatch_on_mem_access of the base model: after the last      *)
(* warning nothing is reset any more.  (C3Model's override is for ICV      *)
(* correction, a debugging option that is off.)                            *)
(***************************************************************************)
handle_la_mismatch ==
  IF la_mismatch_count >= MaxWarnings THEN UNCHANGED base
  ELSE /\ la_mismatch_count' = la_mismatch_count + 1
       /\ crossing_first' = FALSE /\ crossing_second' = FALSE
       /\ is_encoded_pointer' = FALSE
       /\ UNCHANGED <<la_encoded, la_decoded>>

\* check_integrity overwrites la_decoded_ before the base model compares it.
LaDecoded(la) == IF checks THEN la ELSE la_decoded

Modifies(la) == is_encoded_pointer /\ la = LaDecoded(la)

\* The base model tweaks data by the address given, which is the CA.
base_get_data_tweak(p) == p

get_data_tweak ==
  IF is_encoded_sp(la_encoded) THEN la_encoded ELSE base_get_data_tweak(la_encoded)

\* What becomes of the content c of a transaction of n bytes at la.
Modified(c, la, n) ==
  IF Modifies(la) THEN encrypt_decrypt_bytes(c, get_data_tweak, la, n) ELSE c

\* The end of modify_data_on_mem_access: page-crossing bookkeeping.
finish_chunk(la, n) ==
  /\ crossing_second' = crossing_first
  /\ crossing_first' = FALSE
  /\ la_encoded' = IF crossing_first THEN [la_encoded EXCEPT !.low = @ + n] ELSE la_encoded
  /\ la_decoded' = IF crossing_first THEN la + n ELSE la
  /\ UNCHANGED <<is_encoded_pointer, la_mismatch_count>>

\* C3Model::modify_data_on_mem_access, its effect on the model's own state.
modify_data_on_mem_access(la, n) ==
  IF Modifies(la) THEN finish_chunk(la, n)
  ELSE IF is_encoded_pointer THEN handle_la_mismatch
  ELSE /\ la_decoded' = LaDecoded(la)
       /\ UNCHANGED <<la_encoded, is_encoded_pointer, crossing_first, crossing_second,
                      la_mismatch_count>>

-----------------------------------------------------------------------------
\* The program or the kernel loads or stores through a pointer to anywhere.
Start(op, b, on, a, n, flip) ==
  /\ phase = "idle"
  /\ a + n - 1 \in Addr /\ (flip => on)
  /\ phase' = "addr" /\ instr' = Op(op, Pointer(b, on, a, flip), a, n)
  /\ UNCHANGED <<base, config, mem, rsp, history>>

\* What CaStack puts into a register; it does not ask whether C3 is enabled.
save_and_decode_if_encoded(reg) ==
  IF is_encoded_cc_ptr(reg) THEN decode_pointer(reg) ELSE reg

\* FXSAVE and FXRSTOR on a hardened stack, otherwise accesses like others.
\* CaStack::instruction_before_cb decodes the stack pointer for them.
StartFx(op) ==
  LET p == save_and_decode_if_encoded(rsp)
  IN  /\ phase = "idle" /\ hardening
      /\ phase' = "addr"
      /\ rsp' = p
      /\ instr' = [Op(op, p, AddrOf(rsp), 1) EXCEPT !.fx = TRUE, !.saved_reg = rsp]
      /\ UNCHANGED <<base, config, mem, history>>

\* The address that address_before led to is the one meant, and not noise.
Translates == phase = "data" /\ is_encoded_cc_ptr(instr.ptr) => la_decoded = instr.at

\* The page does not translate; whoever handles the fault may retry the access later.
PageFault ==
  /\ phase \in {"data", "data2"}
  /\ Abandon
  /\ UNCHANGED <<base, config, mem, owner, cross_failed, misread>>

\* The pointer of the current instruction, at byte a.
Using(a) == Moved(instr.ptr, a)

\* A load whose bytes were written through its own pointer must come out under no pad.
Misread(result) ==
  \E a \in Bytes : owner[a] = Using(a) /\ result[a] # {}

\* The data of one transaction; the instruction completes with the last one.
Data ==
  /\ phase \in {"data", "data2"} /\ Translates
  /\ modify_data_on_mem_access(First, Cardinality(Bytes))
  /\ LET stored == [a \in Addr |-> IF a \in Bytes THEN {} ELSE mem[a]]
     IN  IF instr.op = "store"
         THEN /\ mem' = Modified(stored, First, Cardinality(Bytes))
              /\ owner' = [a \in Addr |-> IF a \in Bytes THEN Using(a) ELSE owner[a]]
              /\ UNCHANGED misread
         ELSE /\ misread' = (misread \/ Misread(Modified(mem, First, Cardinality(Bytes))))
              /\ UNCHANGED <<mem, owner>>
  /\ IF Crosses /\ phase = "data"
     THEN GoOn("addr2")
     ELSE Complete
  /\ UNCHANGED <<config, cross_failed>>

(***************************************************************************)
(* A read that reaches the data callback without an address_before of its  *)
(* own, which is what the comparison with la_decoded_ is there for.  In    *)
(* C3Model check_integrity makes that comparison succeed always, so there  *)
(* the model assumes that every transaction is announced.                  *)
(***************************************************************************)
Unannounced(a) ==
  /\ phase = "idle" /\ ~checks
  /\ modify_data_on_mem_access(a, 1)
  /\ UNCHANGED <<config, mem, phase, instr, rsp, history>>

-----------------------------------------------------------------------------
\* The guest switches C3 on or off with a context load.
LoadContext(val) ==
  /\ phase = "idle"
  /\ cc_enabled' = val
  /\ UNCHANGED <<base, checks, hardening, mem, phase, instr, rsp, history>>

\* C3Model::set_stack_hardening, an attribute.
SetStackHardening(val) ==
  /\ phase = "idle" /\ checks
  /\ hardening' = val
  /\ UNCHANGED <<base, checks, cc_enabled, mem, phase, instr, rsp, history>>

\* The stack pointer of the program.
StackPtr == Pointer(StackBox, TRUE, StackBox[1], FALSE)

Init ==
  /\ la_encoded = Linear(0, 0) /\ la_decoded = 0
  /\ is_encoded_pointer = FALSE
  /\ crossing_first = FALSE /\ crossing_second = FALSE
  /\ la_mismatch_count = 0
  /\ checks \in BOOLEAN /\ cc_enabled = TRUE /\ hardening = FALSE
  /\ rsp = StackPtr
  /\ mem = [a \in Addr |-> {}] /\ owner = [a \in Addr |-> Linear(a, 0)]
  /\ phase = "idle" /\ instr = NoInstr
  /\ crossing_lost = FALSE /\ cross_failed = FALSE
  /\ misread = FALSE /\ rsp_lost = FALSE

Next ==
  \/ \E op \in {"load", "store"}, b \in Boxes, a \in Starts, n \in 1 .. 2, on, flip \in BOOLEAN :
       Start(op, b, on, a, n, flip)
  \/ \E op \in {"load", "store"} : StartFx(op)
  \/ AddressBefore
  \/ Data
  \/ PageFault
  \/ \E a \in Starts : Unannounced(a)
  \/ \E val \in BOOLEAN : LoadContext(val) \/ SetStackHardening(val)

Spec == Init /\ [][Next]_vars

-----------------------------------------------------------------------------
Flags == {crossing_first, crossing_second, is_encoded_pointer, hardening, cc_enabled}

\* The CAs of the program, and the linear addresses.
Pointers == {Pointer(b, on, a, FALSE) : b \in Boxes, a \in Addr, on \in BOOLEAN}

\* The types of the state; data is only ever under pads of CAs of the program.
TypeOK ==
  /\ Moved(la_encoded, 0) \in {Moved(p, 0) : p \in Pointers} \cup {Linear(0, 0)}
  /\ la_encoded.low \in Nat /\ la_decoded \in Nat
  /\ Flags \subseteq BOOLEAN /\ la_mismatch_count \in 0 .. MaxWarnings
  /\ mem \in [Addr -> SUBSET Pointers]
  /\ phase \in {"idle", "addr", "data", "addr2", "data2"}

(***************************************************************************)
(* Every byte is encrypted exactly as the pointer that last wrote it       *)
(* demands -- with that CA's tweak at that very address, on both sides of  *)
(* a page boundary, and not at all for a linear address -- and a load      *)
(* through the pointer that wrote it gets the data back, whatever faults,  *)
(* retries, handlers, stray transactions and context loads came between.   *)
(***************************************************************************)
EncryptedByPointer ==
  /\ ~misread
  /\ \A a \in Addr : mem[a] = IF is_encoded_cc_ptr(owner[a]) THEN {owner[a]} ELSE {}

(***************************************************************************)
(* The "Cross-page handling fail" fault hits plain accesses only once a    *)
(* fault has ended a CA access that crosses a page boundary: in every      *)
(* other history the access that set a crossing flag also consumes it.     *)
(***************************************************************************)
CrossFailNeedsFault == cross_failed => crossing_lost

(***************************************************************************)
(* The block of memory that the CA of box b may reach: the smallest        *)
(* aligned power of two that holds it (an empty box counts as one byte).   *)
(***************************************************************************)
Block(b) ==
  LET last  == b[1] + (IF b[2] = 0 THEN 1 ELSE b[2]) - 1
      holds == {k \in 0 .. AddrBits : b[1] \div 2^k = last \div 2^k}
      k     == CHOOSE i \in holds : \A j \in holds : i <= j
  IN  {a \in Addr : a \div 2^k = b[1] \div 2^k}

(***************************************************************************)
(* However a program moves a CA about, an access through it translates     *)
(* exactly if its first byte is in the block the CA was made for: all of   *)
(* the box is usable, and outside of the block the decoded address is      *)
(* noise.                                                                  *)
(***************************************************************************)
SlotConfines ==
  phase = "data" /\ ~instr.fx =>
    \A b \in Boxes : instr.ptr = Pointer(b, TRUE, instr.at, FALSE) /\ is_encoded_cc_ptr(instr.ptr)
                    => (Translates <=> instr.at \in Block(b))

(***************************************************************************)
(* The hardened stack's pointer is the program's own again between         *)
(* instructions, whatever is switched or faults in between -- unless a     *)
(* fault ended an FXSAVE or FXRSTOR, after which castack.h:62 does not     *)
(* run.                                                                    *)
(***************************************************************************)
RspKept == phase = "idle" /\ ~rsp_lost => rsp = StackPtr

(***************************************************************************)
(* Over all blocks, versions and both halves of the address space, what    *)
(* the library makes of a block (try_box.h:53) decodes, by instruction, to *)
(* the address wanted everywhere in the block, to noise outside its slot,  *)
(* and ca_get_inbound_offset is the way to the last byte of the slot.  The *)
(* software encoder makes the same CA of the block, and takes the CAs of   *)
(* the instructions back.  The formula says nothing of the state, so the   *)
(* first states are enough.                                                *)
(***************************************************************************)
BoxRoundTrip ==
  phase = "idle" /\ la_encoded = Linear(0, 0) =>
  \A a \in 0 .. 2^AddrBits - 1, n \in 0 .. Region, bit \in 0 .. 1 :
    a + n <= 2^AddrBits /\ cc_can_box(a, n) =>
      LET p     == cc_isa_encptr_sv(a, bit, n, 1)
          At(x) == ccptrdec_emulation(Moved(p, x), TRUE)
          off   == ca_get_inbound_offset(p, Region)
      IN  /\ \A x \in a .. a + n - 1 :
               /\ At(x) = Linear(x, bit)
               /\ decode_ptr_if_ca(Moved(p, x)) = At(x)
               /\ is_encoded_cc_ptr(p) => c3c_decode_ptr(Moved(p, x)) = At(x)
          /\ c3c_encode_ptr(Linear(a, bit), n, 1) = p
          /\ At(a + off) = Linear(a + off, bit)
          /\ (a + off + 1) \div Region = a \div Region => At(a + off + 1).ct.up = Noise
=============================================================================
