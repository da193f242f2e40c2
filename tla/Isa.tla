--------------------------------- MODULE Isa ---------------------------------
(***************************************************************************)
(* The instructions that the C3 model adds to the CPU.  Three decoders are *)
(* registered for illegal instructions: X86Context (x86_context.h),        *)
(* PtrencdecIsa (ptrencdec_isa.h) and IntegrityIsa (integrity_isa.h).      *)
(* Each is given the bytes fetched so far, and answers with the length of  *)
(* the instruction, with 0 if it is not its own, or with -n if it needs n  *)
(* bytes to tell.  A failed assertion ends the simulator instead.          *)
(***************************************************************************)
EXTENDS Integers, Sequences

CONSTANT XedOther(_, _, _)   \* XED's registers for bytes that the comment below leaves open

\* The bytes fetched so far; those from size on are not to be looked at.
Bytes == [size : Nat, data : [0 .. 3 -> 0 .. 255]]

LOCK == 240         \* kInstByte0, kLockInstByte0
SAVE == 47          \* kInstByte1Save
LOAD == 250         \* kInstByte1Load
ADD  == 1           \* PtrencdecIsa::kInstByte2
SUB  == 43          \* kInvICVInstByte2
AND  == 33          \* kInitICVInstByte2
REGISTERS == 192    \* kInstByte3Min: both operands are registers

-----------------------------------------------------------------------------
(***************************************************************************)
(* What XED makes of the bytes after the lock prefix.  With REX.W they are *)
(* an ADD, AND or SUB of two 64-bit registers: the r/m operand comes first *)
(* but for SUB.  Without it there are no two 64-bit registers where REX    *)
(* makes them 32-bit ones, in DAS (SAVE), which is invalid in 64-bit mode, *)
(* and in CLI (LOAD).  Other second bytes begin other instructions.        *)
(***************************************************************************)
HasRexW(b) == b.data[1] \in 72 .. 79

HasRex(b) == b.data[1] \in 64 .. 79

RmOf(b) == (b.data[3] % 8) + 8 * (b.data[1] % 2)

RegOf(b) == ((b.data[3] \div 8) % 8) + 8 * ((b.data[1] \div 4) % 2)

NoRegister == -1

xed_decode_register(b) ==
  IF HasRexW(b) THEN IF b.data[2] = SUB THEN <<RegOf(b), RmOf(b)>> ELSE <<RmOf(b), RegOf(b)>>
  ELSE IF HasRex(b) \/ b.data[1] \in {SAVE, LOAD} THEN <<NoRegister, NoRegister>>
  ELSE XedOther(b.data[1], b.data[2], b.data[3])

\* The same numbers for the same registers.
convert_xed_reg_to_simics(reg) == reg

Registers(b) == LET regs == xed_decode_register(b)
                IN  <<convert_xed_reg_to_simics(regs[1]), convert_xed_reg_to_simics(regs[2])>>

\* The assertions of xed_decode_register.
HasRegisters(b) == NoRegister \notin {Registers(b)[1], Registers(b)[2]}

SameRegister(b) == Registers(b)[1] = Registers(b)[2]

-----------------------------------------------------------------------------
\* The answer of a decoder that ends the simulator; no instruction is this long.
ABORT == 16

context_decode(b) ==
  IF b.size = 0 THEN -1
  ELSE IF b.data[0] # LOCK THEN 0
  ELSE IF b.size < 2 THEN -2
  ELSE IF b.data[1] \in {SAVE, LOAD} THEN 2 ELSE 0

\* Which emulation X86Context::decode registers.
context_inst(b) == IF b.data[1] = SAVE THEN "cc_ctx_save" ELSE "cc_ctx_load"

ptrencdec_decode(b) ==
  IF b.size = 0 THEN -1
  ELSE IF b.data[0] # LOCK THEN 0
  ELSE IF b.size < 3 THEN -(b.size + 1)
  ELSE IF b.data[2] # ADD THEN 0
  ELSE IF b.size < 4 THEN -4
  ELSE IF b.data[3] < REGISTERS THEN 0
  ELSE IF HasRegisters(b) THEN 4 ELSE ABORT

\* Two different registers ask for an encoding, one register for a decoding.
ptrencdec_inst(b) == IF SameRegister(b) THEN "ccptrdec" ELSE "ccptrenc"

\* The length alone: SUB must name RAX twice.
decode_cpu_bytes(b) ==
  IF b.size = 0 THEN -1
  ELSE IF b.data[0] # LOCK THEN 0
  ELSE IF b.size < 3 THEN -(b.size + 1)
  ELSE IF b.data[2] \notin {SUB, AND} THEN 0
  ELSE IF b.size < 4 THEN -4
  ELSE IF b.data[3] < REGISTERS \/ (b.data[2] = SUB /\ b.data[3] # REGISTERS) THEN 0
  ELSE IF ~HasRegisters(b) THEN ABORT
  ELSE IF b.data[2] = AND \/ SameRegister(b) THEN 4 ELSE 0

\* Which instruction IntegrityIsa::decode registers the emulation of.
integrity_inst(b) ==
  IF b.data[2] = SUB THEN "invicv" ELSE IF SameRegister(b) THEN "preiniticv" ELSE "initicv"

-----------------------------------------------------------------------------
(***************************************************************************)
(* The disassemblers, registered with the decoders: a length that means    *)
(* the same, and a name or NULL.  IntegrityIsa shares decode_cpu_bytes     *)
(* between the two; the other classes look at the bytes a second time.     *)
(***************************************************************************)
NULL == "NULL"

context_disassemble(b) ==
  IF b.size = 0 THEN <<-1, NULL>>
  ELSE IF b.data[0] # LOCK THEN <<0, NULL>>
  ELSE IF b.size = 1 THEN <<-2, NULL>>
  ELSE IF b.data[1] = SAVE THEN <<2, "cc_ctx_save">>
  ELSE IF b.data[1] = LOAD THEN <<2, "cc_ctx_load">> ELSE <<0, NULL>>

ptrencdec_disassemble(b) ==
  IF b.size = 0 THEN <<-1, NULL>>
  ELSE IF b.data[0] # LOCK THEN <<0, NULL>>
  ELSE IF b.size < 2 THEN <<-2, NULL>>
  ELSE IF b.size < 3 THEN <<-3, NULL>>
  ELSE IF b.data[2] # ADD THEN <<0, NULL>>
  ELSE IF b.size < 4 THEN <<-4, NULL>>
  ELSE IF b.data[3] < REGISTERS THEN <<0, NULL>>
  ELSE IF ~HasRegisters(b) THEN <<ABORT, NULL>>
  ELSE <<4, IF ~SameRegister(b) THEN "ccptrenc" ELSE "ccptrdec">>

integrity_disassemble(b) ==
  <<decode_cpu_bytes(b), IF decode_cpu_bytes(b) = 4 THEN integrity_inst(b) ELSE NULL>>

-----------------------------------------------------------------------------
(***************************************************************************)
(* The bytes that the functions of c3lib emit for programs to execute; the *)
(* pointer is in RAX, and metadata or data in RCX.                         *)
(***************************************************************************)
cc_save_context   == <<240, 47>>
cc_load_context   == <<240, 250>>
cc_isa_encptr     == <<240, 72, 1, 200>>
cc_isa_decptr     == <<240, 72, 1, 192>>
cc_isa_invicv     == <<240, 72, 43, 192>>
cc_isa_initicv    == <<240, 72, 33, 200>>
cc_isa_preiniticv == <<240, 72, 33, 192>>

RAX == 0
RCX == 1

StartsWith(b, code) ==
  /\ b.size >= Len(code)
  /\ \A i \in 1 .. Len(code) : b.data[i - 1] = code[i]

-----------------------------------------------------------------------------
(***************************************************************************)
(* CaStack (castack.h) looks at the bytes of every instruction, complete,  *)
(* for three that use a register as an address without CA semantics.       *)
(***************************************************************************)
compare_bytes(b, first, second) == b.data[0] = first /\ b.data[1] = second

ModRmReg(b) == (b.data[2] \div 8) % 8

decode_opcode(b) ==
  CASE b.size >= 3 /\ compare_bytes(b, 15, 174) /\ ModRmReg(b) = 0 -> "FXSAVE"
    [] b.size >= 3 /\ compare_bytes(b, 15, 174) /\ ModRmReg(b) = 1 -> "FXRSTOR"
    [] b.size >= 3 /\ compare_bytes(b, 255, 226) -> "JMPRDX"
    [] OTHER -> "OTHER"

\* The instruction FF E2, which is complete with its second byte.
IsJmpRdx(b) == b.size = 2 /\ compare_bytes(b, 255, 226)

-----------------------------------------------------------------------------
\* Bytes that agree on what both hold.
Extends(b, c) == c.size <= b.size /\ \A i \in 0 .. 3 : i < c.size => b.data[i] = c.data[i]

Decoders == {"context", "ptrencdec", "integrity"}

DecodeWith(d, b) == CASE d = "context"   -> context_decode(b)
                      [] d = "ptrencdec" -> ptrencdec_decode(b)
                      [] d = "integrity" -> decode_cpu_bytes(b)

Claims(d, b) == DecodeWith(d, b) \in {2, 4}

Inst(d, b) == CASE d = "context"   -> context_inst(b)
                [] d = "ptrencdec" -> ptrencdec_inst(b)
                [] d = "integrity" -> integrity_inst(b)

Disassemble(d, b) == CASE d = "context"   -> context_disassemble(b)
                       [] d = "ptrencdec" -> ptrencdec_disassemble(b)
                       [] d = "integrity" -> integrity_disassemble(b)

\* The two bytes of a context instruction, followed by an ADD, AND or SUB of registers.
ContextThenAlu(b) ==
  /\ b.data[0] = LOCK /\ b.data[1] \in {SAVE, LOAD} /\ b.size >= 4
  /\ \/ b.data[2] \in {ADD, AND} /\ b.data[3] >= REGISTERS
     \/ b.data[2] = SUB /\ b.data[3] = REGISTERS
=============================================================================
