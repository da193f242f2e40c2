------------------------------- MODULE RiscvC3 -------------------------------
(***************************************************************************)
(* How modules/riscv_c3_model/riscv_c3_model.h makes a RISC-V load or store*)
(* use a cryptographic address: instruction_before_cb decodes the base     *)
(* register in place, and instruction_after_cb or exception_before_cb puts *)
(* the CA back.                                                            *)
(*                                                                         *)
(* A step of the CPU is an instruction that starts (Start) and then either *)
(* completes (Complete) or faults (Fault); an exception may also come      *)
(* between instructions (Interrupt).  Which instruction comes next, and    *)
(* what it loads or computes, is arbitrary.                                *)
(***************************************************************************)
EXTENDS Naturals

CONSTANTS Reg,       \* register numbers; 0 is x0
          Ca,        \* cryptographic addresses
          Plain,     \* other values: linear addresses and data
          Decode,    \* Ca -> Plain, the canonical address of a CA
          Zero       \* what x0 reads as, and the initial fixup_reg_val

ASSUME RiscvAssumption ==
  /\ 0 \in Reg
  /\ Ca \cap Plain = {} /\ Zero \in Plain
  /\ Decode \in [Ca -> Plain]

VARIABLES
  regs,                  \* the register file
  cc_enabled,            \* the context's C3 flag
  need_fixup, exception_fixup_only, fixup_reg_num, fixup_reg_val,
  instr,                 \* the instruction in execution, or Idle
  before,                \* history: the registers when it started
  arch,                  \* history: the registers as the program expects them
  overlap                \* history: some decoded access had rs1 in bits 7-11

fixup == <<need_fixup, exception_fixup_only, fixup_reg_num, fixup_reg_val>>
vars == <<regs, cc_enabled, fixup, instr, before, arch, overlap>>

Val  == Ca \cup Plain

\* rd7 is the field in bits 7-11: rd of a load, a part of a store's immediate.
Instr == [op : {"load", "store", "other", "ctx"}, rs1 : Reg, rd7 : Reg]
Idle  == [op |-> "idle", rs1 |-> 0, rd7 |-> 0]

IsAccess(i) == i.op \in {"load", "store"}

\* address_before returns something else than it was given.
Decodes(i) == IsAccess(i) /\ cc_enabled /\ before[i.rs1] \in Ca

-----------------------------------------------------------------------------
instruction_before_cb(i) ==
  IF cc_enabled /\ IsAccess(i) /\ regs[i.rs1] \in Ca
  THEN /\ regs' = [regs EXCEPT ![i.rs1] = Decode[regs[i.rs1]]]
       /\ need_fixup' = TRUE
       /\ fixup_reg_num' = i.rs1
       /\ fixup_reg_val' = regs[i.rs1]
       /\ exception_fixup_only' = (i.rd7 = i.rs1)
  ELSE UNCHANGED <<regs, fixup>>

\* A bug: an overlapping destination is not restored on exceptions either.
restore_fixup_never(is_exception, r, enabled) ==
  IF need_fixup /\ enabled /\ ~exception_fixup_only
  THEN /\ regs' = [r EXCEPT ![fixup_reg_num] = fixup_reg_val]
       /\ need_fixup' = FALSE
       /\ UNCHANGED <<exception_fixup_only, fixup_reg_num, fixup_reg_val>>
  ELSE /\ regs' = r
       /\ UNCHANGED fixup

\* A bug: the flag stays set once the register is restored.
restore_fixup_keeps(is_exception, r, enabled) ==
  IF need_fixup /\ enabled /\ (is_exception \/ ~exception_fixup_only)
  THEN /\ regs' = [r EXCEPT ![fixup_reg_num] = fixup_reg_val]
       /\ UNCHANGED fixup
  ELSE /\ regs' = r
       /\ UNCHANGED fixup

\* restore_fixup on the registers r that the instruction left.
restore_fixup(is_exception, r, enabled) ==
  IF need_fixup /\ enabled /\ (is_exception \/ ~exception_fixup_only)
  THEN /\ regs' = [r EXCEPT ![fixup_reg_num] = fixup_reg_val]
       /\ need_fixup' = FALSE
       /\ UNCHANGED <<exception_fixup_only, fixup_reg_num, fixup_reg_val>>
  ELSE /\ regs' = r
       /\ UNCHANGED fixup

-----------------------------------------------------------------------------
Start(i) ==
  /\ instr = Idle
  /\ instr' = i
  /\ before' = regs
  /\ instruction_before_cb(i)
  /\ overlap' = \/ overlap
                \/ cc_enabled /\ IsAccess(i) /\ regs[i.rs1] \in Ca /\ i.rd7 = i.rs1
  /\ UNCHANGED <<cc_enabled, arch>>

\* What an instruction itself does to the registers: all but stores write rd, save x0.
Effect(r, v) ==
  IF instr.op \in {"load", "other"} /\ instr.rd7 # 0 THEN [r EXCEPT ![instr.rd7] = v] ELSE r

\* The instruction is done; a context load may have changed cc_enabled.
Complete(v, enabled) ==
  /\ instr # Idle
  /\ instr.op # "ctx" => enabled = cc_enabled
  /\ cc_enabled' = enabled
  /\ arch' = Effect(arch, v)
  /\ restore_fixup(FALSE, Effect(regs, v), enabled)
  /\ instr' = Idle
  /\ UNCHANGED <<before, overlap>>

Fault ==
  /\ instr # Idle
  /\ restore_fixup(TRUE, regs, cc_enabled)
  /\ instr' = Idle
  /\ UNCHANGED <<cc_enabled, before, arch, overlap>>

Interrupt ==
  /\ instr = Idle
  /\ restore_fixup(TRUE, regs, cc_enabled)
  /\ UNCHANGED <<cc_enabled, instr, before, arch, overlap>>

Init ==
  /\ regs \in [Reg -> Val] /\ regs[0] = Zero
  /\ arch = regs /\ before = regs
  /\ cc_enabled = FALSE
  /\ need_fixup = FALSE /\ exception_fixup_only = FALSE
  /\ fixup_reg_num = 0 /\ fixup_reg_val = Zero
  /\ instr = Idle
  /\ overlap = FALSE

Next ==
  \/ \E i \in Instr : Start(i)
  \/ \E v \in Val, enabled \in BOOLEAN : Complete(v, enabled)
  \/ Fault
  \/ Interrupt

Spec == Init /\ [][Next]_vars

-----------------------------------------------------------------------------
\* Type invariant: registers hold values, and only a CA is ever kept for a restore.
TypeOK ==
  /\ regs \in [Reg -> Val] /\ arch \in [Reg -> Val] /\ before \in [Reg -> Val]
  /\ cc_enabled \in BOOLEAN /\ overlap \in BOOLEAN
  /\ need_fixup \in BOOLEAN /\ exception_fixup_only \in BOOLEAN
  /\ fixup_reg_num \in Reg
  /\ fixup_reg_val \in Ca \cup {Zero}
  /\ instr \in Instr \cup {Idle}

(***************************************************************************)
(* A handler can retry: when a load or store through a CA faults, every    *)
(* register is what it was before the instruction, the CA included, even   *)
(* when the load would have overwritten its own base register.             *)
(***************************************************************************)
FaultSeesPointer ==
  [][instr # Idle /\ Decodes(instr) /\ Fault => regs' = before]_vars

(***************************************************************************)
(* Decoding registers in place is invisible to the program as long as no   *)
(* load or store through a CA has its base register's number in bits 7-11: *)
(* whatever instructions, faults, interrupts and context loads interleave, *)
(* between instructions the registers are what the program expects.        *)
(***************************************************************************)
TransparentWithoutOverlap == instr = Idle /\ ~overlap => regs = arch

(***************************************************************************)
(* "Store values to restore after instruction in restore_fixup()": the     *)
(* same without the exception.                                             *)
(***************************************************************************)
Transparent == instr = Idle => regs = arch
=============================================================================
