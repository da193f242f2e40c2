------------------------------ MODULE ShadowRip ------------------------------
(***************************************************************************)
(* The shadow RIP of modules/common/ccsimics/shadow_rip.h.                 *)
(*                                                                         *)
(* Code may be protected: called through an encoded pointer, it must use   *)
(* that pointer's fixed bits for its own RIP-relative accesses.  The CPU   *)
(* only ever sees plain addresses in RIP, so the fixed bits are kept in    *)
(* gsrip, which calls, returns, exceptions and SMM have to carry along:    *)
(* a callback before the instruction decodes the branch target in place    *)
(* (in a register or in memory) and a callback after it puts the pointer   *)
(* back and marks the return address.                                      *)
(*                                                                         *)
(* A code address is abstracted to the power-of-two slot it lies in and to *)
(* whether it is encoded.  The stack pointer is not encoded.  gp_fault     *)
(* does not return (lim_model/model.cpp:272): an address that escapes its  *)
(* slot ends the callback, and the exception follows as any other.         *)
(***************************************************************************)
EXTENDS Naturals, Sequences

CONSTANTS Slots,      \* slots of protected code
          NoSlot,     \* the slot of all other code, and a gsrip of 0
          MaxDepth    \* bound: frames on the stack

ASSUME ShadowRipAssumption ==
  /\ NoSlot \notin Slots /\ MaxDepth \in Nat
  /\ {"none", "garbage"} \cap (Slots \cup {NoSlot}) = {}

VARIABLES
  rip,              \* slot of the running code
  gsrip,
  gsrip_enabled,
  icv_enabled,
  stack,            \* return addresses and exception frames, the last one on top
  cell,             \* the code pointers in memory
  reg,              \* the code pointer in a register
  instr,            \* the branch between its two callbacks, or NoInstr
  need,             \* need_ra_fixup_, need_cp_fixup_, reg_fixup_ != Not_Used, is_rip_rel_
  saved,            \* old_gsrip_, original_cp_value_ and reg_fixup_val_
  hack,             \* mem_call_integrity_hack_
  smm,              \* the RIP saved for SMM, or NoRip
  data_enc,         \* ~disable_data_encryption
  ghost             \* history: what the program would see on real hardware

vars == <<rip, gsrip, gsrip_enabled, icv_enabled, stack, cell, reg, instr, need, saved, hack,
          smm, data_enc, ghost>>

Code == Slots \cup {NoSlot}

CodePtr == [slot : Code, ca : {FALSE}] \cup [slot : Slots, ca : {TRUE}]

Plain(s) == [slot |-> s, ca |-> FALSE]

NoRip == [slot |-> "none", ca |-> FALSE]

\* A null pointer, and what an encrypted one looks like to an access that does not decrypt.
Garbage == [slot |-> "garbage", ca |-> FALSE]

\* Where a branch finds its target: memory addressed plainly, through an encoded address, or
\* relative to a protected RIP, where the data is encrypted as well.
Cells == {"plain", "heap", "code"}

Branches == [form : {"direct", "reg"} \cup Cells, call : BOOLEAN]

NoInstr == [form |-> "none", call |-> FALSE]

RetInstr == [form |-> "ret", call |-> FALSE]

MemInstr == [form |-> "mem", call |-> FALSE]

NoNeed == [ra |-> FALSE, cp |-> FALSE, reg |-> FALSE, rip |-> FALSE]

\* What the flags guard is never read without them.
NoSaved == [gsrip |-> NoSlot, reg |-> Garbage,
            cp |-> [addr |-> "plain", val |-> [enc |-> FALSE, cp |-> Garbage]]]

Idle == instr = NoInstr /\ smm = NoRip

Top == stack[Len(stack)]

-----------------------------------------------------------------------------
normalize_gsrip(p) == IF p.ca THEN p.slot ELSE NoSlot

decode_ptr(p) == Plain(p.slot)

\* The address is outside gsrip's slot: replace_shadow_rip disables gsrip and raises #GP, and
\* does not come back.
Escapes(p, g) == g # NoSlot /\ p.slot # g

replace_shadow_rip(p, g) == IF g # NoSlot /\ ~Escapes(p, g) THEN [p EXCEPT !.ca = TRUE] ELSE p

\* The form without a second argument, guarded by the enable bit.
ActiveGsrip == IF gsrip_enabled THEN gsrip ELSE NoSlot

-----------------------------------------------------------------------------
\* Every change of gsrip goes to the context.
set_shadow_rip(g) == gsrip' = g

update_reg_branch_target(ra) ==
  /\ set_shadow_rip(normalize_gsrip(reg))
  /\ reg' = decode_ptr(reg)
  /\ need' = [NoNeed EXCEPT !.ra = ra, !.reg = reg.ca]
  /\ saved' = [saved EXCEPT !.gsrip = IF ra THEN gsrip ELSE @,
                            !.reg = IF reg.ca THEN reg ELSE @]
  /\ UNCHANGED <<cell, icv_enabled, hack>>

\* The decoded target is put where the CPU will load it: encrypted if the access goes through
\* an encoded address (or 0, with data encryption disabled), as it is otherwise.
Patched(a, c) ==
  IF a # "heap" THEN [enc |-> FALSE, cp |-> decode_ptr(c.cp)]
  ELSE IF data_enc THEN [enc |-> TRUE, cp |-> decode_ptr(c.cp)]
  ELSE [enc |-> FALSE, cp |-> Garbage]

\* A bug: integrity stays on while a plain access reads protected memory.
IcvHack_off(a, changed) == UNCHANGED <<icv_enabled, hack>>

\* A plain access will read protected memory, so integrity is off for the instruction.
IcvHack(a, changed) ==
  IF a = "code" /\ changed THEN hack' = icv_enabled /\ icv_enabled' = FALSE
  ELSE UNCHANGED <<icv_enabled, hack>>

update_mem_branch_target(a, ra) ==
  LET c       == cell[a]
      changed == c.enc \/ c.cp.ca
  IN  /\ set_shadow_rip(normalize_gsrip(c.cp))
      /\ cell' = IF changed THEN [cell EXCEPT ![a] = Patched(a, c)] ELSE cell
      /\ IcvHack(a, changed)
      /\ need' = [NoNeed EXCEPT !.ra = ra, !.cp = changed]
      /\ saved' = [saved EXCEPT !.gsrip = IF ra THEN gsrip ELSE @,
                                !.cp = IF changed THEN [addr |-> a, val |-> c] ELSE @]
      /\ UNCHANGED reg

direct_branch(ra) ==
  /\ need' = [NoNeed EXCEPT !.ra = ra]
  /\ saved' = [saved EXCEPT !.gsrip = IF ra THEN gsrip ELSE @]
  /\ UNCHANGED <<gsrip, cell, reg, icv_enabled, hack>>

\* instruction_before_cb, then emul_call or emul_jmp
emul_call_or_jmp(i) ==
  LET ra == i.call /\ gsrip # NoSlot
  IN  IF ~gsrip_enabled
      THEN need' = NoNeed /\ UNCHANGED <<gsrip, cell, reg, icv_enabled, hack, saved>>
      ELSE CASE i.form = "direct" -> direct_branch(ra)
             [] i.form = "reg"    -> update_reg_branch_target(ra)
             [] i.form \in Cells  -> update_mem_branch_target(i.form, ra)

\* A branch of a correct program: RIP-relative data is reached from its own slot.
StartBranch(i) ==
  /\ Idle
  /\ i.call => Len(stack) < MaxDepth
  /\ i.form = "code" => rip = gsrip /\ gsrip # NoSlot
  /\ emul_call_or_jmp(i)
  /\ instr' = i
  /\ UNCHANGED <<rip, gsrip_enabled, stack, smm, data_enc, ghost>>

\* A bug: gsrip is only ever set by a return, not cleared.
emul_ret_keeps(ra) == gsrip' = IF ra.ca THEN ra.slot ELSE gsrip

\* The fixed bits move from the return address to gsrip.
emul_ret(ra) == set_shadow_rip(normalize_gsrip(ra))

\* RET, and IRET once the handler has dropped the error code.
StartRet ==
  /\ Idle /\ Len(stack) > 0
  /\ IF gsrip_enabled
     THEN emul_ret(Top.ra) /\ stack' = [stack EXCEPT ![Len(stack)].ra = decode_ptr(@)]
     ELSE UNCHANGED <<gsrip, stack>>
  /\ need' = NoNeed
  /\ instr' = RetInstr
  /\ UNCHANGED <<rip, gsrip_enabled, icv_enabled, cell, reg, saved, hack, smm, data_enc, ghost>>

\* emul_mem_access: an instruction with a RIP-relative operand, and perhaps another one on the
\* stack.
emul_mem_access == need' = [NoNeed EXCEPT !.rip = gsrip_enabled]

StartMem ==
  /\ Idle
  /\ emul_mem_access
  /\ instr' = MemInstr
  /\ UNCHANGED <<rip, gsrip, gsrip_enabled, icv_enabled, stack, cell, reg, saved, hack, smm,
                 data_enc, ghost>>

\* A bug: gsrip is applied to every operand of the instruction.
Applies_any(p) == need.rip

\* The address is the RIP-relative one, here told by its slot.
Applies(p) == need.rip /\ p = Plain(rip)

address_before_shim(p) == IF Applies(p) THEN replace_shadow_rip(p, ActiveGsrip) ELSE p

-----------------------------------------------------------------------------
(***************************************************************************)
(* The CPU executes the branch, as it finds registers and memory.          *)
(***************************************************************************)
Target(i) ==
  CASE i.form = "direct" -> Plain(rip)
    [] i.form = "reg"    -> reg
    [] i.form = "ret"    -> Top.ra
    [] i.form \in Cells  -> IF cell[i.form].enc = (i.form = "heap" /\ data_enc)
                           THEN cell[i.form].cp ELSE Garbage

\* The CPU can go there.  A RIP-relative access is plain, and an ICV fault if checked.
Fetchable(i) ==
  /\ Target(i).slot \in Code /\ ~Target(i).ca
  /\ i.form = "code" => ~icv_enabled

\* Where the program's own pointer leads.
Meant(i) ==
  CASE i.form = "direct" -> Plain(rip)
    [] i.form = "reg"    -> ghost.reg
    [] i.form \in Cells  -> ghost.cell[i.form].cp

MarkedRa == IF need.ra THEN replace_shadow_rip(Plain(rip), saved.gsrip) ELSE Plain(rip)

RaEscapes == need.ra /\ Escapes(Plain(rip), saved.gsrip)

\* A bug: a code pointer patched in memory stays patched.
instruction_after_no_cp(i) ==
  /\ gsrip_enabled' = (gsrip_enabled /\ ~RaEscapes)
  /\ icv_enabled' = (icv_enabled \/ (need.cp /\ ~RaEscapes /\ hack))
  /\ reg' = IF need.reg /\ ~RaEscapes THEN saved.reg ELSE reg
  /\ need' = NoNeed /\ saved' = NoSaved
  /\ UNCHANGED cell

\* A bug: integrity is only switched back on by a call.
instruction_after_no_icv(i) ==
  /\ gsrip_enabled' = (gsrip_enabled /\ ~RaEscapes)
  /\ cell' = IF need.cp /\ ~RaEscapes THEN [cell EXCEPT ![saved.cp.addr] = saved.cp.val] ELSE cell
  /\ icv_enabled' = (icv_enabled \/ (need.cp /\ ~RaEscapes /\ hack /\ i.call))
  /\ reg' = IF need.reg /\ ~RaEscapes THEN saved.reg ELSE reg
  /\ need' = NoNeed /\ saved' = NoSaved

\* A bug: the register is written back whether or not it was changed.
instruction_after_reg_always(i) ==
  /\ gsrip_enabled' = (gsrip_enabled /\ ~RaEscapes)
  /\ cell' = IF need.cp /\ ~RaEscapes THEN [cell EXCEPT ![saved.cp.addr] = saved.cp.val] ELSE cell
  /\ icv_enabled' = (icv_enabled \/ (need.cp /\ ~RaEscapes /\ hack))
  /\ reg' = saved.reg
  /\ need' = NoNeed /\ saved' = NoSaved

\* A return address that escapes leaves everything else undone.  The flags are cleared by the
\* next instruction_before_cb or exception_before_cb, before anything reads them again: that is
\* folded in here.
instruction_after_cb(i) ==
  /\ gsrip_enabled' = (gsrip_enabled /\ ~RaEscapes)
  /\ cell' = IF need.cp /\ ~RaEscapes THEN [cell EXCEPT ![saved.cp.addr] = saved.cp.val] ELSE cell
  /\ icv_enabled' = (icv_enabled \/ (need.cp /\ ~RaEscapes /\ hack))
  /\ reg' = IF need.reg /\ ~RaEscapes THEN saved.reg ELSE reg
  /\ need' = NoNeed /\ saved' = NoSaved

\* Nothing is said of a program an exception has spoiled.
Track(g) == IF g.spoiled
            THEN [g EXCEPT !.gsrip = NoSlot, !.stack = <<>>, !.reg = Garbage, !.icv = FALSE,
                           !.stale = FALSE, !.cell = [a \in Cells |-> NoSaved.cp.val]]
            ELSE g

Pop(s) == SubSeq(s, 1, Len(s) - 1)

CompleteBranch ==
  LET i == instr
  IN  /\ i \in Branches /\ Fetchable(i)
      /\ rip' = Target(i).slot
      /\ stack' = IF i.call THEN Append(stack, [ra |-> MarkedRa, err |-> FALSE]) ELSE stack
      /\ instruction_after_cb(i)
      /\ instr' = NoInstr
      /\ ghost' = Track([ghost EXCEPT
                     !.gsrip = IF i.form = "direct" THEN @ ELSE normalize_gsrip(Meant(i)),
                     !.stack = IF i.call THEN Append(@, ghost.gsrip) ELSE @])
      /\ UNCHANGED <<gsrip, hack, smm, data_enc>>

CompleteRet ==
  /\ instr = RetInstr /\ Fetchable(instr)
  /\ rip' = Top.ra.slot
  /\ stack' = Pop(stack)
  /\ instruction_after_cb(instr)
  /\ instr' = NoInstr
  /\ ghost' = IF ghost.spoiled THEN ghost
              ELSE [ghost EXCEPT !.gsrip = ghost.stack[Len(stack)], !.stack = Pop(@)]
  /\ UNCHANGED <<gsrip, hack, smm, data_enc>>

\* Both operands of a memory instruction have gone through address_before_shim.
CompleteMem ==
  /\ instr = MemInstr
  /\ gsrip_enabled' = (gsrip_enabled
       /\ \A p \in {Plain(rip), Plain(NoSlot)} : ~(Applies(p) /\ Escapes(p, ActiveGsrip)))
  /\ need' = NoNeed /\ saved' = NoSaved
  /\ instr' = NoInstr
  /\ UNCHANGED <<rip, gsrip, icv_enabled, stack, cell, reg, hack, smm, data_enc, ghost>>

-----------------------------------------------------------------------------
\* The word on top of the stack, which is to be marked, is the return address, or the error code
\* above it, which lies outside any slot.
WordEscapes(err) == IF err THEN ActiveGsrip # NoSlot ELSE Escapes(Plain(rip), ActiveGsrip)

\* If it escapes, gsrip is not cleared any more, only disabled.
exception_after_cb(err) ==
  /\ stack' = Append(stack, [err |-> err,
                ra |-> IF err THEN Plain(rip) ELSE replace_shadow_rip(Plain(rip), ActiveGsrip)])
  /\ gsrip_enabled' = (gsrip_enabled /\ ~WordEscapes(err))
  /\ set_shadow_rip(IF WordEscapes(err) THEN gsrip ELSE NoSlot)

\* An exception or interrupt, between instructions or in the middle of a branch, which
\* starts over after the handler.
Exception(err) ==
  /\ smm = NoRip /\ Len(stack) < MaxDepth
  /\ exception_after_cb(err)
  /\ need' = NoNeed /\ saved' = NoSaved
  /\ rip' = NoSlot
  /\ instr' = NoInstr
  /\ ghost' = Track([ghost EXCEPT
                 !.gsrip = NoSlot, !.stack = Append(@, ghost.gsrip),
                 !.spoiled = @ \/ instr.form \notin {"none", "direct", "mem"}
                               \/ (err /\ ActiveGsrip # NoSlot)])
  /\ UNCHANGED <<icv_enabled, cell, reg, hack, smm, data_enc>>

\* The RIP that SMM saves is marked; if it escapes, SMM is not entered.
smm_enter_before_cb ==
  LET escapes == Escapes(Plain(rip), ActiveGsrip)
  IN  /\ smm' = IF escapes THEN smm ELSE replace_shadow_rip(Plain(rip), ActiveGsrip)
      /\ gsrip_enabled' = (gsrip_enabled /\ ~escapes)
      /\ set_shadow_rip(IF escapes THEN gsrip ELSE NoSlot)

SmmEnter ==
  /\ Idle
  /\ smm_enter_before_cb
  /\ UNCHANGED <<rip, icv_enabled, stack, cell, reg, instr, need, saved, hack, data_enc, ghost>>

\* smm_leave_after_cb
SmmLeave ==
  /\ smm # NoRip
  /\ set_shadow_rip(normalize_gsrip(smm))
  /\ smm' = NoRip
  /\ UNCHANGED <<rip, gsrip_enabled, icv_enabled, stack, cell, reg, instr, need, saved, hack,
                 data_enc, ghost>>

\* What LEA of an address relative to RIP gives, if it does not escape.
emul_lea_reg_xed_cb ==
  IF Escapes(Plain(rip), ActiveGsrip) THEN reg ELSE replace_shadow_rip(Plain(rip), ActiveGsrip)

\* emul_lea: the address of code relative to RIP
Lea ==
  /\ Idle
  /\ reg' = emul_lea_reg_xed_cb
  /\ gsrip_enabled' = (gsrip_enabled /\ ~Escapes(Plain(rip), ActiveGsrip))
  /\ need' = NoNeed
  /\ ghost' = Track([ghost EXCEPT !.reg = reg'])
  /\ UNCHANGED <<rip, gsrip, icv_enabled, stack, cell, instr, saved, hack, smm, data_enc>>

\* The program loads a context with another ICV flag.
LoadIcvFlag(val) ==
  /\ Idle
  /\ icv_enabled' = val
  /\ need' = NoNeed
  /\ ghost' = Track([ghost EXCEPT !.icv = val, !.stale = @ \/ (hack /\ ~val)])
  /\ UNCHANGED <<rip, gsrip, gsrip_enabled, stack, cell, reg, instr, saved, hack, smm, data_enc>>

-----------------------------------------------------------------------------
Init ==
  /\ data_enc \in BOOLEAN
  /\ \E p, q \in CodePtr : cell = [a \in Cells |->
       [enc |-> a # "plain" /\ data_enc, cp |-> IF a = "code" THEN q ELSE p]]
  /\ reg = cell["plain"].cp
  /\ rip = NoSlot /\ gsrip = NoSlot
  /\ gsrip_enabled = TRUE /\ icv_enabled = TRUE
  /\ stack = <<>> /\ instr = NoInstr /\ need = NoNeed
  /\ saved = NoSaved
  /\ hack = FALSE /\ smm = NoRip
  /\ ghost = [gsrip |-> NoSlot, stack |-> <<>>, cell |-> cell, reg |-> reg, icv |-> TRUE,
              spoiled |-> FALSE, stale |-> FALSE]

Next ==
  \/ \E i \in Branches : StartBranch(i)
  \/ StartRet
  \/ StartMem
  \/ CompleteMem
  \/ CompleteBranch
  \/ CompleteRet
  \/ \E err \in BOOLEAN : Exception(err)
  \/ SmmEnter
  \/ SmmLeave
  \/ Lea
  \/ \E val \in BOOLEAN : LoadIcvFlag(val)

Spec == Init /\ [][Next]_vars

-----------------------------------------------------------------------------
\* The types of the state; a return that is due has its frame.
TypeOK ==
  /\ rip \in Code /\ gsrip \in Code
  /\ gsrip_enabled \in BOOLEAN /\ icv_enabled \in BOOLEAN
  /\ stack \in Seq([ra : CodePtr, err : BOOLEAN]) /\ Len(stack) <= MaxDepth
  /\ cell \in [Cells -> [enc : BOOLEAN, cp : CodePtr \cup {Garbage}]] /\ reg \in CodePtr
  /\ instr \in Branches \cup {NoInstr, RetInstr, MemInstr} /\ (instr = RetInstr => stack # <<>>)
  /\ need \in [ra : BOOLEAN, cp : BOOLEAN, reg : BOOLEAN, rip : BOOLEAN]
  /\ data_enc \in BOOLEAN /\ hack \in BOOLEAN /\ smm \in CodePtr \cup {NoRip}
  /\ ghost.spoiled \/ Len(ghost.stack) = Len(stack)

\* Through any nesting of calls, tail jumps, exceptions, returns and SMM, code runs with the
\* gsrip of the pointer it was reached through, and gets its own back when control returns to
\* it -- as long as no exception hit a branch half-way (its target is already decoded and its
\* gsrip already the callee's) or pushed an error code (shadow_rip.h:494 takes it for the
\* return address).
GsripFollowsControl == Idle /\ ~ghost.spoiled => gsrip = ghost.gsrip /\ gsrip_enabled

\* Branches leave the pointers they decoded in place, in registers and in memory, as they
\* were (shadow_rip.h:469, :478), under the same condition.
PointersRestored == instr = NoInstr /\ ~ghost.spoiled => cell = ghost.cell /\ reg = ghost.reg

\* Integrity, switched off for RIP-relative branches, is on again after them, and stays off if
\* the program switched it off -- unless it did so after such a branch: the remembered value
\* (shadow_rip.h:471) is never reset, and the next branch through memory applies it.
IntegrityRestored ==
  instr = NoInstr /\ ~ghost.spoiled /\ ~ghost.stale => icv_enabled = ghost.icv

\* With data encryption, the emulation always leaves the CPU a target it can load, that of the
\* program's own pointer.
BranchGoesThrough ==
  instr \in Branches /\ data_enc /\ ~ghost.spoiled
    => Fetchable(instr) /\ Target(instr).slot = Meant(instr).slot

\* Protected code reaches its own data through its CA, however it was entered or come back
\* to, and its other operands, as well as all those of other code, are left alone.
DataThroughGsrip ==
  instr = MemInstr /\ ~ghost.spoiled =>
    /\ address_before_shim(Plain(rip)) = [slot |-> rip, ca |-> ghost.gsrip # NoSlot]
    /\ \A s \in Code \ {rip} : ~Applies(Plain(s))
=============================================================================
