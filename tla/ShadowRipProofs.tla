--------------------------- MODULE ShadowRipProofs ---------------------------
(***************************************************************************)
(* The shadow RIP for any number of protected slots and any depth of       *)
(* frames.  As long as the program is not spoiled by an exception, every   *)
(* piece of state is determined by what the program would see on real      *)
(* hardware (ghost) and by the branch between its callbacks: gsrip         *)
(* (Control), the marks on the stack (Frames), the patched pointers and    *)
(* what is needed to restore them (Patches), and the switch of the         *)
(* integrity checks (Suspended).                                           *)
(***************************************************************************)
EXTENDS ShadowRip, SequenceTheorems, TLAPS

\* A code address that is encoded exactly if the code there runs with a gsrip.
Marked(s, g) == [slot |-> s, ca |-> g # NoSlot]

CellVals == [enc : BOOLEAN, cp : CodePtr \cup {Garbage}]

Ghosts == [gsrip : Code, stack : Seq(Code), cell : [Cells -> CellVals],
           reg : CodePtr \cup {Garbage}, icv : BOOLEAN, spoiled : BOOLEAN, stale : BOOLEAN]

\* The types of what TypeOK leaves out.
HiddenType ==
  /\ saved \in [gsrip : Code, reg : CodePtr \cup {Garbage}, cp : [addr : Cells, val : CellVals]]
  /\ need.reg => saved.reg \in CodePtr
  /\ ghost \in Ghosts
  /\ instr # NoInstr => smm = NoRip
  /\ instr \in Branches /\ instr.call => Len(stack) < MaxDepth

\* The gsrip that the code in execution, or the branch between its callbacks, should have.
DueGsrip ==
  IF instr = RetInstr THEN ghost.stack[Len(stack)]
  ELSE IF instr \in Branches /\ instr.form # "direct" THEN normalize_gsrip(Meant(instr))
  ELSE ghost.gsrip

\* gsrip never differs from the slot of the running code, so that nothing escapes; for SMM it is
\* in the saved RIP.
Control ==
  /\ gsrip_enabled
  /\ ghost.gsrip \in {NoSlot, rip}
  /\ smm = NoRip => gsrip = DueGsrip
  /\ smm # NoRip => smm = Marked(rip, ghost.gsrip)

\* Every frame is marked with the gsrip to go back to; a return decodes its own.
Frames ==
  /\ Len(ghost.stack) = Len(stack)
  /\ \A k \in 1 .. Len(stack) :
       /\ ghost.stack[k] \in {NoSlot, stack[k].ra.slot}
       /\ stack[k].ra.ca = (ghost.stack[k] # NoSlot /\ ~(instr = RetInstr /\ k = Len(stack)))

Changed(c) == c.enc \/ c.cp.ca

\* Only the branch between its callbacks has changed pointers, and it knows how to undo that.
Patches ==
  /\ need = [ra  |-> instr.call /\ ghost.gsrip # NoSlot,
             cp  |-> instr.form \in Cells /\ Changed(ghost.cell[instr.form]),
             reg |-> instr.form = "reg" /\ ghost.reg.ca,
             rip |-> instr = MemInstr]
  /\ need.ra => saved.gsrip = ghost.gsrip
  /\ need.cp => saved.cp = [addr |-> instr.form, val |-> ghost.cell[instr.form]]
  /\ need.reg => saved.reg = ghost.reg
  /\ reg = IF instr.form = "reg" THEN decode_ptr(ghost.reg) ELSE ghost.reg
  /\ cell = IF need.cp THEN [ghost.cell EXCEPT ![instr.form] = Patched(instr.form, @)] ELSE ghost.cell
  /\ ghost.reg \in CodePtr
  /\ \A a \in Cells : ghost.cell[a].enc = (a # "plain" /\ data_enc) /\ ghost.cell[a].cp \in CodePtr

\* Integrity is off during a branch through protected memory, and what is remembered of it is
\* what the program set, until it has switched it off after such a branch.
Suspended ==
  /\ instr.form = "code" /\ need.cp => ~icv_enabled
  /\ ~ghost.stale =>
       /\ hack => ghost.icv
       /\ IF instr.form = "code" /\ need.cp THEN hack = ghost.icv ELSE icv_enabled = ghost.icv

Sound == Control /\ Frames /\ Patches /\ Suspended

IInv == TypeOK /\ HiddenType /\ (~ghost.spoiled => Sound)

-----------------------------------------------------------------------------
(***************************************************************************)
(* Operators on code addresses.                                            *)
(***************************************************************************)
LEMMA PtrType ==
  ASSUME NEW p \in CodePtr \cup {Garbage}
  PROVE  /\ decode_ptr(p) = [slot |-> p.slot, ca |-> FALSE]
         /\ p.ca \in BOOLEAN
         /\ p.ca => p \in CodePtr /\ p.slot \in Slots
         /\ normalize_gsrip(p) \in Code /\ normalize_gsrip(p) \in {NoSlot, p.slot}
         /\ p \in CodePtr => decode_ptr(p) \in CodePtr /\ p.slot \in Code
         /\ p = Garbage => decode_ptr(p) = Garbage
<1>1. NoSlot \in Code /\ Slots \subseteq Code
  BY DEF Code
<1>2. CASE p \in [slot : Code, ca : {FALSE}]
  BY <1>1, <1>2 DEF CodePtr, decode_ptr, Plain, normalize_gsrip, Garbage
<1>3. CASE p \in [slot : Slots, ca : {TRUE}]
  <2>1. p.ca = TRUE /\ p.slot \in Slots /\ p \in CodePtr
    BY <1>3 DEF CodePtr
  <2>2. decode_ptr(p) = [slot |-> p.slot, ca |-> FALSE]
    BY DEF decode_ptr, Plain
  <2>3. p # Garbage
    BY <2>1 DEF Garbage
  <2>4. normalize_gsrip(p) = p.slot
    BY <2>1 DEF normalize_gsrip
  <2>5. decode_ptr(p) \in CodePtr
    BY <1>1, <2>1, <2>2 DEF CodePtr
  <2> QED BY <1>1, <2>1, <2>2, <2>3, <2>4, <2>5
<1>4. CASE p = Garbage
  <2>1. decode_ptr(p) = [slot |-> p.slot, ca |-> FALSE]
    BY DEF decode_ptr, Plain
  <2>2. Garbage.ca = FALSE /\ Garbage.slot = "garbage"
    BY DEF Garbage
  <2>3. normalize_gsrip(p) = NoSlot
    BY <1>4, <2>2 DEF normalize_gsrip
  <2>4. decode_ptr(p) = Garbage
    BY <1>4, <2>1, <2>2 DEF Garbage
  <2>5. p \in CodePtr => p \in [slot : Code, ca : {FALSE}]
    BY <1>4, <2>2 DEF CodePtr
  <2>6. p.ca = FALSE
    BY <1>4, <2>2
  <2>7. p \in CodePtr => decode_ptr(p) \in CodePtr /\ p.slot \in Code
    BY <1>4, <2>4, <2>5
  <2> QED BY <1>1, <1>4, <2>1, <2>3, <2>4, <2>6, <2>7
<1> QED BY <1>2, <1>3, <1>4 DEF CodePtr

\* An address within its gsrip's slot, or of code without one, is marked and does not escape.
LEMMA ReplaceType ==
  ASSUME NEW s \in Code, NEW g \in Code
  PROVE  /\ replace_shadow_rip(Plain(s), g) \in CodePtr
         /\ Marked(s, g) \in CodePtr \/ g \notin {NoSlot, s}
         /\ g \in {NoSlot, s} => replace_shadow_rip(Plain(s), g) = Marked(s, g) /\ ~Escapes(Plain(s), g)
         /\ g \in {NoSlot, s} => normalize_gsrip(Marked(s, g)) = g
BY DEF replace_shadow_rip, Escapes, Plain, Marked, CodePtr, Code, normalize_gsrip

\* Pushing and popping frames.
LEMMA PushType ==
  ASSUME NEW S, NEW s \in Seq(S), NEW e \in S
  PROVE  /\ Append(s, e) \in Seq(S) /\ Len(Append(s, e)) = Len(s) + 1
         /\ Append(s, e)[Len(s) + 1] = e
         /\ \A k \in 1 .. Len(s) : Append(s, e)[k] = s[k]
BY AppendProperties

LEMMA PopType ==
  ASSUME NEW S, NEW s \in Seq(S), Len(s) > 0
  PROVE  /\ Pop(s) \in Seq(S) /\ Len(Pop(s)) = Len(s) - 1
         /\ \A k \in 1 .. Len(s) - 1 : Pop(s)[k] = s[k]
<1>1. Len(s) \in Nat /\ \A i \in 1 .. Len(s) - 1 : s[i] \in S
  BY LenProperties, ElementOfSeq
<1>2. /\ Pop(s) \in Seq(S)
      /\ Len(Pop(s)) = IF 1 <= Len(s) - 1 THEN Len(s) - 1 - 1 + 1 ELSE 0
      /\ \A i \in 1 .. Len(s) - 1 - 1 + 1 : Pop(s)[i] = s[1 + i - 1]
  BY <1>1, SubSeqProperties DEF Pop
<1>3. ASSUME NEW k \in 1 .. Len(s) - 1 PROVE Pop(s)[k] = s[k]
  <2>1. 1 + k - 1 = k /\ k \in 1 .. Len(s) - 1 - 1 + 1
    BY <1>1
  <2>2. Pop(s)[k] = s[1 + k - 1]
    BY <1>2, <2>1
  <2> QED BY <2>1, <2>2
<1>4. Len(Pop(s)) = Len(s) - 1
  <2>1. CASE 1 <= Len(s) - 1
    BY <1>1, <1>2, <2>1
  <2>2. CASE ~(1 <= Len(s) - 1)
    <3>1. Len(Pop(s)) = 0
      BY <1>2, <2>2
    <3>2. ASSUME NEW n \in Nat, n > 0, ~(1 <= n - 1) PROVE n - 1 = 0
      BY <3>2
    <3> QED BY <1>1, <2>2, <3>1, <3>2
  <2> QED BY <2>1, <2>2
<1> QED BY <1>2, <1>3, <1>4

\* The kinds of instruction.
LEMMA FormType ==
  ASSUME NEW i \in Branches \cup {NoInstr, RetInstr, MemInstr}
  PROVE  /\ i \in Branches <=> i.form \in {"direct", "reg", "plain", "heap", "code"}
         /\ i = NoInstr <=> i.form = "none"
         /\ i = RetInstr <=> i.form = "ret"
         /\ i = MemInstr <=> i.form = "mem"
         /\ i \notin Branches => i.call = FALSE
         /\ i.call \in BOOLEAN
<1>1. CASE i \in Branches
  <2>1. i.form \in {"direct", "reg", "plain", "heap", "code"} /\ i.call \in BOOLEAN
    BY <1>1 DEF Branches, Cells
  <2>2. i # NoInstr /\ i # RetInstr /\ i # MemInstr
    BY <2>1 DEF NoInstr, RetInstr, MemInstr
  <2> QED BY <1>1, <2>1, <2>2
<1>2. ASSUME NEW f \in {"none", "ret", "mem"}, i = [form |-> f, call |-> FALSE]
      PROVE  i.form = f /\ i.call = FALSE /\ i \notin Branches
  BY <1>2 DEF Branches, Cells
<1>3. CASE i = NoInstr
  BY <1>2, <1>3 DEF NoInstr, RetInstr, MemInstr
<1>4. CASE i = RetInstr
  BY <1>2, <1>4 DEF NoInstr, RetInstr, MemInstr
<1>5. CASE i = MemInstr
  BY <1>2, <1>5 DEF NoInstr, RetInstr, MemInstr
<1> QED BY <1>1, <1>3, <1>4, <1>5

\* What is tracked of a program is all there is, until it is spoiled.
LEMMA TrackType ==
  ASSUME NEW g \in Ghosts
  PROVE  Track(g) \in Ghosts /\ Track(g).spoiled = g.spoiled /\ (~g.spoiled => Track(g) = g)
<1>1. NoSlot \in Code /\ <<>> \in Seq(Code)
  BY EmptySeq DEF Code
<1>3. NoSaved.cp.val = [enc |-> FALSE, cp |-> Garbage]
  BY DEF NoSaved
<1>4. NoSaved.cp.val \in CellVals
  BY <1>3 DEF CellVals
<1>2. [a \in Cells |-> NoSaved.cp.val] \in [Cells -> CellVals]
  BY <1>4
<1> QED BY <1>1, <1>2 DEF Track, Ghosts

LEMMA SavedType ==
  NoSaved \in [gsrip : Code, reg : CodePtr \cup {Garbage}, cp : [addr : Cells, val : CellVals]]
BY DEF NoSaved, Cells, CellVals, Code

\* Between instructions nothing is left to do, and the running code cannot escape its gsrip.
LEMMA IdleFacts ==
  ASSUME IInv, Idle, ~ghost.spoiled
  PROVE  /\ gsrip = ghost.gsrip /\ ActiveGsrip = ghost.gsrip /\ gsrip_enabled = TRUE
         /\ need = NoNeed /\ cell = ghost.cell /\ reg = ghost.reg
         /\ ~Escapes(Plain(rip), ActiveGsrip)
         /\ replace_shadow_rip(Plain(rip), ActiveGsrip) = Marked(rip, ghost.gsrip)
         /\ Marked(rip, ghost.gsrip) \in CodePtr
         /\ ~ghost.stale => icv_enabled = ghost.icv
<1>1. /\ instr = NoInstr /\ smm = NoRip /\ rip \in Code /\ ghost.gsrip \in Code
      /\ Control /\ Patches /\ Suspended /\ gsrip_enabled \in BOOLEAN
  BY DEF IInv, Idle, TypeOK, HiddenType, Sound, Ghosts
<1>2. instr.form = "none" /\ instr.call = FALSE /\ instr \notin Branches /\ instr # RetInstr
      /\ instr # MemInstr
  BY <1>1, FormType
<1>3. gsrip = ghost.gsrip /\ gsrip_enabled = TRUE /\ ghost.gsrip \in {NoSlot, rip}
  BY <1>1, <1>2 DEF Control, DueGsrip
<1>4. ActiveGsrip = ghost.gsrip
  BY <1>3 DEF ActiveGsrip
<1>5. need = NoNeed /\ cell = ghost.cell /\ reg = ghost.reg
  BY <1>1, <1>2 DEF Patches, Cells, NoNeed
<1>6. ~ghost.stale => icv_enabled = ghost.icv
  BY <1>1, <1>2 DEF Suspended
<1> QED BY <1>1, <1>3, <1>4, <1>5, <1>6, ReplaceType

\* When no branch is between its callbacks, the pointers being the program's own is all that
\* Patches asks for.
LEMMA RestPatches ==
  ASSUME instr' \in {NoInstr, RetInstr, MemInstr},
         need' = [NoNeed EXCEPT !.rip = (instr' = MemInstr)],
         cell' = ghost'.cell, reg' = ghost'.reg,
         ghost'.reg \in CodePtr,
         \A a \in Cells : /\ ghost'.cell[a].enc = (a # "plain" /\ data_enc')
                         /\ ghost'.cell[a].cp \in CodePtr
  PROVE  Patches'
<1>1. instr'.form \in {"none", "ret", "mem"} /\ instr'.call = FALSE
  BY DEF NoInstr, MemInstr, RetInstr
<1>2. need' = [ra |-> FALSE, cp |-> FALSE, reg |-> FALSE, rip |-> instr' = MemInstr]
  BY DEF NoNeed
<1>3. instr'.form \notin Cells /\ instr'.form # "reg"
  BY <1>1 DEF Cells
<1>4. /\ (instr'.call /\ ghost'.gsrip # NoSlot) = FALSE
      /\ (instr'.form \in Cells /\ Changed(ghost'.cell[instr'.form])) = FALSE
      /\ (instr'.form = "reg" /\ ghost'.reg.ca) = FALSE
  BY <1>1, <1>3
<1>5. need'.ra = FALSE /\ need'.cp = FALSE /\ need'.reg = FALSE
  BY <1>2
<1>6. reg' = IF instr'.form = "reg" THEN decode_ptr(ghost'.reg) ELSE ghost'.reg
  BY <1>3
<1> QED BY <1>2, <1>4, <1>5, <1>6 DEF Patches, Changed

LEMMA NoNeedIs ==
  ASSUME NEW b \in BOOLEAN
  PROVE  /\ [NoNeed EXCEPT !.rip = b] \in [ra : BOOLEAN, cp : BOOLEAN, reg : BOOLEAN, rip : BOOLEAN]
         /\ [NoNeed EXCEPT !.rip = b].reg = FALSE
         /\ [NoNeed EXCEPT !.rip = FALSE] = NoNeed
<1>1. ASSUME NEW n, n = [NoNeed EXCEPT !.rip = b]
      PROVE  /\ n \in [ra : BOOLEAN, cp : BOOLEAN, reg : BOOLEAN, rip : BOOLEAN]
             /\ n.ra = FALSE /\ n.cp = FALSE /\ n.reg = FALSE /\ n.rip = b
  BY <1>1 DEF NoNeed
<1>2. ASSUME NEW n, n = [NoNeed EXCEPT !.rip = FALSE]
      PROVE  n = NoNeed
  BY <1>2 DEF NoNeed
<1> QED BY <1>1, <1>2

\* Conversely, nothing is patched outside of branches through registers and memory.
LEMMA NothingPatched ==
  ASSUME Patches, instr.form \in {"none", "direct", "ret", "mem"}
  PROVE  need.cp = FALSE /\ need.reg = FALSE /\ cell = ghost.cell /\ reg = ghost.reg
<1>1. instr.form \notin Cells /\ instr.form # "reg"
  BY DEF Cells
<1>2. need.cp = FALSE
  BY <1>1 DEF Patches
<1>3. need.reg = FALSE
  BY <1>1 DEF Patches
<1> QED BY <1>1, <1>2, <1>3 DEF Patches

LEMMA RestSuspended ==
  ASSUME instr' = NoInstr, ~ghost'.stale => (hack' => ghost'.icv) /\ icv_enabled' = ghost'.icv
  PROVE  Suspended'
<1>1. instr'.form = "none"
  BY DEF NoInstr
<1> QED BY <1>1 DEF Suspended

-----------------------------------------------------------------------------
(***************************************************************************)
(* One lemma per action.                                                   *)
(***************************************************************************)
LEMMA SmmEnterStep == IInv /\ SmmEnter => IInv'
<1> SUFFICES ASSUME IInv, SmmEnter PROVE IInv'
  OBVIOUS
<1>1. /\ TypeOK /\ HiddenType /\ instr = NoInstr /\ smm = NoRip /\ rip \in Code
      /\ gsrip \in Code
      /\ smm' = IF Escapes(Plain(rip), ActiveGsrip) THEN smm
                ELSE replace_shadow_rip(Plain(rip), ActiveGsrip)
      /\ gsrip_enabled' = (gsrip_enabled /\ ~Escapes(Plain(rip), ActiveGsrip))
      /\ gsrip' = IF Escapes(Plain(rip), ActiveGsrip) THEN gsrip ELSE NoSlot
      /\ UNCHANGED <<rip, icv_enabled, stack, cell, reg, instr, need, saved, hack, data_enc, ghost>>
  BY DEF IInv, SmmEnter, Idle, TypeOK, smm_enter_before_cb, set_shadow_rip
<1>2. ActiveGsrip \in Code /\ NoSlot \in Code
  BY <1>1 DEF ActiveGsrip, Code
<1>3. smm' \in CodePtr \cup {NoRip}
  BY <1>1, <1>2, ReplaceType
<1>4. TypeOK'
  BY <1>1, <1>2, <1>3 DEF TypeOK
<1>5. HiddenType'
  BY <1>1 DEF HiddenType
<1>6. ASSUME ~ghost.spoiled PROVE Sound'
  <2>1. /\ gsrip_enabled' /\ smm' = Marked(rip, ghost.gsrip) /\ ghost.gsrip \in {NoSlot, rip}
        /\ gsrip' = NoSlot
    BY <1>1, <1>6, IdleFacts DEF Idle, IInv, Sound, Control
  <2>2. smm' # NoRip
    <3>1. smm'.slot \in Code /\ "none" \notin Code
      BY <1>1, <2>1, ShadowRipAssumption DEF Marked, Code
    <3>2. NoRip.slot = "none"
      BY DEF NoRip
    <3> QED BY <3>1, <3>2
  <2>3. Control'
    BY <1>1, <2>1, <2>2 DEF Control
  <2>4. Frames' /\ Patches' /\ Suspended'
    BY <1>1, <1>6 DEF IInv, Sound, Frames, Patches, Suspended, Patched
  <2> QED BY <2>3, <2>4 DEF Sound
<1> QED BY <1>1, <1>4, <1>5, <1>6 DEF IInv

LEMMA SmmLeaveStep == IInv /\ SmmLeave => IInv'
<1> SUFFICES ASSUME IInv, SmmLeave PROVE IInv'
  OBVIOUS
<1>1. /\ TypeOK /\ HiddenType /\ instr = NoInstr /\ smm # NoRip /\ rip \in Code
      /\ smm \in CodePtr /\ gsrip' = normalize_gsrip(smm) /\ smm' = NoRip
      /\ UNCHANGED <<rip, gsrip_enabled, icv_enabled, stack, cell, reg, instr, need, saved, hack,
                     data_enc, ghost>>
  BY DEF IInv, SmmLeave, TypeOK, HiddenType, set_shadow_rip
<1>2. gsrip' \in Code
  BY <1>1, PtrType
<1>3. TypeOK'
  BY <1>1, <1>2 DEF TypeOK
<1>4. HiddenType'
  BY <1>1 DEF HiddenType
<1>5. ASSUME ~ghost.spoiled PROVE Sound'
  <2>1. /\ gsrip_enabled /\ smm = Marked(rip, ghost.gsrip) /\ ghost.gsrip \in {NoSlot, rip}
        /\ ghost.gsrip \in Code
    BY <1>1, <1>5 DEF IInv, Sound, Control, HiddenType, Ghosts
  <2>2. gsrip' = ghost.gsrip
    BY <1>1, <2>1, ReplaceType
  <2>3. DueGsrip' = ghost.gsrip
    BY <1>1, FormType DEF DueGsrip, TypeOK
  <2>4. Control'
    BY <1>1, <2>1, <2>2, <2>3 DEF Control
  <2>5. Frames' /\ Patches' /\ Suspended'
    BY <1>1, <1>5 DEF IInv, Sound, Frames, Patches, Suspended, Patched
  <2> QED BY <2>4, <2>5 DEF Sound
<1> QED BY <1>1, <1>3, <1>4, <1>5 DEF IInv

LEMMA StartMemStep == IInv /\ StartMem => IInv'
<1> SUFFICES ASSUME IInv, StartMem PROVE IInv'
  OBVIOUS
<1>1. /\ TypeOK /\ HiddenType /\ instr = NoInstr /\ smm = NoRip
      /\ need' = [NoNeed EXCEPT !.rip = gsrip_enabled] /\ instr' = MemInstr
      /\ gsrip_enabled \in BOOLEAN
      /\ UNCHANGED <<rip, gsrip, gsrip_enabled, icv_enabled, stack, cell, reg, saved, hack, smm,
                     data_enc, ghost>>
  BY DEF IInv, StartMem, TypeOK, emul_mem_access, Idle
<1>2. /\ instr' \in Branches \cup {NoInstr, RetInstr, MemInstr} /\ instr' # RetInstr
      /\ instr'.form = "mem" /\ instr'.call = FALSE /\ instr' \notin Branches
  BY <1>1, FormType
<1>3. need' \in [ra : BOOLEAN, cp : BOOLEAN, reg : BOOLEAN, rip : BOOLEAN] /\ need'.reg = FALSE
  BY <1>1, NoNeedIs
<1>4. TypeOK'
  BY <1>1, <1>2, <1>3 DEF TypeOK
<1>5. HiddenType'
  BY <1>1, <1>2, <1>3 DEF HiddenType
<1>6. ASSUME ~ghost.spoiled PROVE Sound'
  <2>1. /\ gsrip = ghost.gsrip /\ gsrip_enabled = TRUE /\ cell = ghost.cell /\ reg = ghost.reg
        /\ ~ghost.stale => icv_enabled = ghost.icv
    BY <1>1, <1>6, IdleFacts DEF Idle
  <2>2. Control'
    BY <1>1, <1>2, <1>6, <2>1 DEF IInv, Sound, Control, DueGsrip
  <2>3. Frames'
    BY <1>1, <1>2, <1>6, FormType DEF IInv, Sound, Frames, NoInstr, RetInstr
  <2>4. Patches'
    BY <1>1, <1>6, <2>1, RestPatches DEF IInv, Sound, Patches
  <2>5. Suspended'
    BY <1>1, <1>2, <1>6, <2>1 DEF IInv, Sound, Suspended
  <2> QED BY <2>2, <2>3, <2>4, <2>5 DEF Sound
<1> QED BY <1>1, <1>4, <1>5, <1>6 DEF IInv

LEMMA CompleteMemStep == IInv /\ CompleteMem => IInv'
<1> SUFFICES ASSUME IInv, CompleteMem PROVE IInv'
  OBVIOUS
<1>1. /\ TypeOK /\ HiddenType /\ instr = MemInstr /\ smm = NoRip /\ rip \in Code
      /\ gsrip_enabled' = (gsrip_enabled
          /\ \A p \in {Plain(rip), Plain(NoSlot)} : ~(Applies(p) /\ Escapes(p, ActiveGsrip)))
      /\ need' = NoNeed /\ saved' = NoSaved /\ instr' = NoInstr
      /\ UNCHANGED <<rip, gsrip, icv_enabled, stack, cell, reg, hack, smm, data_enc, ghost>>
  BY FormType DEF IInv, CompleteMem, TypeOK, HiddenType, NoInstr, MemInstr
<1>2. /\ instr.form = "mem" /\ instr.call = FALSE /\ instr \notin Branches /\ instr # RetInstr
      /\ instr'.form = "none" /\ instr' \notin Branches /\ instr' # RetInstr
  BY <1>1, FormType
<1>3. NoNeed \in [ra : BOOLEAN, cp : BOOLEAN, reg : BOOLEAN, rip : BOOLEAN] /\ ~NoNeed.reg
  BY NoNeedIs
<1>4. TypeOK'
  BY <1>1, <1>2, <1>3 DEF TypeOK
<1>5. HiddenType'
  BY <1>1, <1>2, <1>3, SavedType DEF HiddenType
<1>6. ASSUME ~ghost.spoiled PROVE Sound'
  <2>1. /\ gsrip = ghost.gsrip /\ gsrip_enabled = TRUE /\ ghost.gsrip \in {NoSlot, rip}
        /\ ghost.gsrip \in Code
    BY <1>1, <1>2, <1>6 DEF IInv, Sound, Control, DueGsrip, TypeOK, HiddenType, Ghosts
  <2>2. \A p : Applies(p) => ~Escapes(p, ActiveGsrip)
    BY <1>1, <2>1, ReplaceType DEF Applies, ActiveGsrip
  <2>3. Control'
    BY <1>1, <1>2, <2>1, <2>2 DEF Control, DueGsrip
  <2>4. Frames'
    BY <1>1, <1>2, <1>6 DEF IInv, Sound, Frames
  <2>5. need.cp = FALSE /\ cell = ghost.cell /\ reg = ghost.reg
    BY <1>2, <1>6, NothingPatched DEF IInv, Sound
  <2>8. NoNeed = [NoNeed EXCEPT !.rip = (instr' = MemInstr)]
    BY <1>1, NoNeedIs DEF NoInstr, MemInstr
  <2>6. Patches'
    BY <1>1, <1>6, <2>5, <2>8, RestPatches DEF IInv, Sound, Patches
  <2>7. Suspended'
    BY <1>1, <1>2, <1>6, RestSuspended DEF IInv, Sound, Suspended
  <2> QED BY <2>3, <2>4, <2>6, <2>7 DEF Sound
<1> QED BY <1>1, <1>4, <1>5, <1>6 DEF IInv

LEMMA LoadIcvFlagStep == ASSUME NEW val \in BOOLEAN PROVE IInv /\ LoadIcvFlag(val) => IInv'
<1> SUFFICES ASSUME IInv, LoadIcvFlag(val) PROVE IInv'
  OBVIOUS
<1> DEFINE g == [ghost EXCEPT !.icv = val, !.stale = @ \/ (hack /\ ~val)]
<1>1. /\ TypeOK /\ HiddenType /\ instr = NoInstr /\ smm = NoRip /\ ghost \in Ghosts
      /\ hack \in BOOLEAN /\ icv_enabled' = val /\ need' = NoNeed /\ ghost' = Track(g)
      /\ UNCHANGED <<rip, gsrip, gsrip_enabled, stack, cell, reg, instr, saved, hack, smm, data_enc>>
  BY DEF IInv, LoadIcvFlag, Idle, TypeOK, HiddenType
<1>2. g \in Ghosts
  BY <1>1 DEF Ghosts
<1>3. /\ g.gsrip = ghost.gsrip /\ g.stack = ghost.stack /\ g.cell = ghost.cell
      /\ g.reg = ghost.reg /\ g.icv = val /\ g.stale = (ghost.stale \/ (hack /\ ~val))
      /\ g.spoiled = ghost.spoiled
  BY <1>1 DEF Ghosts
<1> HIDE DEF g
<1>4. ghost' \in Ghosts /\ ghost'.spoiled = ghost.spoiled /\ (~ghost.spoiled => ghost' = g)
  BY <1>1, <1>2, <1>3, TrackType
<1>5. NoNeed \in [ra : BOOLEAN, cp : BOOLEAN, reg : BOOLEAN, rip : BOOLEAN] /\ ~NoNeed.reg
  BY NoNeedIs
<1>6. TypeOK'
  BY <1>1, <1>3, <1>4, <1>5 DEF TypeOK
<1>7. HiddenType'
  BY <1>1, <1>4, <1>5 DEF HiddenType
<1>8. ASSUME ~ghost.spoiled PROVE Sound'
  <2>1. ghost' = g
    BY <1>4, <1>8
  <2>2. Control /\ Frames /\ Patches /\ Suspended
    BY <1>8 DEF IInv, Sound
  <2>3. need = NoNeed /\ cell = ghost.cell /\ reg = ghost.reg
    BY <1>1, <1>8, IdleFacts DEF Idle
  <2>4. instr # RetInstr /\ instr \notin Branches /\ instr # MemInstr
    BY <1>1, FormType
  <2>5. Control'
    BY <1>1, <1>3, <2>1, <2>2, <2>4 DEF Control, DueGsrip
  <2>6. Frames'
    BY <1>1, <1>3, <2>1, <2>2 DEF Frames
  <2>7. Patches'
    <3>1. NoNeed = [NoNeed EXCEPT !.rip = (instr' = MemInstr)]
      BY <1>1, <2>4, NoNeedIs
    <3> QED BY <1>1, <1>3, <2>1, <2>2, <2>3, <3>1, RestPatches DEF Patches
  <2>8. Suspended'
    BY <1>1, <1>3, <2>1, RestSuspended
  <2> QED BY <2>5, <2>6, <2>7, <2>8 DEF Sound
<1> QED BY <1>4, <1>6, <1>7, <1>8 DEF IInv

LEMMA LeaStep == IInv /\ Lea => IInv'
<1> SUFFICES ASSUME IInv, Lea PROVE IInv'
  OBVIOUS
<1> DEFINE g == [ghost EXCEPT !.reg = reg']
<1>1. /\ TypeOK /\ HiddenType /\ instr = NoInstr /\ smm = NoRip /\ ghost \in Ghosts
      /\ rip \in Code /\ gsrip \in Code
      /\ reg' = IF Escapes(Plain(rip), ActiveGsrip) THEN reg
                ELSE replace_shadow_rip(Plain(rip), ActiveGsrip)
      /\ gsrip_enabled' = (gsrip_enabled /\ ~Escapes(Plain(rip), ActiveGsrip))
      /\ need' = NoNeed /\ ghost' = Track(g)
      /\ UNCHANGED <<rip, gsrip, icv_enabled, stack, cell, instr, saved, hack, smm, data_enc>>
  BY DEF IInv, Lea, Idle, TypeOK, HiddenType, emul_lea_reg_xed_cb
<1>2. reg' \in CodePtr
  <2>1. reg \in CodePtr /\ ActiveGsrip \in Code
    BY <1>1 DEF TypeOK, ActiveGsrip, Code
  <2> QED BY <1>1, <2>1, ReplaceType
<1>3. g \in Ghosts
  BY <1>1, <1>2 DEF Ghosts
<1>4. /\ g.gsrip = ghost.gsrip /\ g.stack = ghost.stack /\ g.cell = ghost.cell
      /\ g.reg = reg' /\ g.icv = ghost.icv /\ g.stale = ghost.stale
      /\ g.spoiled = ghost.spoiled
  BY <1>1 DEF Ghosts
<1> HIDE DEF g
<1>5. ghost' \in Ghosts /\ ghost'.spoiled = ghost.spoiled /\ (~ghost.spoiled => ghost' = g)
  BY <1>1, <1>3, <1>4, TrackType
<1>6. NoNeed \in [ra : BOOLEAN, cp : BOOLEAN, reg : BOOLEAN, rip : BOOLEAN] /\ ~NoNeed.reg
  BY NoNeedIs
<1>7. TypeOK'
  BY <1>1, <1>2, <1>4, <1>5, <1>6 DEF TypeOK
<1>8. HiddenType'
  BY <1>1, <1>5, <1>6 DEF HiddenType
<1>9. ASSUME ~ghost.spoiled PROVE Sound'
  <2>1. ghost' = g
    BY <1>5, <1>9
  <2>2. Control /\ Frames /\ Patches /\ Suspended
    BY <1>9 DEF IInv, Sound
  <2>3. /\ need = NoNeed /\ cell = ghost.cell /\ gsrip = ghost.gsrip /\ gsrip_enabled'
        /\ ~ghost.stale => icv_enabled = ghost.icv
    BY <1>1, <1>9, IdleFacts DEF Idle
  <2>4. instr # RetInstr /\ instr \notin Branches /\ instr # MemInstr
    BY <1>1, FormType
  <2>5. Control'
    BY <1>1, <1>4, <2>1, <2>2, <2>3, <2>4 DEF Control, DueGsrip
  <2>6. Frames'
    BY <1>1, <1>4, <2>1, <2>2 DEF Frames
  <2>7. Patches'
    <3>1. NoNeed = [NoNeed EXCEPT !.rip = (instr' = MemInstr)]
      BY <1>1, <2>4, NoNeedIs
    <3> QED BY <1>1, <1>2, <1>4, <2>1, <2>2, <2>3, <3>1, RestPatches DEF Patches
  <2>8. Suspended'
    BY <1>1, <1>4, <2>1, <2>2, <2>3, RestSuspended DEF Suspended
  <2> QED BY <2>5, <2>6, <2>7, <2>8 DEF Sound
<1> QED BY <1>5, <1>7, <1>8, <1>9 DEF IInv

\* The frame a return uses: decoding its address changes neither the others nor its slot.
LEMMA TopType ==
  ASSUME TypeOK, stack # <<>>
  PROVE  /\ Len(stack) \in Nat /\ Len(stack) > 0 /\ Len(stack) \in 1 .. Len(stack)
         /\ Top.ra \in CodePtr
         /\ LET s == [stack EXCEPT ![Len(stack)].ra = decode_ptr(@)]
            IN  /\ s \in Seq([ra : CodePtr, err : BOOLEAN]) /\ Len(s) = Len(stack)
                /\ \A k \in 1 .. Len(stack) :
                     s[k].ra = IF k = Len(stack) THEN decode_ptr(stack[k].ra) ELSE stack[k].ra
<1> DEFINE Frame == [ra : CodePtr, err : BOOLEAN]
           n == Len(stack)
           t == [stack[n] EXCEPT !.ra = decode_ptr(@)]
           s == [stack EXCEPT ![n] = t]
<1>1. stack \in Seq(Frame) /\ n \in Nat
  BY LenProperties DEF TypeOK
<1>2. n > 0 /\ n \in 1 .. n
  BY <1>1, EmptySeq
<1>3. stack[n] \in Frame /\ \A k \in 1 .. n : stack[k] \in Frame
  BY <1>1, <1>2, ElementOfSeq
<1>4. Top.ra \in CodePtr
  BY <1>3 DEF Top
<1>5. t \in Frame /\ t.ra = decode_ptr(stack[n].ra)
  BY <1>3, PtrType
<1> HIDE DEF t
<1>6. s \in Seq(Frame) /\ Len(s) = n /\ s[n] = t /\ \A k \in 1 .. n : k # n => s[k] = stack[k]
  BY <1>1, <1>2, <1>5, ExceptSeq
<1> QED BY <1>1, <1>2, <1>4, <1>5, <1>6 DEF t

LEMMA StartRetStep == IInv /\ StartRet => IInv'
<1> SUFFICES ASSUME IInv, StartRet PROVE IInv'
  OBVIOUS
<1> DEFINE s == [stack EXCEPT ![Len(stack)].ra = decode_ptr(@)]
<1>1. /\ TypeOK /\ HiddenType /\ instr = NoInstr /\ smm = NoRip /\ stack # <<>>
      /\ IF gsrip_enabled THEN gsrip' = normalize_gsrip(Top.ra) /\ stack' = s
         ELSE UNCHANGED <<gsrip, stack>>
      /\ need' = NoNeed /\ instr' = RetInstr
      /\ UNCHANGED <<rip, gsrip_enabled, icv_enabled, cell, reg, saved, hack, smm, data_enc, ghost>>
  BY DEF IInv, StartRet, Idle, emul_ret, set_shadow_rip
<1>2. /\ Len(stack) \in Nat /\ Len(stack) > 0 /\ Len(stack) \in 1 .. Len(stack)
      /\ Top.ra \in CodePtr
      /\ s \in Seq([ra : CodePtr, err : BOOLEAN]) /\ Len(s) = Len(stack)
      /\ \A k \in 1 .. Len(stack) :
           s[k].ra = IF k = Len(stack) THEN decode_ptr(stack[k].ra) ELSE stack[k].ra
  BY <1>1, TopType
<1> HIDE DEF s
<1>3. /\ instr' \in Branches \cup {NoInstr, RetInstr, MemInstr} /\ instr # RetInstr
      /\ instr'.form = "ret" /\ instr' \notin Branches /\ instr' # MemInstr
  BY <1>1, FormType
<1>4. NoNeed \in [ra : BOOLEAN, cp : BOOLEAN, reg : BOOLEAN, rip : BOOLEAN] /\ ~NoNeed.reg
  BY NoNeedIs
<1>5. Len(stack') = Len(stack) /\ stack' \in Seq([ra : CodePtr, err : BOOLEAN]) /\ gsrip' \in Code
  BY <1>1, <1>2, PtrType DEF TypeOK
<1>6. stack' # <<>>
  BY <1>2, <1>5
<1>7. TypeOK'
  BY <1>1, <1>3, <1>4, <1>5, <1>6 DEF TypeOK
<1>8. HiddenType'
  BY <1>1, <1>3, <1>4 DEF HiddenType
<1>9. ASSUME ~ghost.spoiled PROVE Sound'
  <2>1. Control /\ Frames /\ Patches /\ Suspended
    BY <1>9 DEF IInv, Sound
  <2>2. /\ gsrip_enabled = TRUE /\ cell = ghost.cell /\ reg = ghost.reg
        /\ ~ghost.stale => icv_enabled = ghost.icv
    BY <1>1, <1>9, IdleFacts DEF Idle
  <2>3. /\ ghost.stack[Len(stack)] \in {NoSlot, Top.ra.slot}
        /\ Top.ra.ca = (ghost.stack[Len(stack)] # NoSlot)
    BY <1>2, <1>3, <2>1 DEF Frames, Top
  <2>4. gsrip' = ghost.stack[Len(stack)]
    BY <1>1, <2>2, <2>3 DEF normalize_gsrip
  <2>5. Control'
    BY <1>1, <1>5, <2>1, <2>4 DEF Control, DueGsrip
  <2>6. Frames'
    <3>1. ASSUME NEW k \in 1 .. Len(stack)
          PROVE  /\ stack'[k].ra.slot = stack[k].ra.slot
                 /\ k # Len(stack) => stack'[k].ra = stack[k].ra
                 /\ k = Len(stack) => stack'[k].ra.ca = FALSE
      <4>1. stack'[k].ra = IF k = Len(stack) THEN decode_ptr(stack[k].ra) ELSE stack[k].ra
        BY <1>1, <1>2, <2>2
      <4>2. /\ decode_ptr(stack[k].ra).slot = stack[k].ra.slot
            /\ decode_ptr(stack[k].ra).ca = FALSE
        BY DEF decode_ptr, Plain
      <4> QED BY <4>1, <4>2
    <3>2. Len(ghost'.stack) = Len(stack')
      BY <1>1, <1>5, <2>1 DEF Frames
    <3>3. ASSUME NEW k \in 1 .. Len(stack)
          PROVE  /\ ghost.stack[k] \in {NoSlot, stack'[k].ra.slot}
                 /\ stack'[k].ra.ca = (ghost.stack[k] # NoSlot /\ ~(k = Len(stack)))
      BY <1>3, <2>1, <3>1 DEF Frames
    <3> QED BY <1>1, <1>5, <3>2, <3>3 DEF Frames
  <2>7. Patches'
    <3>1. NoNeed = [NoNeed EXCEPT !.rip = (instr' = MemInstr)]
      BY <1>3, NoNeedIs
    <3> QED BY <1>1, <2>1, <2>2, <3>1, RestPatches DEF Patches
  <2>8. Suspended'
    BY <1>1, <1>3, <2>1, <2>2 DEF Suspended
  <2> QED BY <2>5, <2>6, <2>7, <2>8 DEF Sound
<1> QED BY <1>1, <1>7, <1>8, <1>9 DEF IInv

\* After the instruction, what it changed is put back, whatever the state of the program.
LEMMA AfterType ==
  ASSUME IInv, instruction_after_cb(instr)
  PROVE  /\ gsrip_enabled' \in BOOLEAN /\ icv_enabled' \in BOOLEAN
         /\ cell' \in [Cells -> CellVals] /\ reg' \in CodePtr
         /\ need' = NoNeed /\ saved' = NoSaved
<1>1. /\ TypeOK /\ HiddenType
      /\ gsrip_enabled' = (gsrip_enabled /\ ~RaEscapes)
      /\ cell' = IF need.cp /\ ~RaEscapes THEN [cell EXCEPT ![saved.cp.addr] = saved.cp.val] ELSE cell
      /\ icv_enabled' = (icv_enabled \/ (need.cp /\ ~RaEscapes /\ hack))
      /\ reg' = IF need.reg /\ ~RaEscapes THEN saved.reg ELSE reg
      /\ need' = NoNeed /\ saved' = NoSaved
  BY DEF IInv, instruction_after_cb
<1>2. saved.cp.addr \in Cells /\ saved.cp.val \in CellVals /\ cell \in [Cells -> CellVals]
  BY <1>1 DEF HiddenType, TypeOK, CellVals
<1>3. cell' \in [Cells -> CellVals]
  BY <1>1, <1>2
<1>4. reg' \in CodePtr
  BY <1>1 DEF HiddenType, TypeOK
<1>5. gsrip_enabled' \in BOOLEAN /\ icv_enabled' \in BOOLEAN
  BY <1>1
<1> QED BY <1>1, <1>3, <1>4, <1>5

LEMMA CompleteRetStep == IInv /\ CompleteRet => IInv'
<1> SUFFICES ASSUME IInv, CompleteRet PROVE IInv'
  OBVIOUS
<1> DEFINE g == [ghost EXCEPT !.gsrip = ghost.stack[Len(stack)], !.stack = Pop(@)]
<1>1. /\ TypeOK /\ HiddenType /\ instr = RetInstr /\ smm = NoRip /\ stack # <<>>
      /\ ghost \in Ghosts /\ stack \in Seq([ra : CodePtr, err : BOOLEAN])
      /\ rip' = Top.ra.slot /\ stack' = Pop(stack) /\ instr' = NoInstr
      /\ ghost' = IF ghost.spoiled THEN ghost ELSE g
      /\ instruction_after_cb(instr)
      /\ UNCHANGED <<gsrip, hack, smm, data_enc>>
  BY FormType DEF IInv, CompleteRet, TypeOK, HiddenType, NoInstr, RetInstr
<1>2. Len(stack) \in Nat /\ Len(stack) > 0 /\ Len(stack) \in 1 .. Len(stack) /\ Top.ra \in CodePtr
  BY <1>1, TopType
<1>3. /\ stack' \in Seq([ra : CodePtr, err : BOOLEAN]) /\ Len(stack') = Len(stack) - 1
      /\ \A k \in 1 .. Len(stack) - 1 : stack'[k] = stack[k]
  BY <1>1, <1>2, PopType
<1>4. /\ gsrip_enabled' \in BOOLEAN /\ icv_enabled' \in BOOLEAN
      /\ cell' \in [Cells -> CellVals] /\ reg' \in CodePtr
      /\ need' = NoNeed /\ saved' = NoSaved
  BY <1>1, AfterType
<1>5. NoNeed \in [ra : BOOLEAN, cp : BOOLEAN, reg : BOOLEAN, rip : BOOLEAN] /\ ~NoNeed.reg
  BY NoNeedIs
<1>6. rip' \in Code
  BY <1>1, <1>2, PtrType
<1>7. ASSUME ~ghost.spoiled
      PROVE  /\ ghost' \in Ghosts /\ ghost'.spoiled = FALSE
             /\ ghost'.stack = Pop(ghost.stack) /\ ghost'.gsrip = ghost.stack[Len(stack)]
             /\ ghost'.cell = ghost.cell /\ ghost'.reg = ghost.reg /\ ghost'.icv = ghost.icv
             /\ ghost'.stale = ghost.stale
             /\ Len(ghost'.stack) = Len(stack) - 1
             /\ \A k \in 1 .. Len(stack) - 1 : ghost'.stack[k] = ghost.stack[k]
  <2>1. ghost.stack \in Seq(Code) /\ Len(ghost.stack) = Len(stack)
    BY <1>1, <1>7 DEF TypeOK, Ghosts
  <2>2. ghost.stack[Len(stack)] \in Code
    BY <1>2, <2>1, ElementOfSeq
  <2>3. /\ Pop(ghost.stack) \in Seq(Code) /\ Len(Pop(ghost.stack)) = Len(stack) - 1
        /\ \A k \in 1 .. Len(stack) - 1 : Pop(ghost.stack)[k] = ghost.stack[k]
    BY <1>2, <2>1, PopType
  <2>4. g \in Ghosts
    BY <1>1, <2>2, <2>3 DEF Ghosts
  <2>5. /\ g.gsrip = ghost.stack[Len(stack)] /\ g.stack = Pop(ghost.stack) /\ g.cell = ghost.cell
        /\ g.reg = ghost.reg /\ g.icv = ghost.icv /\ g.stale = ghost.stale
        /\ g.spoiled = ghost.spoiled
    BY <1>1 DEF Ghosts
  <2>6. ghost' = g /\ ghost.spoiled = FALSE
    BY <1>1, <1>7 DEF Ghosts
  <2> HIDE DEF g
  <2> QED BY <2>3, <2>4, <2>5, <2>6
<1>8. ghost.spoiled => ghost' = ghost
  BY <1>1
<1>9. TypeOK'
  <2>1. Len(stack') <= MaxDepth
    BY <1>1, <1>2, <1>3, ShadowRipAssumption DEF TypeOK
  <2>2. ghost'.spoiled \/ Len(ghost'.stack) = Len(stack')
    BY <1>3, <1>7, <1>8
  <2>3. instr' # RetInstr
    BY <1>1 DEF NoInstr, RetInstr
  <2> QED BY <1>1, <1>3, <1>4, <1>5, <1>6, <2>1, <2>2, <2>3 DEF TypeOK, CellVals
<1>10. HiddenType'
  BY <1>1, <1>4, <1>5, <1>7, <1>8, SavedType, FormType DEF HiddenType
<1>11. ASSUME ~ghost'.spoiled PROVE Sound'
  <2>1. ~ghost.spoiled
    BY <1>8, <1>11
  <2>2. Control /\ Frames /\ Patches /\ Suspended
    BY <2>1 DEF IInv, Sound
  <2>3. /\ instr.form = "ret" /\ instr.call = FALSE /\ instr' \notin Branches /\ instr' # RetInstr
        /\ instr' # MemInstr
    BY <1>1, FormType
  <2>4. need.cp = FALSE /\ need.reg = FALSE /\ need.ra = FALSE /\ cell = ghost.cell /\ reg = ghost.reg
    <3>1. need.ra = FALSE
      BY <2>2, <2>3 DEF Patches
    <3> QED BY <2>2, <2>3, <3>1, NothingPatched
  <2>5. gsrip_enabled' /\ cell' = cell /\ reg' = reg /\ icv_enabled' = icv_enabled
    <3>1. ~RaEscapes
      BY <2>4 DEF RaEscapes
    <3> QED BY <1>1, <2>2, <2>4, <3>1 DEF instruction_after_cb, Control, TypeOK
  <2>6. gsrip = ghost.stack[Len(stack)] /\ ghost.stack[Len(stack)] \in {NoSlot, Top.ra.slot}
    BY <1>1, <1>2, <2>2 DEF Control, DueGsrip, Frames, Top
  <2>7. Control'
    BY <1>1, <1>7, <2>1, <2>3, <2>5, <2>6 DEF Control, DueGsrip
  <2>8. Frames'
    <3>1. \A k \in 1 .. Len(stack) - 1 : k \in 1 .. Len(stack) /\ k # Len(stack)
      BY <1>2
    <3>2. ASSUME NEW k \in 1 .. Len(stack) - 1
          PROVE  /\ ghost'.stack[k] \in {NoSlot, stack'[k].ra.slot}
                 /\ stack'[k].ra.ca = (ghost'.stack[k] # NoSlot)
      BY <1>3, <1>7, <2>1, <2>2, <3>1 DEF Frames
    <3> QED BY <1>3, <1>7, <2>1, <2>3, <3>2 DEF Frames
  <2>9. Patches'
    <3>1. NoNeed = [NoNeed EXCEPT !.rip = (instr' = MemInstr)]
      BY <2>3, NoNeedIs
    <3> QED BY <1>1, <1>4, <1>7, <2>1, <2>2, <2>4, <2>5, <3>1, RestPatches DEF Patches
  <2>10. Suspended'
    BY <1>1, <1>7, <2>1, <2>2, <2>3, <2>5, RestSuspended DEF Suspended
  <2> QED BY <2>7, <2>8, <2>9, <2>10 DEF Sound
<1> QED BY <1>9, <1>10, <1>11 DEF IInv

\* An exception pushes the address of the running code, marked with its gsrip.
LEMMA ExceptionStep == ASSUME NEW err \in BOOLEAN PROVE IInv /\ Exception(err) => IInv'
<1> SUFFICES ASSUME IInv, Exception(err) PROVE IInv'
  OBVIOUS
<1> DEFINE sp == ghost.spoiled \/ instr.form \notin {"none", "direct", "mem"}
                               \/ (err /\ ActiveGsrip # NoSlot)
           g  == [ghost EXCEPT !.gsrip = NoSlot, !.stack = Append(@, ghost.gsrip), !.spoiled = sp]
           ra == IF err THEN Plain(rip) ELSE replace_shadow_rip(Plain(rip), ActiveGsrip)
           fr == [err |-> err, ra |-> ra]
<1>1. /\ TypeOK /\ HiddenType /\ smm = NoRip /\ Len(stack) < MaxDepth /\ ghost \in Ghosts
      /\ rip \in Code /\ gsrip \in Code /\ stack \in Seq([ra : CodePtr, err : BOOLEAN])
      /\ stack' = Append(stack, fr)
      /\ gsrip_enabled' = (gsrip_enabled /\ ~WordEscapes(err))
      /\ gsrip' = IF WordEscapes(err) THEN gsrip ELSE NoSlot
      /\ need' = NoNeed /\ saved' = NoSaved /\ rip' = NoSlot
      /\ instr' = NoInstr /\ ghost' = Track(g)
      /\ UNCHANGED <<icv_enabled, cell, reg, hack, smm, data_enc>>
  BY DEF IInv, Exception, TypeOK, HiddenType, exception_after_cb, set_shadow_rip
<1>2. ActiveGsrip \in Code /\ NoSlot \in Code
  BY <1>1 DEF ActiveGsrip, Code
<1>3. ra \in CodePtr
  BY <1>1, <1>2, ReplaceType DEF CodePtr, Plain
<1> HIDE DEF ra
<1>4. fr \in [ra : CodePtr, err : BOOLEAN] /\ fr.ra = ra
  BY <1>3
<1>5. ghost.gsrip \in Code /\ ghost.stack \in Seq(Code)
  BY <1>1 DEF Ghosts
<1>6. Append(ghost.stack, ghost.gsrip) \in Seq(Code)
  BY <1>5, PushType
<1>7. sp \in BOOLEAN
  BY <1>1 DEF Ghosts
<1> HIDE DEF sp, fr
<1>8. g \in Ghosts
  BY <1>1, <1>2, <1>6, <1>7 DEF Ghosts
<1>9. /\ g.gsrip = NoSlot /\ g.stack = Append(ghost.stack, ghost.gsrip) /\ g.cell = ghost.cell
      /\ g.reg = ghost.reg /\ g.icv = ghost.icv /\ g.stale = ghost.stale /\ g.spoiled = sp
  BY <1>1 DEF Ghosts
<1> HIDE DEF g
<1>10. ghost' \in Ghosts /\ ghost'.spoiled = sp /\ (~sp => ghost' = g)
  BY <1>1, <1>8, <1>9, TrackType
<1>11. /\ stack' \in Seq([ra : CodePtr, err : BOOLEAN]) /\ Len(stack') = Len(stack) + 1
       /\ stack'[Len(stack) + 1] = fr /\ \A k \in 1 .. Len(stack) : stack'[k] = stack[k]
       /\ Len(stack) \in Nat
  BY <1>1, <1>4, PushType, LenProperties
<1>12. NoNeed \in [ra : BOOLEAN, cp : BOOLEAN, reg : BOOLEAN, rip : BOOLEAN] /\ ~NoNeed.reg
  BY NoNeedIs
<1>13. instr' \notin Branches /\ instr' # RetInstr /\ instr' # MemInstr
  BY <1>1, FormType
<1>14. ASSUME ~sp
       PROVE  /\ Len(ghost'.stack) = Len(stack) + 1 /\ ghost'.stack[Len(stack) + 1] = ghost.gsrip
              /\ \A k \in 1 .. Len(stack) : ghost'.stack[k] = ghost.stack[k]
  <2>1. Len(ghost.stack) = Len(stack)
    BY <1>1, <1>14 DEF TypeOK, sp
  <2> QED BY <1>5, <1>9, <1>10, <1>14, <2>1, PushType
<1>15. TypeOK'
  <2>1. Len(stack') <= MaxDepth
    BY <1>1, <1>11, ShadowRipAssumption
  <2> QED BY <1>1, <1>2, <1>10, <1>11, <1>12, <1>13, <1>14, <2>1 DEF TypeOK
<1>16. HiddenType'
  BY <1>1, <1>10, <1>12, <1>13, SavedType DEF HiddenType
<1>17. ASSUME ~sp PROVE Sound'
  <2>1. /\ ~ghost.spoiled /\ instr.form \in {"none", "direct", "mem"}
        /\ err => ActiveGsrip = NoSlot
    BY <1>17 DEF sp
  <2>2. Control /\ Frames /\ Patches /\ Suspended
    BY <2>1 DEF IInv, Sound
  <2>3. cell = ghost.cell /\ reg = ghost.reg
    BY <2>1, <2>2, NothingPatched
  <2>4. instr # RetInstr /\ (instr \in Branches => instr.form = "direct")
    BY <1>1, <2>1, FormType DEF TypeOK
  <2>5. gsrip = ghost.gsrip /\ gsrip_enabled /\ ghost.gsrip \in {NoSlot, rip}
    BY <1>1, <2>2, <2>4 DEF Control, DueGsrip
  <2>6. ActiveGsrip = ghost.gsrip
    BY <2>5 DEF ActiveGsrip
  <2>7. fr.ra = Marked(rip, ghost.gsrip) /\ ~Escapes(Plain(rip), ActiveGsrip)
    <3>1. replace_shadow_rip(Plain(rip), ActiveGsrip) = Marked(rip, ghost.gsrip)
          /\ ~Escapes(Plain(rip), ActiveGsrip)
      BY <1>1, <1>2, <2>5, <2>6, ReplaceType
    <3>2. CASE err
      <4>1. ghost.gsrip = NoSlot
        BY <2>1, <2>6, <3>2
      <4>2. Marked(rip, ghost.gsrip) = Plain(rip)
        BY <4>1 DEF Marked, Plain
      <4> QED BY <1>4, <3>1, <3>2, <4>2 DEF ra
    <3>3. CASE ~err
      BY <1>4, <3>1, <3>3 DEF ra
    <3> QED BY <3>2, <3>3
  <2>8. gsrip_enabled' /\ gsrip' = NoSlot
    <3>1. ~WordEscapes(err)
      BY <2>1, <2>7 DEF WordEscapes
    <3> QED BY <1>1, <2>5, <3>1
  <2>9. ghost' = g
    BY <1>10, <1>17
  <2>10. Control'
    BY <1>1, <1>9, <1>13, <2>8, <2>9 DEF Control, DueGsrip
  <2>11. Frames'
    <3>1. ASSUME NEW k \in 1 .. Len(stack)
          PROVE  /\ ghost'.stack[k] \in {NoSlot, stack'[k].ra.slot}
                 /\ stack'[k].ra.ca = (ghost'.stack[k] # NoSlot)
      BY <1>11, <1>14, <1>17, <2>2, <2>4 DEF Frames
    <3>2. LET k == Len(stack) + 1
          IN  /\ ghost'.stack[k] \in {NoSlot, stack'[k].ra.slot}
              /\ stack'[k].ra.ca = (ghost'.stack[k] # NoSlot)
      BY <1>11, <1>14, <1>17, <2>5, <2>7 DEF Marked
    <3>3. \A k \in 1 .. Len(stack) + 1 : k \in 1 .. Len(stack) \/ k = Len(stack) + 1
      BY <1>11
    <3>4. ASSUME NEW k \in 1 .. Len(stack')
          PROVE  /\ ghost'.stack[k] \in {NoSlot, stack'[k].ra.slot}
                 /\ stack'[k].ra.ca = (ghost'.stack[k] # NoSlot)
      BY <1>11, <3>1, <3>2, <3>3
    <3> QED BY <1>11, <1>13, <1>14, <1>17, <3>4 DEF Frames
  <2>12. Patches'
    <3>1. NoNeed = [NoNeed EXCEPT !.rip = (instr' = MemInstr)]
      BY <1>13, NoNeedIs
    <3> QED BY <1>1, <1>9, <2>2, <2>3, <2>9, <3>1, RestPatches DEF Patches
  <2>13. Suspended'
    <3>1. instr.form # "code"
      BY <2>1
    <3> QED BY <1>1, <1>9, <2>2, <2>9, <3>1, RestSuspended DEF Suspended
  <2> QED BY <2>10, <2>11, <2>12, <2>13 DEF Sound
<1> QED BY <1>10, <1>15, <1>16, <1>17 DEF IInv

-----------------------------------------------------------------------------
\* What a branch through memory leaves in the cell it loads its target from.
LEMMA PatchedType ==
  ASSUME NEW a \in Cells, NEW c \in CellVals
  PROVE  /\ Patched(a, c) \in CellVals
         /\ a # "heap" => Patched(a, c) = [enc |-> FALSE, cp |-> decode_ptr(c.cp)]
         /\ a = "heap" /\ data_enc => Patched(a, c) = [enc |-> TRUE, cp |-> decode_ptr(c.cp)]
         /\ a = "heap" /\ ~data_enc => Patched(a, c) = [enc |-> FALSE, cp |-> Garbage]
<1>1. decode_ptr(c.cp) \in CodePtr \cup {Garbage}
  BY PtrType DEF CellVals
<1> QED BY <1>1 DEF Patched, CellVals

LEMMA BranchType == \A i \in Branches : IInv /\ StartBranch(i) => TypeOK' /\ HiddenType'
<1> SUFFICES ASSUME NEW i \in Branches, IInv, StartBranch(i) PROVE TypeOK' /\ HiddenType'
  OBVIOUS
<1> DEFINE Needs  == [ra : BOOLEAN, cp : BOOLEAN, reg : BOOLEAN, rip : BOOLEAN]
           Saveds == [gsrip : Code, reg : CodePtr \cup {Garbage}, cp : [addr : Cells, val : CellVals]]
           ra     == i.call /\ gsrip # NoSlot
<1>1. /\ TypeOK /\ HiddenType /\ smm = NoRip /\ emul_call_or_jmp(i) /\ instr' = i
      /\ i.call => Len(stack) < MaxDepth
      /\ gsrip \in Code /\ saved \in Saveds /\ cell \in [Cells -> CellVals] /\ reg \in CodePtr
      /\ icv_enabled \in BOOLEAN /\ hack \in BOOLEAN
      /\ UNCHANGED <<rip, gsrip_enabled, stack, smm, data_enc, ghost>>
  BY DEF IInv, StartBranch, Idle, TypeOK, HiddenType, CellVals
<1>2. i.call \in BOOLEAN /\ ra \in BOOLEAN /\ i # RetInstr
      /\ i.form \in {"direct", "reg"} \cup Cells /\ "direct" \notin Cells /\ "reg" \notin Cells
  BY FormType DEF Cells
<1> HIDE DEF ra
<1>3. ASSUME gsrip' \in Code, cell' \in [Cells -> CellVals], reg' \in CodePtr, icv_enabled' \in BOOLEAN,
             hack' \in BOOLEAN, need' \in Needs, saved' \in Saveds, need'.reg => saved'.reg \in CodePtr
      PROVE  TypeOK' /\ HiddenType'
  BY <1>1, <1>2, <1>3 DEF TypeOK, HiddenType, CellVals
<1>4. CASE ~gsrip_enabled
  <2>1. need' = NoNeed /\ UNCHANGED <<gsrip, cell, reg, icv_enabled, hack, saved>>
    BY <1>1, <1>4 DEF emul_call_or_jmp
  <2>2. NoNeed \in Needs /\ ~NoNeed.reg
    BY NoNeedIs
  <2> QED BY <1>1, <1>3, <2>1, <2>2
<1>5. CASE gsrip_enabled /\ i.form = "direct"
  <2>1. direct_branch(ra)
    BY <1>1, <1>2, <1>5 DEF emul_call_or_jmp, ra
  <2>2. /\ need' = [NoNeed EXCEPT !.ra = ra]
        /\ saved' = [saved EXCEPT !.gsrip = IF ra THEN gsrip ELSE @]
        /\ UNCHANGED <<gsrip, cell, reg, icv_enabled, hack>>
    BY <2>1 DEF direct_branch
  <2>3. need' \in Needs /\ need'.reg = FALSE
    BY <1>2, <2>2 DEF NoNeed
  <2>4. saved' \in Saveds
    BY <1>1, <1>2, <2>2
  <2> QED BY <1>1, <1>3, <2>2, <2>3, <2>4
<1>6. CASE gsrip_enabled /\ i.form = "reg"
  <2>1. update_reg_branch_target(ra)
    BY <1>1, <1>2, <1>6 DEF emul_call_or_jmp, ra
  <2>2. /\ gsrip' = normalize_gsrip(reg) /\ reg' = decode_ptr(reg)
        /\ need' = [NoNeed EXCEPT !.ra = ra, !.reg = reg.ca]
        /\ saved' = [saved EXCEPT !.gsrip = IF ra THEN gsrip ELSE @,
                                  !.reg = IF reg.ca THEN reg ELSE @]
        /\ UNCHANGED <<cell, icv_enabled, hack>>
    BY <2>1 DEF update_reg_branch_target, set_shadow_rip
  <2>3. reg.ca \in BOOLEAN /\ gsrip' \in Code /\ reg' \in CodePtr
    BY <1>1, <2>2, PtrType
  <2>4. need' \in Needs /\ need'.reg = reg.ca
    BY <1>2, <2>2, <2>3 DEF NoNeed
  <2>5. saved' \in Saveds /\ (reg.ca => saved'.reg = reg)
    BY <1>1, <1>2, <2>2, <2>3
  <2> QED BY <1>1, <1>3, <2>2, <2>3, <2>4, <2>5
<1>7. CASE gsrip_enabled /\ i.form \in Cells
  <2> DEFINE a == i.form
             c == cell[a]
             changed == c.enc \/ c.cp.ca
  <2>1. update_mem_branch_target(a, ra)
    BY <1>1, <1>2, <1>7 DEF emul_call_or_jmp, ra
  <2>2. /\ gsrip' = normalize_gsrip(c.cp)
        /\ cell' = IF changed THEN [cell EXCEPT ![a] = Patched(a, c)] ELSE cell
        /\ IcvHack(a, changed)
        /\ need' = [NoNeed EXCEPT !.ra = ra, !.cp = changed]
        /\ saved' = [saved EXCEPT !.gsrip = IF ra THEN gsrip ELSE @,
                                  !.cp = IF changed THEN [addr |-> a, val |-> c] ELSE @]
        /\ UNCHANGED reg
    BY <2>1 DEF update_mem_branch_target, set_shadow_rip
  <2>3. c \in CellVals /\ c.cp \in CodePtr \cup {Garbage}
    BY <1>1, <1>7 DEF CellVals
  <2>4. changed \in BOOLEAN /\ gsrip' \in Code /\ Patched(a, c) \in CellVals
    BY <1>7, <2>2, <2>3, PtrType, PatchedType DEF CellVals
  <2> HIDE DEF changed, c
  <2>5. need' \in Needs /\ need'.reg = FALSE
    BY <1>2, <2>2, <2>4 DEF NoNeed
  <2>6. saved' \in Saveds
    BY <1>1, <1>2, <1>7, <2>2, <2>3, <2>4
  <2>7. cell' \in [Cells -> CellVals]
    BY <1>1, <2>2, <2>4
  <2>8. icv_enabled' \in BOOLEAN /\ hack' \in BOOLEAN
    BY <1>1, <2>2 DEF IcvHack
  <2> QED BY <1>1, <1>3, <2>2, <2>4, <2>5, <2>6, <2>7, <2>8
<1> QED BY <1>1, <1>2, <1>4, <1>5, <1>6, <1>7

\* The callback before a branch decodes its target and remembers what that takes to undo.
LEMMA BranchStep == ASSUME NEW i \in Branches PROVE IInv /\ StartBranch(i) => IInv'
<1> SUFFICES ASSUME IInv, StartBranch(i) PROVE IInv'
  OBVIOUS
<1>1. TypeOK' /\ HiddenType'
  BY BranchType
<1>2. SUFFICES ASSUME ~ghost'.spoiled PROVE Sound'
  BY <1>1 DEF IInv
<1> DEFINE ra == i.call /\ gsrip # NoSlot
<1>3. /\ TypeOK /\ HiddenType /\ instr = NoInstr /\ smm = NoRip /\ instr' = i
      /\ ghost \in Ghosts /\ saved \in [gsrip : Code, reg : CodePtr \cup {Garbage},
                                        cp : [addr : Cells, val : CellVals]]
      /\ UNCHANGED <<rip, gsrip_enabled, stack, smm, data_enc, ghost>>
  BY DEF IInv, StartBranch, Idle, HiddenType
<1>4. Control /\ Frames /\ Patches /\ Suspended
  BY <1>2, <1>3 DEF IInv, Sound
<1>5. /\ gsrip = ghost.gsrip /\ gsrip_enabled = TRUE /\ cell = ghost.cell /\ reg = ghost.reg
      /\ ~ghost.stale => icv_enabled = ghost.icv
  BY <1>2, <1>3, IdleFacts DEF Idle
<1>6. /\ i.call \in BOOLEAN /\ i # RetInstr /\ i # MemInstr /\ instr # RetInstr
      /\ i.form \in {"direct", "reg"} \cup Cells /\ "direct" \notin Cells /\ "reg" \notin Cells
  BY <1>3, FormType DEF Cells
<1>7. ra \in BOOLEAN /\ ra = (i.call /\ ghost.gsrip # NoSlot)
  BY <1>5, <1>6
<1>8. Frames'
  BY <1>3, <1>4, <1>6 DEF Frames
<1>9. Meant(i)' = Meant(i)
  BY <1>3, <1>6 DEF Meant
<1>10. ASSUME gsrip' = IF i.form = "direct" THEN gsrip ELSE normalize_gsrip(Meant(i)) PROVE Control'
  BY <1>3, <1>4, <1>5, <1>6, <1>9, <1>10 DEF Control, DueGsrip
<1>11. emul_call_or_jmp(i)
  BY DEF StartBranch
<1>12. /\ i.form = "direct" => direct_branch(ra)
       /\ i.form = "reg" => update_reg_branch_target(ra)
       /\ i.form \in Cells => update_mem_branch_target(i.form, ra)
  BY <1>5, <1>6, <1>11 DEF emul_call_or_jmp
<1>13. /\ ghost.reg \in CodePtr
       /\ \A a \in Cells : /\ ghost.cell[a].enc = (a # "plain" /\ data_enc)
                           /\ ghost.cell[a].cp \in CodePtr
  BY <1>4 DEF Patches
<1> HIDE DEF ra
<1>14. CASE i.form = "direct"
  <2>1. /\ need' = [NoNeed EXCEPT !.ra = ra]
        /\ saved' = [saved EXCEPT !.gsrip = IF ra THEN gsrip ELSE @]
        /\ UNCHANGED <<gsrip, cell, reg, icv_enabled, hack>>
    BY <1>12, <1>14 DEF direct_branch
  <2>2. Control'
    BY <1>10, <1>14, <2>1
  <2>3. need' = [ra |-> ra, cp |-> FALSE, reg |-> FALSE, rip |-> FALSE]
    BY <2>1 DEF NoNeed
  <2>4. need'.ra = ra /\ need'.cp = FALSE /\ need'.reg = FALSE
    BY <2>3
  <2>5. ra => saved'.gsrip = ghost.gsrip
    BY <1>3, <1>5, <1>7, <2>1
  <2>6. Patches'
    <3>1. /\ (i.form \in Cells /\ Changed(ghost.cell[i.form])) = FALSE
          /\ (i.form = "reg" /\ ghost.reg.ca) = FALSE /\ (i = MemInstr) = FALSE
      BY <1>6, <1>14
    <3> QED BY <1>3, <1>5, <1>7, <1>13, <1>14, <2>1, <2>3, <2>4, <2>5, <3>1 DEF Patches, Changed
  <2>7. Suspended'
    BY <1>3, <1>4, <1>5, <1>14, <2>1, <2>4 DEF Suspended
  <2> QED BY <1>8, <2>2, <2>6, <2>7 DEF Sound
<1>15. CASE i.form = "reg"
  <2>1. /\ gsrip' = normalize_gsrip(reg) /\ reg' = decode_ptr(reg)
        /\ need' = [NoNeed EXCEPT !.ra = ra, !.reg = reg.ca]
        /\ saved' = [saved EXCEPT !.gsrip = IF ra THEN gsrip ELSE @,
                                  !.reg = IF reg.ca THEN reg ELSE @]
        /\ UNCHANGED <<cell, icv_enabled, hack>>
    BY <1>12, <1>15 DEF update_reg_branch_target, set_shadow_rip
  <2>2. Meant(i) = ghost.reg
    BY <1>6, <1>15 DEF Meant
  <2>3. Control'
    BY <1>5, <1>10, <1>15, <2>1, <2>2
  <2>4. reg.ca \in BOOLEAN
    BY <1>5, <1>13, PtrType
  <2>5. need' = [ra |-> ra, cp |-> FALSE, reg |-> reg.ca, rip |-> FALSE]
    BY <2>1 DEF NoNeed
  <2>6. need'.ra = ra /\ need'.cp = FALSE /\ need'.reg = reg.ca
    BY <2>5
  <2>7. (ra => saved'.gsrip = ghost.gsrip) /\ (reg.ca => saved'.reg = ghost.reg)
    BY <1>3, <1>5, <1>7, <2>1, <2>4
  <2>8. Patches'
    <3>1. /\ (i.form \in Cells /\ Changed(ghost.cell[i.form])) = FALSE
          /\ (i.form = "reg" /\ ghost.reg.ca) = reg.ca /\ (i = MemInstr) = FALSE
      BY <1>5, <1>6, <1>15, <2>4
    <3> QED BY <1>3, <1>5, <1>7, <1>13, <1>15, <2>1, <2>5, <2>6, <2>7, <3>1 DEF Patches, Changed, decode_ptr, Plain
  <2>9. Suspended'
    BY <1>3, <1>4, <1>5, <1>15, <2>1, <2>6 DEF Suspended
  <2> QED BY <1>8, <2>3, <2>8, <2>9 DEF Sound
<1>16. CASE i.form \in Cells
  <2> DEFINE a == i.form
             c == cell[a]
             changed == c.enc \/ c.cp.ca
  <2>1. /\ gsrip' = normalize_gsrip(c.cp)
        /\ cell' = IF changed THEN [cell EXCEPT ![a] = Patched(a, c)] ELSE cell
        /\ IcvHack(a, changed)
        /\ need' = [NoNeed EXCEPT !.ra = ra, !.cp = changed]
        /\ saved' = [saved EXCEPT !.gsrip = IF ra THEN gsrip ELSE @,
                                  !.cp = IF changed THEN [addr |-> a, val |-> c] ELSE @]
        /\ UNCHANGED reg
    BY <1>12, <1>16 DEF update_mem_branch_target, set_shadow_rip
  <2>2. a # "direct" /\ a # "reg" /\ c = ghost.cell[a] /\ Meant(i) = c.cp
    BY <1>5, <1>6, <1>16 DEF Meant
  <2>3. Control'
    BY <1>10, <2>1, <2>2
  <2>4. c.enc \in BOOLEAN /\ c.cp.ca \in BOOLEAN /\ changed = Changed(ghost.cell[a])
    BY <1>13, <1>16, <2>2, PtrType DEF Changed
  <2>5. changed \in BOOLEAN
    BY <2>4
  <2> HIDE DEF changed, c
  <2>6. need' = [ra |-> ra, cp |-> changed, reg |-> FALSE, rip |-> FALSE]
    BY <2>1 DEF NoNeed
  <2>7. need'.ra = ra /\ need'.cp = changed /\ need'.reg = FALSE
    BY <2>6
  <2>8. (ra => saved'.gsrip = ghost.gsrip) /\ (changed => saved'.cp = [addr |-> a, val |-> c])
    BY <1>3, <1>5, <1>7, <2>1, <2>5
  <2>9. Patches'
    <3>1. /\ (i.form \in Cells /\ Changed(ghost.cell[i.form])) = changed
          /\ (i.form = "reg" /\ ghost.reg.ca) = FALSE /\ (i = MemInstr) = FALSE
      BY <1>6, <1>16, <2>2, <2>4, <2>5
    <3>2. cell' = IF changed THEN [ghost.cell EXCEPT ![a] = Patched(a, ghost.cell[a])] ELSE ghost.cell
      BY <1>5, <2>1, <2>2
    <3>3. Patched(a, ghost.cell[a])' = Patched(a, ghost.cell[a])
      BY <1>3 DEF Patched
    <3> QED BY <1>3, <1>5, <1>7, <1>13, <2>1, <2>2, <2>6, <2>7, <2>8, <3>1, <3>2, <3>3
         DEF Patches, Changed
  <2>10. Suspended'
    <3>1. CASE a = "code" /\ changed
      BY <1>3, <1>4, <1>5, <2>1, <2>7, <3>1 DEF Suspended, IcvHack, TypeOK
    <3>2. CASE ~(a = "code" /\ changed)
      <4>1. UNCHANGED <<icv_enabled, hack>>
        BY <2>1, <3>2 DEF IcvHack
      <4> QED BY <1>3, <1>4, <1>5, <2>7, <3>2, <4>1 DEF Suspended
    <3> QED BY <3>1, <3>2
  <2> QED BY <1>8, <2>3, <2>9, <2>10 DEF Sound
<1> QED BY <1>6, <1>14, <1>15, <1>16

\* Where the CPU finds a branch to lead is where the program's own pointer leads, or nowhere; and
\* with data encryption it is always the former.
LEMMA TargetIs ==
  ASSUME IInv, ~ghost.spoiled, instr \in Branches
  PROVE  /\ Meant(instr) \in CodePtr
         /\ Target(instr).slot \in {Meant(instr).slot, "garbage"}
         /\ data_enc => /\ Target(instr).slot = Meant(instr).slot /\ ~Target(instr).ca
                        /\ instr.form = "code" => ~icv_enabled
<1>1. TypeOK /\ Patches /\ Suspended /\ HiddenType
  BY DEF IInv, Sound
<1>2. instr.form \in {"direct", "reg"} \cup Cells /\ "direct" \notin Cells /\ "reg" \notin Cells
      /\ "ret" \notin Cells /\ "code" \in Cells
  BY FormType DEF Cells
<1>3. /\ ghost.reg \in CodePtr
      /\ \A a \in Cells : /\ ghost.cell[a].enc = (a # "plain" /\ data_enc)
                          /\ ghost.cell[a].cp \in CodePtr
  BY <1>1 DEF Patches
<1>4. CASE instr.form = "direct"
  <2>1. Target(instr) = Plain(rip) /\ Meant(instr) = Plain(rip) /\ rip \in Code
    BY <1>1, <1>2, <1>4 DEF Target, Meant, TypeOK
  <2>2. Plain(rip) \in CodePtr /\ ~Plain(rip).ca
    BY <2>1 DEF Plain, CodePtr
  <2> QED BY <1>2, <1>4, <2>1, <2>2
<1>5. CASE instr.form = "reg"
  <2>1. Target(instr) = reg /\ Meant(instr) = ghost.reg /\ reg = decode_ptr(ghost.reg)
    BY <1>1, <1>2, <1>5 DEF Target, Meant, Patches
  <2>2. decode_ptr(ghost.reg).slot = ghost.reg.slot /\ ~decode_ptr(ghost.reg).ca
    BY DEF decode_ptr, Plain
  <2> QED BY <1>2, <1>3, <1>5, <2>1, <2>2
<1>6. CASE instr.form \in Cells
  <2> DEFINE a == instr.form
             c == ghost.cell[a]
             d == cell[a]
  <2>1. /\ Target(instr) = IF d.enc = (a = "heap" /\ data_enc) THEN d.cp ELSE Garbage
        /\ Meant(instr) = c.cp
    BY <1>2, <1>6 DEF Target, Meant
  <2>2. c.enc = (a # "plain" /\ data_enc) /\ c.cp \in CodePtr /\ c.cp.ca \in BOOLEAN
    BY <1>3, <1>6, PtrType
  <2>3. c \in CellVals
    BY <1>1, <1>6 DEF HiddenType, Ghosts
  <2>4. need.cp = (c.enc \/ c.cp.ca)
    BY <1>1, <1>6, <2>2 DEF Patches, Changed
  <2>5. d = IF need.cp THEN Patched(a, c) ELSE c
    BY <1>1, <1>6 DEF Patches, HiddenType, Ghosts
  <2>6. /\ decode_ptr(c.cp).slot = c.cp.slot /\ decode_ptr(c.cp).ca = FALSE
        /\ Garbage.slot = "garbage"
    BY DEF decode_ptr, Plain, Garbage
  <2>7. a = "code" /\ data_enc => ~icv_enabled
    BY <1>1, <2>2, <2>4 DEF Suspended
  <2> HIDE DEF c, d
  <2>8. CASE need.cp
    <3>1. /\ a # "heap" => d.enc = FALSE /\ d.cp = decode_ptr(c.cp)
          /\ a = "heap" /\ data_enc => d.enc = TRUE /\ d.cp = decode_ptr(c.cp)
          /\ a = "heap" /\ ~data_enc => d.enc = FALSE /\ d.cp = Garbage
      BY <1>6, <2>3, <2>5, <2>8, PatchedType
    <3>2. Target(instr).slot \in {c.cp.slot, "garbage"}
      BY <2>1, <2>6, <3>1
    <3>3. data_enc => Target(instr) = decode_ptr(c.cp)
      BY <1>1, <2>1, <3>1 DEF TypeOK
    <3> QED BY <2>1, <2>2, <2>6, <2>7, <3>2, <3>3
  <2>9. CASE ~need.cp
    <3>1. d = c /\ c.enc = FALSE /\ c.cp.ca = FALSE
      BY <2>2, <2>4, <2>5, <2>9
    <3>2. Target(instr).slot \in {c.cp.slot, "garbage"}
      BY <2>1, <2>6, <3>1
    <3>3. data_enc => a = "plain"
      BY <1>1, <2>2, <3>1 DEF TypeOK
    <3>4. data_enc => Target(instr) = c.cp
      BY <2>1, <3>1, <3>3
    <3> QED BY <2>1, <2>2, <2>7, <3>1, <3>2, <3>4
  <2> QED BY <2>8, <2>9
<1> QED BY <1>2, <1>4, <1>5, <1>6

\* The callback after a branch undoes what the one before it did, and integrity is as it was.
LEMMA AfterRestores ==
  ASSUME IInv, ~ghost.spoiled, instr \in Branches, instruction_after_cb(instr)
  PROVE  /\ cell' = ghost.cell /\ reg' = ghost.reg /\ gsrip_enabled'
         /\ ~ghost.stale => (hack => ghost.icv) /\ icv_enabled' = ghost.icv
         /\ MarkedRa = Marked(rip, ghost.gsrip) \/ ~instr.call
<1>1. TypeOK /\ HiddenType /\ Control /\ Patches /\ Suspended
  BY DEF IInv, Sound
<1>2. rip \in Code /\ ghost.gsrip \in Code /\ ghost.gsrip \in {NoSlot, rip}
  BY <1>1 DEF TypeOK, HiddenType, Ghosts, Control
<1>3. need.ra = (instr.call /\ ghost.gsrip # NoSlot) /\ (need.ra => saved.gsrip = ghost.gsrip)
  BY <1>1 DEF Patches
<1>4. /\ TypeOK /\ HiddenType /\ Control /\ Patches /\ Suspended
      /\ gsrip_enabled' = gsrip_enabled
      /\ cell' = IF need.cp THEN [cell EXCEPT ![saved.cp.addr] = saved.cp.val] ELSE cell
      /\ icv_enabled' = (icv_enabled \/ (need.cp /\ hack))
      /\ reg' = IF need.reg THEN saved.reg ELSE reg
  <2>1. ~RaEscapes
    BY <1>2, <1>3, ReplaceType DEF RaEscapes
  <2>2. gsrip_enabled \in BOOLEAN
    BY <1>1 DEF TypeOK
  <2> QED BY <1>1, <2>1, <2>2 DEF instruction_after_cb
<1>5. gsrip_enabled'
  BY <1>4 DEF Control
<1>6. MarkedRa = Marked(rip, ghost.gsrip) \/ ~instr.call
  <2>1. CASE need.ra
    BY <1>2, <1>3, <2>1, ReplaceType DEF MarkedRa
  <2>2. CASE ~need.ra /\ instr.call
    <3>1. MarkedRa = Plain(rip) /\ ghost.gsrip = NoSlot
      BY <1>3, <2>2 DEF MarkedRa
    <3> QED BY <3>1 DEF Marked, Plain
  <2> QED BY <2>1, <2>2
<1>7. cell' = ghost.cell
  <2>1. CASE need.cp
    <3>1. instr.form \in Cells /\ saved.cp = [addr |-> instr.form, val |-> ghost.cell[instr.form]]
      BY <1>4, <2>1 DEF Patches
    <3>2. /\ saved.cp.addr = instr.form /\ saved.cp.val = ghost.cell[instr.form]
      BY <3>1
    <3>3. ghost.cell \in [Cells -> CellVals]
      BY <1>4 DEF HiddenType, Ghosts
    <3>4. cell = [ghost.cell EXCEPT ![instr.form] = Patched(instr.form, ghost.cell[instr.form])]
      BY <1>4, <2>1 DEF Patches
    <3>5. cell' = [cell EXCEPT ![instr.form] = ghost.cell[instr.form]]
      BY <1>4, <2>1, <3>2
    <3> QED BY <3>1, <3>3, <3>4, <3>5
  <2>2. CASE ~need.cp
    BY <1>4, <2>2 DEF Patches
  <2> QED BY <2>1, <2>2
<1>8. reg' = ghost.reg
  <2>1. CASE need.reg
    BY <1>4, <2>1 DEF Patches
  <2>2. CASE ~need.reg /\ instr.form = "reg"
    <3>1. ghost.reg \in CodePtr /\ reg' = decode_ptr(ghost.reg)
      BY <1>4, <2>2 DEF Patches
    <3>2. ghost.reg.ca = FALSE
      BY <1>4, <2>2, <3>1, PtrType DEF Patches
    <3>3. ghost.reg \in [slot : Code, ca : {FALSE}]
      BY <3>1, <3>2 DEF CodePtr
    <3> QED BY <3>1, <3>3 DEF decode_ptr, Plain
  <2>3. CASE ~need.reg /\ instr.form # "reg"
    BY <1>4, <2>3 DEF Patches
  <2> QED BY <2>1, <2>2, <2>3
<1>9. ASSUME ~ghost.stale PROVE (hack => ghost.icv) /\ icv_enabled' = ghost.icv
  <2>1. /\ icv_enabled \in BOOLEAN /\ hack \in BOOLEAN /\ ghost.icv \in BOOLEAN /\ need.cp \in BOOLEAN
    BY <1>4 DEF TypeOK, HiddenType, Ghosts
  <2>2. CASE instr.form = "code" /\ need.cp
    <3>1. ~icv_enabled /\ hack = ghost.icv
      BY <1>4, <1>9, <2>2 DEF Suspended
    <3> QED BY <1>4, <2>1, <2>2, <3>1
  <2>3. CASE ~(instr.form = "code" /\ need.cp)
    <3>1. (hack => ghost.icv) /\ icv_enabled = ghost.icv
      BY <1>4, <1>9, <2>3 DEF Suspended
    <3> QED BY <1>4, <2>1, <3>1
  <2> QED BY <2>2, <2>3
<1> QED BY <1>5, <1>6, <1>7, <1>8, <1>9

LEMMA CompleteBranchStep == IInv /\ CompleteBranch => IInv'
<1> SUFFICES ASSUME IInv, CompleteBranch PROVE IInv'
  OBVIOUS
<1> DEFINE gs == IF instr.form = "direct" THEN ghost.gsrip ELSE normalize_gsrip(Meant(instr))
           st == IF instr.call THEN Append(ghost.stack, ghost.gsrip) ELSE ghost.stack
           g  == [ghost EXCEPT !.gsrip = gs, !.stack = st]
           fr == [ra |-> MarkedRa, err |-> FALSE]
<1>1. /\ TypeOK /\ HiddenType /\ instr \in Branches /\ smm = NoRip /\ Fetchable(instr)
      /\ ghost \in Ghosts /\ stack \in Seq([ra : CodePtr, err : BOOLEAN])
      /\ rip \in Code /\ saved.gsrip \in Code
      /\ instr.call => Len(stack) < MaxDepth
      /\ rip' = Target(instr).slot
      /\ stack' = IF instr.call THEN Append(stack, fr) ELSE stack
      /\ instruction_after_cb(instr) /\ instr' = NoInstr
      /\ ghost' = Track(g)
      /\ UNCHANGED <<gsrip, hack, smm, data_enc>>
  <2>1. TypeOK /\ HiddenType /\ instr \in Branches
    BY DEF IInv, CompleteBranch
  <2>2. smm = NoRip
    BY <2>1, FormType DEF HiddenType
  <2>3. /\ Fetchable(instr) /\ rip' = Target(instr).slot
        /\ stack' = IF instr.call THEN Append(stack, fr) ELSE stack
        /\ instruction_after_cb(instr) /\ instr' = NoInstr
        /\ ghost' = Track(g)
        /\ UNCHANGED <<gsrip, hack, smm, data_enc>>
    BY DEF CompleteBranch
  <2> QED BY <2>1, <2>2, <2>3 DEF TypeOK, HiddenType
<1>2. /\ instr.call \in BOOLEAN /\ NoSlot \in Code /\ Plain(rip) \in CodePtr
      /\ instr.form \in {"direct", "reg"} \cup Cells /\ "direct" \notin Cells /\ "reg" \notin Cells
      /\ instr # RetInstr /\ instr # MemInstr
      /\ instr' \notin Branches /\ instr' # RetInstr /\ instr' # MemInstr
  BY <1>1, FormType DEF Cells, Code, Plain, CodePtr
<1>3. ghost.gsrip \in Code /\ ghost.stack \in Seq(Code) /\ Meant(instr) \in CodePtr \cup {Garbage}
  <2>1. /\ ghost.gsrip \in Code /\ ghost.stack \in Seq(Code) /\ ghost.reg \in CodePtr \cup {Garbage}
        /\ ghost.cell \in [Cells -> CellVals]
    BY <1>1 DEF Ghosts
  <2>2. CASE instr.form = "direct"
    BY <1>2, <2>1, <2>2 DEF Meant
  <2>3. CASE instr.form = "reg"
    BY <1>2, <2>1, <2>3 DEF Meant
  <2>4. CASE instr.form \in Cells
    <3>1. Meant(instr) = ghost.cell[instr.form].cp
      BY <1>2, <2>4 DEF Meant
    <3> QED BY <2>1, <2>4, <3>1 DEF CellVals
  <2> QED BY <1>2, <2>2, <2>3, <2>4
<1>4. gs \in Code /\ st \in Seq(Code)
  BY <1>2, <1>3, PtrType, PushType
<1>5. MarkedRa \in CodePtr
  BY <1>1, <1>2, ReplaceType DEF MarkedRa
<1>6. fr \in [ra : CodePtr, err : BOOLEAN] /\ fr.ra = MarkedRa
  BY <1>5
<1> HIDE DEF gs, st, fr
<1>7. g \in Ghosts
  BY <1>1, <1>4 DEF Ghosts
<1>8. /\ g.gsrip = gs /\ g.stack = st /\ g.cell = ghost.cell /\ g.reg = ghost.reg
      /\ g.icv = ghost.icv /\ g.stale = ghost.stale /\ g.spoiled = ghost.spoiled
  BY <1>1 DEF Ghosts
<1> HIDE DEF g
<1>9. ghost' \in Ghosts /\ ghost'.spoiled = ghost.spoiled /\ (~ghost.spoiled => ghost' = g)
  BY <1>1, <1>7, <1>8, TrackType
<1>10. /\ gsrip_enabled' \in BOOLEAN /\ icv_enabled' \in BOOLEAN
       /\ cell' \in [Cells -> CellVals] /\ reg' \in CodePtr
       /\ need' = NoNeed /\ saved' = NoSaved
  BY <1>1, AfterType
<1>11. NoNeed \in [ra : BOOLEAN, cp : BOOLEAN, reg : BOOLEAN, rip : BOOLEAN] /\ ~NoNeed.reg
  BY NoNeedIs
<1>12. Len(stack) \in Nat /\ stack' \in Seq([ra : CodePtr, err : BOOLEAN])
  BY <1>1, <1>6, PushType, LenProperties
<1>13. instr.call => /\ Len(stack') = Len(stack) + 1 /\ stack'[Len(stack) + 1] = fr
                     /\ \A k \in 1 .. Len(stack) : stack'[k] = stack[k]
  BY <1>1, <1>6, PushType
<1>14. ASSUME ~ghost.spoiled
       PROVE  /\ Len(ghost.stack) = Len(stack)
              /\ instr.call => /\ Len(st) = Len(stack) + 1 /\ st[Len(stack) + 1] = ghost.gsrip
                               /\ \A k \in 1 .. Len(stack) : st[k] = ghost.stack[k]
              /\ ~instr.call => st = ghost.stack
  <2>1. Len(ghost.stack) = Len(stack)
    BY <1>1, <1>14 DEF TypeOK
  <2> QED BY <1>3, <2>1, PushType DEF st
<1>15. TypeOK'
  <2>1. Len(stack') <= MaxDepth
    <3>1. CASE instr.call
      BY <1>1, <1>12, <1>13, <3>1, ShadowRipAssumption
    <3>2. CASE ~instr.call
      BY <1>1, <3>2 DEF TypeOK
    <3> QED BY <3>1, <3>2
  <2>2. ghost'.spoiled \/ Len(ghost'.stack) = Len(stack')
    BY <1>1, <1>2, <1>8, <1>9, <1>13, <1>14
  <2>3. rip' \in Code
    BY <1>1 DEF Fetchable
  <2> QED BY <1>1, <1>2, <1>10, <1>11, <1>12, <2>1, <2>2, <2>3 DEF TypeOK, CellVals
<1>16. HiddenType'
  BY <1>1, <1>2, <1>9, <1>10, <1>11, SavedType DEF HiddenType
<1>17. ASSUME ~ghost.spoiled PROVE Sound'
  <2>1. Control /\ Frames /\ Patches /\ Suspended /\ ghost' = g
    BY <1>9, <1>17 DEF IInv, Sound
  <2>2. /\ cell' = ghost.cell /\ reg' = ghost.reg /\ gsrip_enabled'
        /\ ~ghost.stale => (hack => ghost.icv) /\ icv_enabled' = ghost.icv
        /\ MarkedRa = Marked(rip, ghost.gsrip) \/ ~instr.call
    BY <1>1, <1>17, AfterRestores
  <2>3. rip' = Meant(instr).slot
    <3>1. "garbage" \notin Code
      BY ShadowRipAssumption DEF Code
    <3>2. Target(instr).slot \in Code
      BY <1>1 DEF Fetchable
    <3> QED BY <1>1, <1>17, <3>1, <3>2, TargetIs
  <2>4. gs = gsrip /\ gs \in {NoSlot, rip'}
    <3>1. gs = gsrip
      BY <1>1, <1>2, <2>1 DEF Control, DueGsrip, gs
    <3>2. CASE instr.form = "direct"
      <4>1. Meant(instr) = Plain(rip)
        BY <1>2, <3>2 DEF Meant
      <4>2. rip' = rip
        BY <2>3, <4>1 DEF Plain
      <4> QED BY <2>1, <3>1, <3>2, <4>2 DEF Control, gs
    <3>3. CASE instr.form # "direct"
      BY <1>3, <2>3, <3>1, <3>3, PtrType DEF gs
    <3> QED BY <3>2, <3>3
  <2>5. Control'
    BY <1>1, <1>2, <1>8, <2>1, <2>2, <2>4 DEF Control, DueGsrip
  <2>6. Frames'
    <3>1. ASSUME NEW k \in 1 .. Len(stack)
          PROVE  /\ ghost.stack[k] \in {NoSlot, stack[k].ra.slot}
                 /\ stack[k].ra.ca = (ghost.stack[k] # NoSlot)
      BY <1>2, <2>1 DEF Frames
    <3>2. CASE ~instr.call
      BY <1>1, <1>2, <1>8, <1>14, <1>17, <2>1, <3>1, <3>2 DEF Frames
    <3>3. CASE instr.call
      <4>1. LET k == Len(stack) + 1
            IN  /\ st[k] \in {NoSlot, stack'[k].ra.slot}
                /\ stack'[k].ra.ca = (st[k] # NoSlot)
        BY <1>6, <1>13, <1>14, <1>17, <2>1, <2>2, <3>3 DEF Marked, Control
      <4>2. \A k \in 1 .. Len(stack) + 1 : k \in 1 .. Len(stack) \/ k = Len(stack) + 1
        BY <1>12
      <4>3. ASSUME NEW k \in 1 .. Len(stack')
            PROVE  /\ ghost'.stack[k] \in {NoSlot, stack'[k].ra.slot}
                   /\ stack'[k].ra.ca = (ghost'.stack[k] # NoSlot)
        <5>1. CASE k = Len(stack) + 1
          BY <1>8, <2>1, <4>1, <5>1
        <5>2. CASE k \in 1 .. Len(stack)
          <6>1. stack'[k] = stack[k] /\ ghost'.stack[k] = ghost.stack[k]
            BY <1>8, <1>13, <1>14, <1>17, <2>1, <3>3, <5>2
          <6> QED BY <3>1, <5>2, <6>1
        <5> QED BY <1>13, <3>3, <4>2, <5>1, <5>2
      <4> QED BY <1>2, <1>8, <1>13, <1>14, <1>17, <2>1, <3>3, <4>3 DEF Frames
    <3> QED BY <3>2, <3>3
  <2>7. Patches'
    <3>1. NoNeed = [NoNeed EXCEPT !.rip = (instr' = MemInstr)]
      BY <1>2, NoNeedIs
    <3> QED BY <1>1, <1>8, <1>10, <2>1, <2>2, <3>1, RestPatches DEF Patches
  <2>8. Suspended'
    BY <1>1, <1>8, <2>1, <2>2, RestSuspended
  <2> QED BY <2>5, <2>6, <2>7, <2>8 DEF Sound
<1> QED BY <1>9, <1>15, <1>16, <1>17 DEF IInv

-----------------------------------------------------------------------------
LEMMA InitIInv == Init => IInv
<1> SUFFICES ASSUME Init PROVE IInv
  OBVIOUS
<1>1. PICK p \in CodePtr, q \in CodePtr :
        cell = [a \in Cells |-> [enc |-> a # "plain" /\ data_enc, cp |-> IF a = "code" THEN q ELSE p]]
  BY DEF Init
<1>2. /\ data_enc \in BOOLEAN /\ reg = cell["plain"].cp
      /\ rip = NoSlot /\ gsrip = NoSlot
      /\ gsrip_enabled = TRUE /\ icv_enabled = TRUE
      /\ stack = <<>> /\ instr = NoInstr /\ need = NoNeed
      /\ saved = NoSaved
      /\ hack = FALSE /\ smm = NoRip
      /\ ghost = [gsrip |-> NoSlot, stack |-> <<>>, cell |-> cell, reg |-> reg, icv |-> TRUE,
                  spoiled |-> FALSE, stale |-> FALSE]
  BY DEF Init
<1>3. /\ cell \in [Cells -> CellVals]
      /\ \A a \in Cells : cell[a].enc = (a # "plain" /\ data_enc) /\ cell[a].cp \in CodePtr
  BY <1>1, <1>2 DEF CellVals
<1>4. reg \in CodePtr
  BY <1>2, <1>3 DEF Cells
<1>5. /\ NoSlot \in Code /\ <<>> \in Seq(Code) /\ <<>> \in Seq([ra : CodePtr, err : BOOLEAN])
      /\ Len(stack) = 0
  BY <1>2, EmptySeq DEF Code
<1>6. /\ ghost.gsrip = NoSlot /\ ghost.stack = <<>> /\ ghost.cell = cell /\ ghost.reg = reg
      /\ ghost.icv = TRUE /\ ghost.spoiled = FALSE /\ ghost.stale = FALSE
  BY <1>2
<1>7. ghost \in Ghosts
  BY <1>2, <1>3, <1>4, <1>5 DEF Ghosts
<1>8. /\ instr \in Branches \cup {NoInstr, RetInstr, MemInstr} /\ instr.form = "none"
      /\ instr.call = FALSE /\ instr \notin Branches /\ instr # RetInstr /\ instr # MemInstr
  BY <1>2, FormType
<1>9. NoNeed \in [ra : BOOLEAN, cp : BOOLEAN, reg : BOOLEAN, rip : BOOLEAN]
      /\ ~NoNeed.reg /\ ~NoNeed.cp
  BY DEF NoNeed
<1>10. TypeOK
  <2>1. Len(stack) <= MaxDepth /\ Len(ghost.stack) = Len(stack)
    BY <1>2, <1>5, <1>6, ShadowRipAssumption
  <2>2. stack \in Seq([ra : CodePtr, err : BOOLEAN])
    BY <1>2, <1>5
  <2>3. need \in [ra : BOOLEAN, cp : BOOLEAN, reg : BOOLEAN, rip : BOOLEAN]
    BY <1>2, <1>9
  <2>4. rip \in Code /\ gsrip \in Code /\ smm \in CodePtr \cup {NoRip}
    BY <1>2, <1>5
  <2>5. data_enc \in BOOLEAN /\ hack \in BOOLEAN /\ gsrip_enabled \in BOOLEAN /\ icv_enabled \in BOOLEAN
    BY <1>2
  <2>6. cell \in [Cells -> [enc : BOOLEAN, cp : CodePtr \cup {Garbage}]]
    BY <1>3 DEF CellVals
  <2> QED BY <1>4, <1>8, <2>1, <2>2, <2>3, <2>4, <2>5, <2>6 DEF TypeOK
<1>11. HiddenType
  BY <1>2, <1>7, <1>8, <1>9, SavedType DEF HiddenType
<1>12. Control
  BY <1>2, <1>6, <1>8 DEF Control, DueGsrip
<1>13. Frames
  BY <1>2, <1>5, <1>6 DEF Frames
<1>14. Patches
  <2>1. /\ (instr.call /\ ghost.gsrip # NoSlot) = FALSE
        /\ (instr.form \in Cells /\ Changed(ghost.cell[instr.form])) = FALSE
        /\ (instr.form = "reg" /\ ghost.reg.ca) = FALSE
        /\ (instr = MemInstr) = FALSE /\ instr.form # "reg"
    BY <1>8 DEF Cells
  <2>2. need.ra = FALSE /\ need.cp = FALSE /\ need.reg = FALSE
    BY <1>2 DEF NoNeed
  <2> QED BY <1>2, <1>3, <1>4, <1>6, <2>1, <2>2 DEF Patches, NoNeed
<1>15. Suspended
  BY <1>2, <1>6, <1>8 DEF Suspended
<1> QED BY <1>10, <1>11, <1>12, <1>13, <1>14, <1>15 DEF IInv, Sound

LEMMA StutterIInv == IInv /\ UNCHANGED vars => IInv'
<1> SUFFICES ASSUME IInv, UNCHANGED vars PROVE IInv'
  OBVIOUS
<1> USE DEF vars
<1>1. TypeOK'
  BY DEF IInv, TypeOK
<1>2. HiddenType'
  BY DEF IInv, HiddenType
<1>3. ASSUME ~ghost.spoiled PROVE Sound'
  <2>1. Control /\ Frames /\ Patches /\ Suspended
    BY <1>3 DEF IInv, Sound
  <2>2. Control'
    BY <2>1 DEF Control, DueGsrip, Meant
  <2>3. Frames'
    BY <2>1 DEF Frames
  <2>4. Patches'
    BY <2>1 DEF Patches, Patched
  <2>5. Suspended'
    BY <2>1 DEF Suspended
  <2> QED BY <2>2, <2>3, <2>4, <2>5 DEF Sound
<1> QED BY <1>1, <1>2, <1>3 DEF IInv

LEMMA NextIInv == IInv /\ [Next]_vars => IInv'
BY BranchStep, StartRetStep, StartMemStep, CompleteMemStep, CompleteBranchStep, CompleteRetStep,
   ExceptionStep, SmmEnterStep, SmmLeaveStep, LeaStep, LoadIcvFlagStep, StutterIInv DEF Next

LEMMA Inductive == Spec => []IInv
BY InitIInv, NextIInv, PTL DEF Spec

-----------------------------------------------------------------------------
\* Pointers, stack frames and pending fix-ups keep their types, whatever is interrupted.
THEOREM ShadowRipTypes == Spec => []TypeOK
<1>1. IInv => TypeOK
  BY DEF IInv
<1> QED BY <1>1, Inductive, PTL

\* Code runs with the gsrip of the pointer it was reached through, through any nesting of
\* calls, jumps (shadow_rip.h:738, :900), exceptions (:500), returns (:460) and SMM (:523) that
\* no exception has spoiled.
THEOREM GsripNeverLost == Spec => []GsripFollowsControl
<1>1. IInv => GsripFollowsControl
  BY IdleFacts DEF GsripFollowsControl
<1> QED BY <1>1, Inductive, PTL

\* instruction_after_cb puts back every pointer instruction_before_cb has decoded in a register
\* or in memory (shadow_rip.h:469, :478).
THEOREM PointersAlwaysRestored == Spec => []PointersRestored
<1>1. IInv => PointersRestored
  <2> SUFFICES ASSUME IInv, instr = NoInstr, ~ghost.spoiled PROVE cell = ghost.cell /\ reg = ghost.reg
    BY DEF PointersRestored
  <2>1. Patches /\ instr.form = "none"
    BY FormType DEF IInv, Sound
  <2> QED BY <2>1, NothingPatched
<1> QED BY <1>1, Inductive, PTL

\* The integrity checks, off during a RIP-relative branch, are afterwards as the program has
\* set them, unless it has set them after an earlier such branch (shadow_rip.h:471).
THEOREM IntegrityAlwaysRestored == Spec => []IntegrityRestored
<1>1. IInv => IntegrityRestored
  <2> SUFFICES ASSUME IInv, instr = NoInstr, ~ghost.spoiled, ~ghost.stale
               PROVE  icv_enabled = ghost.icv
    BY DEF IntegrityRestored
  <2>1. Suspended /\ instr.form = "none"
    BY FormType DEF IInv, Sound
  <2> QED BY <2>1 DEF Suspended
<1> QED BY <1>1, Inductive, PTL

\* With data encryption, the CPU finds a target it can fetch from, and it is the one the
\* program's pointer means, for every form of branch (update_reg_branch_target,
\* update_mem_branch_target).
THEOREM BranchesGoThrough == Spec => []BranchGoesThrough
<1>1. IInv => BranchGoesThrough
  <2> SUFFICES ASSUME IInv, instr \in Branches, data_enc, ~ghost.spoiled
               PROVE  Fetchable(instr) /\ Target(instr).slot = Meant(instr).slot
    BY DEF BranchGoesThrough
  <2>1. /\ Meant(instr) \in CodePtr /\ Target(instr).slot = Meant(instr).slot /\ ~Target(instr).ca
        /\ instr.form = "code" => ~icv_enabled
    BY TargetIs
  <2>2. Meant(instr).slot \in Code
    BY <2>1, PtrType
  <2> QED BY <2>1, <2>2 DEF Fetchable
<1> QED BY <1>1, Inductive, PTL

\* address_before_shim encodes the RIP-relative operand of protected code, and no other operand.
THEOREM DataAlwaysThroughGsrip == Spec => []DataThroughGsrip
<1>1. IInv => DataThroughGsrip
  <2> SUFFICES ASSUME IInv, instr = MemInstr, ~ghost.spoiled
               PROVE  /\ address_before_shim(Plain(rip)) = [slot |-> rip, ca |-> ghost.gsrip # NoSlot]
                      /\ \A s \in Code \ {rip} : ~Applies(Plain(s))
    BY DEF DataThroughGsrip
  <2>1. /\ instr # NoInstr /\ instr # RetInstr /\ instr \notin Branches /\ Control /\ Patches
        /\ rip \in Code /\ ghost.gsrip \in Code /\ smm = NoRip
    BY FormType DEF IInv, Sound, TypeOK, HiddenType, Ghosts
  <2>2. ActiveGsrip = ghost.gsrip /\ ghost.gsrip \in {NoSlot, rip}
    BY <2>1 DEF Control, DueGsrip, ActiveGsrip
  <2>3. need.rip = TRUE
    BY <2>1 DEF Patches
  <2>4. Applies(Plain(rip))
    BY <2>3 DEF Applies
  <2>5. address_before_shim(Plain(rip)) = Marked(rip, ghost.gsrip)
    BY <2>1, <2>2, <2>4, ReplaceType DEF address_before_shim
  <2>6. ASSUME NEW s \in Code \ {rip} PROVE ~Applies(Plain(s))
    <3>1. Plain(s).slot = s /\ Plain(rip).slot = rip
      BY DEF Plain
    <3> QED BY <2>6, <3>1 DEF Applies
  <2> QED BY <2>5, <2>6 DEF Marked
<1> QED BY <1>1, Inductive, PTL
=============================================================================
