--------------------------- MODULE RiscvC3Proofs ----------------------------
(***************************************************************************)
(* The RISC-V model, and the stateless code that it and the other models   *)
(* work with: the pointer cipher (BipBip), the encryption of data (Ascon,  *)
(* DataEncryption) and the instruction decoders (Isa).  None of the latter *)
(* has a run of TLC.                                                       *)
(*                                                                         *)
(* The register fix-up of RiscvC3 is for any register file and any values. *)
(* TransparentWithoutOverlap speaks about the moments between instructions *)
(* only; what makes it inductive is the state in between: during an access *)
(* the fix-up holds exactly what undoes the decoding (Mid), and without an *)
(* overlap nothing lingers in it afterwards (Clean).                       *)
(***************************************************************************)
EXTENDS RiscvC3, BipBip, DataEncryption, Isa, TLAPS

\* During an instruction the fix-up describes what instruction_before_cb did.
Mid ==
  instr # Idle =>
    /\ Decodes(instr) =>
         /\ need_fixup
         /\ fixup_reg_num = instr.rs1
         /\ fixup_reg_val = before[instr.rs1]
         /\ exception_fixup_only = (instr.rd7 = instr.rs1)
         /\ regs = [before EXCEPT ![instr.rs1] = Decode[before[instr.rs1]]]
    /\ ~Decodes(instr) => regs = before

\* Without an overlap there is no fix-up but that of the access in execution.
Clean ==
  ~overlap =>
    /\ instr = Idle => regs = arch /\ ~need_fixup
    /\ instr # Idle =>
         /\ before = arch
         /\ need_fixup => Decodes(instr)
         /\ Decodes(instr) => instr.rd7 # instr.rs1

IInv == TypeOK /\ Mid /\ Clean

\* Starting an instruction sets the fix-up up.
LEMMA StartKeepsIInv ==
  ASSUME IInv, NEW i \in Instr, Start(i)
  PROVE  IInv'
<1> DEFINE dec == IsAccess(i) /\ cc_enabled /\ regs[i.rs1] \in Ca
<1>1. /\ instr = Idle /\ instr' = i /\ before' = regs
      /\ cc_enabled' = cc_enabled /\ arch' = arch
  BY DEF Start
<1>2. i # Idle /\ i.rs1 \in Reg /\ i.rd7 \in Reg
  BY DEF Instr, Idle
<1>3. Decodes(instr)' <=> dec
  BY <1>1 DEF Decodes, IsAccess
<1>4. overlap' = (overlap \/ (dec /\ i.rd7 = i.rs1))
  BY DEF Start
<1>5. overlap' \in BOOLEAN
  BY <1>4
<1>6. CASE dec
  <2>1. /\ regs' = [regs EXCEPT ![i.rs1] = Decode[regs[i.rs1]]]
        /\ need_fixup' = TRUE /\ fixup_reg_num' = i.rs1
        /\ fixup_reg_val' = regs[i.rs1]
        /\ exception_fixup_only' = (i.rd7 = i.rs1)
    BY <1>6 DEF Start, instruction_before_cb
  <2>2. exception_fixup_only' \in BOOLEAN
    BY <2>1
  <2>3. regs' \in [Reg -> Val]
    BY <1>2, <1>6, <2>1, RiscvAssumption DEF IInv, TypeOK, Val
  <2>4. TypeOK'
    BY <1>1, <1>2, <1>5, <1>6, <2>1, <2>2, <2>3 DEF IInv, TypeOK
  <2>5. Mid'
    BY <1>1, <1>3, <1>6, <2>1 DEF Mid
  <2>6. Clean'
    BY <1>1, <1>2, <1>3, <1>4, <1>6 DEF IInv, Clean
  <2> QED BY <2>4, <2>5, <2>6 DEF IInv
<1>7. CASE ~dec
  <2>1. UNCHANGED <<regs, need_fixup, exception_fixup_only, fixup_reg_num, fixup_reg_val>>
    BY <1>7 DEF Start, instruction_before_cb, fixup
  <2>2. TypeOK'
    BY <1>1, <1>5, <2>1 DEF IInv, TypeOK
  <2>3. Mid'
    BY <1>1, <1>3, <1>7, <2>1 DEF Mid
  <2>4. Clean'
    BY <1>1, <1>2, <1>3, <1>4, <1>7, <2>1 DEF IInv, Clean
  <2> QED BY <2>2, <2>3, <2>4 DEF IInv
<1> QED BY <1>6, <1>7

\* restore_fixup keeps the types.
LEMMA RestoreType ==
  ASSUME TypeOK, NEW e \in BOOLEAN, NEW r \in [Reg -> Val], NEW on \in BOOLEAN,
         restore_fixup(e, r, on)
  PROVE  /\ regs' \in [Reg -> Val] /\ need_fixup' \in BOOLEAN
         /\ UNCHANGED <<exception_fixup_only, fixup_reg_num, fixup_reg_val>>
BY RiscvAssumption DEF TypeOK, restore_fixup, fixup, Val

\* Completing an instruction undoes the decoding.
LEMMA CompleteKeepsIInv ==
  ASSUME IInv, NEW v \in Val, NEW enabled \in BOOLEAN, Complete(v, enabled)
  PROVE  IInv'
<1>1. /\ instr # Idle /\ instr' = Idle /\ cc_enabled' = enabled
      /\ instr.op # "ctx" => enabled = cc_enabled
      /\ arch' = Effect(arch, v) /\ before' = before /\ overlap' = overlap
      /\ restore_fixup(FALSE, Effect(regs, v), enabled)
  BY DEF Complete
<1>2. instr \in Instr /\ instr.rs1 \in Reg /\ instr.rd7 \in Reg
  BY <1>1 DEF IInv, TypeOK, Instr
<1>3. Effect(regs, v) \in [Reg -> Val] /\ Effect(arch, v) \in [Reg -> Val]
  BY <1>2 DEF Effect, IInv, TypeOK
<1>4. TypeOK'
  BY <1>1, <1>3, RestoreType DEF IInv, TypeOK
<1>5. Mid'
  BY <1>1 DEF Mid
<1>6. Clean'
  <2> SUFFICES ASSUME ~overlap PROVE regs' = arch' /\ ~need_fixup'
    BY <1>1 DEF Clean
  <2>1. CASE Decodes(instr)
    <3>1. /\ need_fixup /\ enabled /\ ~exception_fixup_only
          /\ fixup_reg_num = instr.rs1 /\ fixup_reg_val = arch[instr.rs1]
          /\ regs = [arch EXCEPT ![instr.rs1] = Decode[arch[instr.rs1]]]
          /\ instr.rd7 # instr.rs1
      BY <1>1, <2>1 DEF IInv, Mid, Clean, Decodes, IsAccess
    <3>2. /\ regs' = [Effect(regs, v) EXCEPT ![instr.rs1] = arch[instr.rs1]]
          /\ ~need_fixup'
      BY <1>1, <3>1 DEF restore_fixup
    <3>3. [Effect(regs, v) EXCEPT ![instr.rs1] = arch[instr.rs1]] = Effect(arch, v)
      <4>1. arch \in [Reg -> Val]
        BY DEF IInv, TypeOK
      <4> QED BY <1>2, <3>1, <4>1 DEF Effect
    <3> QED BY <1>1, <3>2, <3>3
  <2>2. CASE ~Decodes(instr)
    BY <1>1, <2>2 DEF IInv, Mid, Clean, restore_fixup, fixup
  <2> QED BY <2>1, <2>2
<1> QED BY <1>4, <1>5, <1>6 DEF IInv

\* A faulting access through a CA leaves the registers as they were before it.
LEMMA FaultRestores ==
  ASSUME IInv, instr # Idle, Decodes(instr), Fault
  PROVE  regs' = before
<1>1. /\ need_fixup /\ cc_enabled
      /\ fixup_reg_num = instr.rs1 /\ fixup_reg_val = before[instr.rs1]
      /\ regs = [before EXCEPT ![instr.rs1] = Decode[before[instr.rs1]]]
  BY DEF IInv, Mid, Decodes
<1>2. regs' = [regs EXCEPT ![instr.rs1] = before[instr.rs1]]
  BY <1>1 DEF Fault, restore_fixup
<1>3. before \in [Reg -> Val]
  BY DEF IInv, TypeOK
<1> QED BY <1>1, <1>2, <1>3

\* Exceptions keep the invariant.
LEMMA ExceptionKeepsIInv ==
  ASSUME IInv, Fault \/ Interrupt
  PROVE  IInv'
<1>1. /\ instr' = Idle /\ UNCHANGED <<cc_enabled, before, arch, overlap>>
      /\ restore_fixup(TRUE, regs, cc_enabled)
  BY DEF Fault, Interrupt
<1>2. TypeOK'
  BY <1>1, RestoreType DEF IInv, TypeOK
<1>3. Mid'
  BY <1>1 DEF Mid
<1>4. Clean'
  <2> SUFFICES ASSUME ~overlap PROVE regs' = arch /\ ~need_fixup'
    BY <1>1 DEF Clean
  <2>1. CASE Fault /\ Decodes(instr)
    <3>1. regs' = before /\ before = arch
      BY <2>1, FaultRestores DEF Fault, IInv, Clean
    <3>2. ~need_fixup'
      BY <1>1, <2>1 DEF restore_fixup, IInv, Mid, Decodes, Fault
    <3> QED BY <3>1, <3>2
  <2>2. CASE Fault /\ ~Decodes(instr)
    BY <1>1, <2>2 DEF Fault, IInv, Mid, Clean, restore_fixup, fixup
  <2>3. CASE Interrupt
    BY <1>1, <2>3 DEF Interrupt, IInv, Clean, restore_fixup, fixup
  <2> QED BY <2>1, <2>2, <2>3
<1> QED BY <1>2, <1>3, <1>4 DEF IInv

\* The invariant is inductive.
LEMMA Inductive == Spec => []IInv
<1>1. Init => IInv
  <2> SUFFICES ASSUME Init PROVE IInv
    OBVIOUS
  <2>1. TypeOK
    BY RiscvAssumption DEF Init, TypeOK
  <2>2. Mid /\ Clean
    BY DEF Init, Mid, Clean
  <2> QED BY <2>1, <2>2 DEF IInv
<1>2. IInv /\ [Next]_vars => IInv'
  <2> SUFFICES ASSUME IInv, [Next]_vars PROVE IInv'
    OBVIOUS
  <2>1. CASE UNCHANGED vars
    BY <2>1 DEF vars, fixup, IInv, TypeOK, Mid, Clean, Decodes, IsAccess
  <2> QED BY <2>1, StartKeepsIInv, CompleteKeepsIInv, ExceptionKeepsIInv DEF Next
<1> QED BY <1>1, <1>2, PTL DEF Spec

(***************************************************************************)
(* For any registers and values: until a load or store through a CA names  *)
(* its base register in bits 7-11, decoding in place is invisible.         *)
(***************************************************************************)
THEOREM FixupTransparent == Spec => [](TypeOK /\ TransparentWithoutOverlap)
<1>1. IInv => TypeOK /\ TransparentWithoutOverlap
  BY DEF IInv, Clean, TransparentWithoutOverlap
<1> QED BY <1>1, Inductive, PTL

\* A faulting access through a CA can be retried, overlap or not.
THEOREM FaultTransparent == Spec => FaultSeesPointer
<1>1. IInv /\ [Next]_vars =>
        [instr # Idle /\ Decodes(instr) /\ Fault => regs' = before]_vars
  BY FaultRestores
<1> QED BY <1>1, Inductive, PTL DEF Spec, FaultSeesPointer

-----------------------------------------------------------------------------
(***************************************************************************)
(* The pointer cipher is invertible: what BipBipEnc produces under a       *)
(* schedule, BipBipDec undoes under the same one.                          *)
(***************************************************************************)
\* A block with the same bits is the same block.
LEMMA BlockExt ==
  ASSUME NEW s \in Block, NEW r \in Block, \A i \in 0 .. 23 : s[i] = r[i]
  PROVE  s = r
BY DEF Block

\* Adding a key twice removes it.
LEMMA KADInverse ==
  ASSUME NEW s \in Block, NEW k \in Block
  PROVE  KAD(s, k) \in Block /\ KAD(KAD(s, k), k) = s
<1>1. \A a, b \in Bit : xor(a, b) \in Bit /\ xor(xor(a, b), b) = a
  BY DEF Bit, xor
<1>2. \A i \in 0 .. 23 : s[i] \in Bit /\ k[i] \in Bit
  BY DEF Block
<1>3. KAD(s, k) \in Block
  BY <1>1, <1>2 DEF KAD, Block
<1>4. KAD(KAD(s, k), k) \in Block
  <2>1. \A i \in 0 .. 23 : KAD(s, k)[i] \in Bit
    BY <1>3 DEF Block
  <2> QED BY <1>1, <1>2, <2>1 DEF KAD, Block
<1>5. \A i \in 0 .. 23 : KAD(KAD(s, k), k)[i] = s[i]
  BY <1>1, <1>2 DEF KAD
<1> QED BY <1>3, <1>4, <1>5, BlockExt

\* A bit permutation and the table that inverts it.
LEMMA BPLInverse ==
  ASSUME NEW s \in Block, NEW P, NEW Q,
         \A i \in 0 .. 23 : At(P, i) \in 0 .. 23 /\ At(Q, i) \in 0 .. 23,
         \A i \in 0 .. 23 : At(Q, At(P, i)) = i
  PROVE  BPL(s, Q) \in Block /\ BPL(BPL(s, Q), P) = s
<1>1. BPL(s, Q) \in Block
  BY DEF BPL, Block
<1>2. BPL(BPL(s, Q), P) \in Block
  BY <1>1 DEF BPL, Block
<1>3. \A i \in 0 .. 23 : BPL(BPL(s, Q), P)[i] = s[i]
  BY DEF BPL
<1> QED BY <1>1, <1>2, <1>3, BlockExt

\* The linear layer: the second application cancels every term but one.
LEMMA LML1Inverse ==
  ASSUME NEW s \in Block
  PROVE  LML1_inv(s) \in Block /\ LML1(LML1_inv(s)) = s
<1> DEFINE L == LML1(s)
           y == LML1_inv(s)
<1>1. \A a, b \in Bit : xor(a, b) \in Bit
  BY DEF Bit, xor
<1>2. \A r \in Block : LML1(r) \in Block
  <2> SUFFICES ASSUME NEW r \in Block PROVE LML1(r) \in Block
    OBVIOUS
  <2>1. \A i \in 0 .. 23 : (i + 2) % 24 \in 0 .. 23 /\ (i + 12) % 24 \in 0 .. 23
    OBVIOUS
  <2>2. \A i \in 0 .. 23 : r[i] \in Bit
    BY DEF Block
  <2> QED BY <1>1, <2>1, <2>2 DEF LML1, Block
<1>3. L \in Block
  BY <1>2
<1>4. y \in Block
  <2>1. \A i \in 0 .. 23 : (i + 20) % 24 \in 0 .. 23
    OBVIOUS
  <2> QED BY <1>3, <2>1 DEF LML1_inv, Block
<1>5. LML1(y) \in Block
  BY <1>2, <1>4
<1>6. ASSUME NEW i \in 0 .. 23
      PROVE  LML1(y)[i] = s[i]
  <2>1. LML1(y)[i] = xor(xor(y[i], y[(i + 2) % 24]), y[(i + 12) % 24])
    BY DEF LML1
  <2>2. \A n \in 0 .. 23 : y[n] = L[(n + 20) % 24]
    BY DEF LML1_inv
  <2>3. \A n \in 0 .. 23 : L[n] = xor(xor(s[n], s[(n + 2) % 24]), s[(n + 12) % 24])
    BY DEF LML1
  <2>4. /\ (i + 2) % 24 \in 0 .. 23 /\ (i + 12) % 24 \in 0 .. 23
        /\ (i + 20) % 24 \in 0 .. 23 /\ (i + 22) % 24 \in 0 .. 23 /\ (i + 8) % 24 \in 0 .. 23
        /\ (i + 10) % 24 \in 0 .. 23
    OBVIOUS
  <2>5. (((i + 2) % 24) + 20) % 24 = (i + 22) % 24 /\ (((i + 12) % 24) + 20) % 24 = (i + 8) % 24
    OBVIOUS
  <2>6. /\ (((i + 20) % 24) + 2) % 24 = (i + 22) % 24 /\ (((i + 20) % 24) + 12) % 24 = (i + 8) % 24
        /\ (((i + 22) % 24) + 2) % 24 = i /\ (((i + 22) % 24) + 12) % 24 = (i + 10) % 24
        /\ (((i + 8) % 24) + 2) % 24 = (i + 10) % 24 /\ (((i + 8) % 24) + 12) % 24 = (i + 20) % 24
    OBVIOUS
  <2>7. LML1(y)[i] = xor(xor(L[(i + 20) % 24], L[(i + 22) % 24]), L[(i + 8) % 24])
    BY <2>1, <2>2, <2>4, <2>5
  <2>8. /\ L[(i + 20) % 24] = xor(xor(s[(i + 20) % 24], s[(i + 22) % 24]), s[(i + 8) % 24])
        /\ L[(i + 22) % 24] = xor(xor(s[(i + 22) % 24], s[i]), s[(i + 10) % 24])
        /\ L[(i + 8) % 24] = xor(xor(s[(i + 8) % 24], s[(i + 10) % 24]), s[(i + 20) % 24])
    BY <2>3, <2>4, <2>6
  <2>9. /\ s[i] \in Bit /\ s[(i + 20) % 24] \in Bit /\ s[(i + 22) % 24] \in Bit
        /\ s[(i + 8) % 24] \in Bit /\ s[(i + 10) % 24] \in Bit
    BY <2>4 DEF Block
  <2>10. \A a, b, c, d, e \in Bit :
           xor(xor(xor(xor(b, c), d), xor(xor(c, a), e)), xor(xor(d, e), b)) = a
    BY DEF Bit, xor
  <2>11. \E a, b, c, d, e \in Bit :
           /\ a = s[i]
           /\ LML1(y)[i] = xor(xor(xor(xor(b, c), d), xor(xor(c, a), e)), xor(xor(d, e), b))
    <3> USE <2>9
    <3> WITNESS s[i] \in Bit, s[(i + 20) % 24] \in Bit, s[(i + 22) % 24] \in Bit,
                  s[(i + 8) % 24] \in Bit, s[(i + 10) % 24] \in Bit
    <3> QED BY <2>7, <2>8
  <2> QED BY <2>10, <2>11
<1> QED BY <1>4, <1>5, <1>6, BlockExt

\* The substitution layer: the two tables invert each other on every chunk of six bits.
LEMMA SBLInverse ==
  ASSUME NEW s \in Block
  PROVE  SBL_inv(s) \in Block /\ SBL(SBL_inv(s)) = s
<1> DEFINE y == SBL_inv(s)
           v(c) == At(Sbox_inv_table, ChunkVal(Chunk(s, c)))
<1>1. \A i \in 0 .. 23 : i \div 6 \in 0 .. 3 /\ i % 6 \in 0 .. 5 /\ 6 * (i \div 6) + (i % 6) = i
  OBVIOUS
<1>2. \A c \in 0 .. 3 : \A k \in 0 .. 5 : /\ 6 * c + k \in 0 .. 23
                                          /\ (6 * c + k) \div 6 = c /\ (6 * c + k) % 6 = k
  OBVIOUS
<1>3. \A r \in Block : \A c \in 0 .. 3 : Chunk(r, c) \in [0 .. 5 -> Bit]
  BY <1>2 DEF Chunk, Block
<1>4. \A c \in 0 .. 3 : v(c) \in 0 .. 63 /\ At(Sbox_table, v(c)) = ChunkVal(Chunk(s, c))
  <2>1. \A c \in 0 .. 3 : ChunkVal(Chunk(s, c)) \in 0 .. 63
    BY <1>3, BitsAssumption DEF BitsAssumption
  <2> QED BY <2>1, TableAssumption DEF TableAssumption
<1>5. \A i \in 0 .. 23 : y[i] = BitOf(v(i \div 6), i % 6)
  BY DEF SBL_inv, sbox
<1>6. y \in Block
  <2>1. \A i \in 0 .. 23 : BitOf(v(i \div 6), i % 6) \in Bit
    BY <1>1, <1>4, BitsAssumption DEF BitsAssumption
  <2>2. y = [i \in 0 .. 23 |-> BitOf(v(i \div 6), i % 6)]
    BY DEF SBL_inv, sbox
  <2> QED BY <2>1, <2>2 DEF Block
<1>7. ASSUME NEW c \in 0 .. 3
      PROVE  ChunkVal(Chunk(y, c)) = v(c)
  <2>1. Chunk(y, c) = [k \in 0 .. 5 |-> BitOf(v(c), k)]
    BY <1>2, <1>5 DEF Chunk
  <2> QED BY <1>4, <2>1, BitsAssumption DEF BitsAssumption
<1>8. ASSUME NEW i \in 0 .. 23
      PROVE  SBL(y)[i] = s[i]
  <2>1. SBL(y)[i] = BitOf(At(Sbox_table, ChunkVal(Chunk(y, i \div 6))), i % 6)
    BY DEF SBL, sbox
  <2>2. SBL(y)[i] = BitOf(ChunkVal(Chunk(s, i \div 6)), i % 6)
    BY <1>1, <1>4, <1>7, <2>1
  <2>3. SBL(y)[i] = Chunk(s, i \div 6)[i % 6]
    BY <1>1, <1>3, <2>2, BitsAssumption DEF BitsAssumption
  <2> QED BY <1>1, <2>3 DEF Chunk
<1>9. SBL(y) = s
  <2>1. SBL(y) = [i \in 0 .. 23 |-> SBL(y)[i]]
    BY DEF SBL, sbox
  <2>2. s = [i \in 0 .. 23 |-> s[i]]
    BY DEF Block
  <2> QED BY <1>8, <2>1, <2>2
<1> QED BY <1>6, <1>9

\* A shell round.
LEMMA RFSInverse ==
  ASSUME NEW s \in Block
  PROVE  RFS_inv(s) \in Block /\ RFS(RFS_inv(s)) = s
<1>1. BPL(s, PI3_inv) \in Block /\ BPL(BPL(s, PI3_inv), PI3) = s
  BY BPLInverse, TableAssumption DEF TableAssumption
<1> QED BY <1>1, SBLInverse DEF RFS, RFS_inv

\* A core round.
LEMMA RFCInverse ==
  ASSUME NEW s \in Block
  PROVE  RFC_inv(s) \in Block /\ RFC(RFC_inv(s)) = s
<1> DEFINE a == BPL(s, PI2_inv)
           b == LML1_inv(a)
           c == BPL(b, PI1_inv)
<1>1. a \in Block /\ BPL(a, PI2) = s
  BY BPLInverse, TableAssumption DEF TableAssumption
<1>2. b \in Block /\ LML1(b) = a
  BY <1>1, LML1Inverse
<1>3. c \in Block /\ BPL(c, PI1) = b
  BY <1>2, BPLInverse, TableAssumption DEF TableAssumption
<1>4. SBL_inv(c) \in Block /\ SBL(SBL_inv(c)) = c
  BY <1>3, SBLInverse
<1> QED BY <1>1, <1>2, <1>3, <1>4 DEF RFC, RFC_inv

\* Under any twelve round keys, decryption undoes encryption, round by round.
LEMMA RoundsInverse ==
  ASSUME NEW p \in Block, NEW t \in [0 .. 11 -> Block]
  PROVE  BipBipDec(BipBipEnc(p, t), t) = p
<1> DEFINE a1 == RFS_inv(KAD(p, t[11]))
           a2 == RFS_inv(KAD(a1, t[10]))
           a3 == RFS_inv(KAD(a2, t[9]))
           b1 == RFC_inv(KAD(a3, t[8]))
           b2 == RFC_inv(KAD(b1, t[7]))
           b3 == RFC_inv(KAD(b2, t[6]))
           c1 == RFC_inv(KAD(b3, t[5]))
           c2 == RFC_inv(KAD(c1, t[4]))
           d1 == RFS_inv(KAD(c2, t[3]))
           d2 == RFS_inv(KAD(d1, t[2]))
           d3 == RFS_inv(KAD(d2, t[1]))
           x  == KAD(d3, t[0])
<1>1. \A r \in 0 .. 11 : t[r] \in Block
  OBVIOUS
<1>2. ASSUME NEW s \in Block, NEW k \in Block
      PROVE  /\ RFS_inv(KAD(s, k)) \in Block /\ KAD(RFS(RFS_inv(KAD(s, k))), k) = s
             /\ RFC_inv(KAD(s, k)) \in Block /\ KAD(RFC(RFC_inv(KAD(s, k))), k) = s
  BY KADInverse, RFSInverse, RFCInverse
<1>3. a1 \in Block /\ KAD(RFS(a1), t[11]) = p
  BY <1>1, <1>2
<1>4. a2 \in Block /\ KAD(RFS(a2), t[10]) = a1
  <2> HIDE DEF a1
  <2> QED BY <1>1, <1>2, <1>3
<1>5. a3 \in Block /\ KAD(RFS(a3), t[9]) = a2
  <2> HIDE DEF a2
  <2> QED BY <1>1, <1>2, <1>4
<1>6. b1 \in Block /\ KAD(RFC(b1), t[8]) = a3
  <2> HIDE DEF a3
  <2> QED BY <1>1, <1>2, <1>5
<1>7. b2 \in Block /\ KAD(RFC(b2), t[7]) = b1
  <2> HIDE DEF b1
  <2> QED BY <1>1, <1>2, <1>6
<1>8. b3 \in Block /\ KAD(RFC(b3), t[6]) = b2
  <2> HIDE DEF b2
  <2> QED BY <1>1, <1>2, <1>7
<1>9. c1 \in Block /\ KAD(RFC(c1), t[5]) = b3
  <2> HIDE DEF b3
  <2> QED BY <1>1, <1>2, <1>8
<1>10. c2 \in Block /\ KAD(RFC(c2), t[4]) = c1
  <2> HIDE DEF c1
  <2> QED BY <1>1, <1>2, <1>9
<1>11. d1 \in Block /\ KAD(RFS(d1), t[3]) = c2
  <2> HIDE DEF c2
  <2> QED BY <1>1, <1>2, <1>10
<1>12. d2 \in Block /\ KAD(RFS(d2), t[2]) = d1
  <2> HIDE DEF d1
  <2> QED BY <1>1, <1>2, <1>11
<1>13. d3 \in Block /\ KAD(RFS(d3), t[1]) = d2
  <2> HIDE DEF d2
  <2> QED BY <1>1, <1>2, <1>12
<1>14. KAD(x, t[0]) = d3
  <2> HIDE DEF d3
  <2> QED BY <1>1, <1>13, KADInverse
<1>15. BipBipEnc(p, t) = x
  BY DEF BipBipEnc
<1>16. BipBipDec(x, t) =
         KAD(RFS(KAD(RFS(KAD(RFS(KAD(RFC(KAD(RFC(KAD(RFC(KAD(RFC(KAD(RFC(KAD(RFS(KAD(RFS(KAD(RFS(
           KAD(x, t[0])), t[1])), t[2])), t[3])), t[4])), t[5])), t[6])), t[7])), t[8])),
             t[9])), t[10])), t[11])
  BY DEF BipBipDec
<1> HIDE DEF a1, a2, a3, b1, b2, b3, c1, c2, d1, d2, d3, x
<1> QED BY <1>3, <1>4, <1>5, <1>6, <1>7, <1>8, <1>9, <1>10, <1>11, <1>12, <1>13, <1>14, <1>15,
           <1>16


\* The operations of the tweak path keep a word of 53 bits, and give blocks.
LEMMA TweakPathType ==
  ASSUME NEW w \in Tweak, NEW k \in Tweak
  PROVE  /\ CHI(w) \in Tweak /\ KAD53(w, k) \in Tweak /\ RGC(w) \in Tweak /\ RGP(w) \in Tweak
         /\ RKE0(w) \in Block /\ RKE1(w) \in Block
<1>1. \A a, b \in Bit : xor(a, b) \in Bit /\ xor(a, (1 - b)) \in Bit
  BY DEF Bit, xor
<1>2. \A a, b, c \in Bit : xor(a, (1 - b) * c) \in Bit
  BY DEF Bit, xor
<1>3. \A u \in Tweak : \A i \in 0 .. 52 : u[i] \in Bit
  BY DEF Tweak
<1>4. \A u \in Tweak : CHI(u) \in Tweak
  <2>1. \A i \in 0 .. 52 : (i + 1) % 53 \in 0 .. 52 /\ (i + 2) % 53 \in 0 .. 52
    OBVIOUS
  <2> QED BY <1>2, <1>3, <2>1 DEF CHI, Tweak
<1>5. \A u \in Tweak : LML2(u) \in Tweak
  <2>1. \A i \in 0 .. 52 : (i + 1) % 53 \in 0 .. 52 /\ (i + 8) % 53 \in 0 .. 52
    OBVIOUS
  <2> QED BY <1>1, <1>3, <2>1 DEF LML2, Tweak
<1>6. \A u \in Tweak : LML3(u) \in Tweak
  <2>1. \A i \in 0 .. 52 : i # 52 => i + 1 \in 0 .. 52
    OBVIOUS
  <2> QED BY <1>1, <1>3, <2>1 DEF LML3, Tweak
<1>7. \A u \in Tweak : BPL53(u, PI4) \in Tweak /\ BPL53(u, PI5) \in Tweak
  BY <1>3, TweakAssumption DEF TweakAssumption, BPL53, Tweak
<1>8. KAD53(w, k) \in Tweak
  BY <1>1, <1>3 DEF KAD53, Tweak
<1>9. RKE0(w) \in Block /\ RKE1(w) \in Block
  <2>1. \A i \in 0 .. 23 : 2 * i \in 0 .. 52 /\ 2 * i + 1 \in 0 .. 52
    OBVIOUS
  <2> QED BY <1>3, <2>1 DEF RKE0, RKE1, Block
<1> QED BY <1>4, <1>5, <1>6, <1>7, <1>8, <1>9 DEF RGC, RGP

\* The schedule of any key and tweak is twelve blocks.
LEMMA ScheduleType ==
  ASSUME NEW mk \in [0 .. 255 -> Bit], NEW tweak \in [0 .. 39 -> Bit]
  PROVE  Schedule(mk, tweak) \in [0 .. 11 -> Block]
<1> DEFINE ks == GenKeySchedule(mk)
           w0 == pad_tweak(tweak)
           k  == ks.tweak_round_key
           w1 == CHI(KAD53(w0, k[0]))
           w2 == RGC(KAD53(w1, k[1]))
           w3 == RGP(RGC(KAD53(w2, k[2])))
           w4 == RGC(KAD53(w3, k[3]))
           w5 == RGP(w4)
           w6 == RGC(KAD53(w5, k[4]))
           w7 == RGP(w6)
           w8 == RGC(KAD53(w7, k[5]))
<1>1. ks.data_round_key \in Block
  BY TweakAssumption DEF TweakAssumption, GenKeySchedule, Block
<1>2. \A i \in 0 .. 5 : k[i] \in Tweak
  <2>1. \A i \in 0 .. 5 : \A j \in 0 .. 52 : (53 * (i + 1) + j) % 256 \in 0 .. 255
    OBVIOUS
  <2> QED BY <2>1 DEF GenKeySchedule, Tweak
<1>3. w0 \in Tweak
  <2>1. \A i \in 0 .. 52 : i > 12 => i - 13 \in 0 .. 39
    OBVIOUS
  <2> QED BY <2>1 DEF pad_tweak, Tweak, Bit
<1>4. TwkSc(w0, ks) =
        [r \in 0 .. 11 |->
           CASE r = 0  -> ks.data_round_key
             [] r = 1  -> RKE0(w1) [] r = 2 -> RKE1(w1)
             [] r = 3  -> RKE0(w2) [] r = 4 -> RKE1(w2)
             [] r = 5  -> RKE0(w3) [] r = 6 -> RKE0(w4)
             [] r = 7  -> RKE0(w5) [] r = 8 -> RKE0(w6)
             [] r = 9  -> RKE0(w7)
             [] r = 10 -> RKE0(w8) [] r = 11 -> RKE1(w8)]
  BY DEF TwkSc
<1> HIDE DEF ks, w0, k
<1>5. \A u, v \in Tweak : /\ CHI(KAD53(u, v)) \in Tweak /\ RGC(KAD53(u, v)) \in Tweak
                          /\ RGP(u) \in Tweak
  <2> SUFFICES ASSUME NEW u \in Tweak, NEW v \in Tweak
               PROVE  /\ CHI(KAD53(u, v)) \in Tweak /\ RGC(KAD53(u, v)) \in Tweak
                      /\ RGP(u) \in Tweak
    OBVIOUS
  <2>1. KAD53(u, v) \in Tweak
    BY TweakPathType
  <2> QED BY <2>1, TweakPathType
<1>6. /\ k[0] \in Tweak /\ k[1] \in Tweak /\ k[2] \in Tweak
      /\ k[3] \in Tweak /\ k[4] \in Tweak /\ k[5] \in Tweak
  BY <1>2
<1>7. w1 \in Tweak
  BY <1>3, <1>5, <1>6
<1>8. w2 \in Tweak
  BY <1>5, <1>6, <1>7
<1>9. w3 \in Tweak
  BY <1>5, <1>6, <1>8
<1>10. w4 \in Tweak
  BY <1>5, <1>6, <1>9
<1>11. w5 \in Tweak
  BY <1>5, <1>10
<1>12. w6 \in Tweak
  BY <1>5, <1>6, <1>11
<1>13. w7 \in Tweak
  BY <1>5, <1>12
<1>14. w8 \in Tweak
  BY <1>5, <1>6, <1>13
<1> HIDE DEF w1, w2, w3, w4, w5, w6, w7, w8
<1>15. \A u \in Tweak : RKE0(u) \in Block /\ RKE1(u) \in Block
  BY TweakPathType
<1>16. TwkSc(w0, ks) \in [0 .. 11 -> Block]
  BY <1>1, <1>4, <1>7, <1>8, <1>9, <1>10, <1>11, <1>12, <1>13, <1>14, <1>15
<1> QED BY <1>16 DEF Schedule, ks, w0

\* The pointer cipher of bipbip.cpp: a pointer encrypted under a key and a tweak decrypts, under
\* the same key and tweak, to what was encrypted, whatever the key, the tweak and the pointer.
THEOREM PointerCipherInverse ==
  \A mk \in [0 .. 255 -> Bit], tweak \in [0 .. 39 -> Bit], p \in Block :
    decrypt24(mk, encrypt24(mk, p, tweak), tweak) = p
BY ScheduleType, RoundsInverse DEF encrypt24, decrypt24

-----------------------------------------------------------------------------
(***************************************************************************)
(* The round of ascon_cipher.cpp is the round of the Ascon specification,  *)
(* and the encryption of data depends on the address of a byte only.       *)
(***************************************************************************)
\* Bits, words and the operations of the linear layer.
LEMMA WordType ==
  ASSUME NEW x \in Word, NEW y \in Word
  PROVE  /\ Xor(x, y) \in Word
         /\ \A n \in 0 .. 63 : ROR(x, n) \in Word
         /\ \A i \in 0 .. 63 : x[i] \in Bit
<1>1. \A a, b \in Bit : xor(a, b) \in Bit
  BY DEF Bit, xor
<1>2. \A i \in 0 .. 63 : x[i] \in Bit /\ y[i] \in Bit
  BY DEF Word
<1>3. \A i \in 0 .. 63 : \A n \in 0 .. 63 : (i + n) % 64 \in 0 .. 63
  OBVIOUS
<1> QED BY <1>1, <1>2, <1>3 DEF Xor, ROR, Word

\* The words that the cipher starts from.
LEMMA ConstantType ==
  /\ \A c : Constant(c) \in Word
  /\ \A S : Ones(S) \in Word
  /\ \A la : LaBits(la) \in Word
BY DEF Constant, Ones, LaBits, Word, Bit

\* One column of the state.
LEMMA ColumnType ==
  ASSUME NEW s \in State, NEW c, NEW i \in 0 .. 63
  PROVE  Column(s, c, i) \in [0 .. 4 -> Bit]
<1>1. \A a, b \in Bit : xor(a, b) \in Bit
  BY DEF Bit, xor
<1>2. \A w \in 0 .. 4 : s[w][i] \in Bit
  BY DEF State, Word
<1>3. Constant(c)[i] \in Bit
  BY ConstantType DEF Word
<1> QED BY <1>1, <1>2, <1>3 DEF Column

\* The two rotations of a word, and their composition.
LEMMA Rotations ==
  \A w \in 0 .. 4 : /\ Inner(w) \in 0 .. 63 /\ Outer(w) \in 0 .. 63
                    /\ Inner(w) + Outer(w) \in 0 .. 63
BY DEF Inner, Outer

\* A round keeps the state a state.
LEMMA RoundType ==
  ASSUME NEW s \in State, NEW c
  PROVE  Substituted(s, c) \in State /\ ROUND(s, c) \in State
<1>1. Substituted(s, c) \in State
  <2>1. \A i \in 0 .. 63 : \A w \in 0 .. 4 : SboxBits(Column(s, c, i))[w] \in Bit
    BY ColumnType, SboxAssumption DEF SboxAssumption
  <2> QED BY <2>1 DEF Substituted, State, Word
<1>2. \A w \in 0 .. 4 : Substituted(s, c)[w] \in Word
  BY <1>1 DEF State
<1>3. ASSUME NEW x \in Word, NEW w \in 0 .. 4
      PROVE  Diffused(x, w) \in Word
  <2>1. ROR(x, Inner(w)) \in Word
    BY Rotations, WordType
  <2>2. Xor(x, ROR(x, Inner(w))) \in Word
    BY <2>1, WordType
  <2>3. ROR(Xor(x, ROR(x, Inner(w))), Outer(w)) \in Word
    BY Rotations, <2>2, WordType
  <2> QED BY <2>3, WordType DEF Diffused
<1>4. \A x \in Word : Not(x) \in Word
  <2>1. \A b \in Bit : 1 - b \in Bit
    BY DEF Bit
  <2> QED BY <2>1 DEF Not, Word
<1> QED BY <1>1, <1>2, <1>3, <1>4 DEF ROUND, State

\* The keystream is a word, whatever the address and the key.
LEMMA StreamType ==
  ASSUME NEW d \in Word, NEW key \in DataKey
  PROVE  ascon64b_stream(d, key) \in Word
<1>1. ASSUME NEW s \in State
      PROVE  P12ROUNDS(s) \in State
  <2>1. \A r \in State : \A c : ROUND(r, c) \in State
    BY RoundType
  <2> QED BY <2>1 DEF P12ROUNDS
<1>2. Loaded(key) \in State
  BY ConstantType DEF Loaded, State, DataKey
<1>3. ASSUME NEW s \in State
      PROVE  Absorbed(s, d) \in State
  <2>1. \A w \in 0 .. 4 : s[w] \in Word
    BY DEF State
  <2>2. \A x, y \in Word : Xor(x, y) \in Word
    BY WordType
  <2>3. /\ Xor(s[0], d) \in Word
        /\ Xor(s[1], Ones({63})) \in Word /\ Xor(s[4], Ones({0})) \in Word
    <3>1. s[0] \in Word /\ s[1] \in Word /\ s[4] \in Word
      BY <2>1
    <3> QED BY <2>2, <3>1, ConstantType
  <2> QED BY <2>1, <2>2, <2>3 DEF Absorbed, State
<1>4. P12ROUNDS(Absorbed(P12ROUNDS(Loaded(key)), d)) \in State
  BY <1>1, <1>2, <1>3
<1> QED BY <1>4 DEF ascon64b_stream, State

\* A bit of a diffused word, as the sum of three bits.
LEMMA DiffusedBit ==
  ASSUME NEW x \in Word, NEW w \in 0 .. 4, NEW i \in 0 .. 63
  PROVE  Diffused(x, w)[i] =
           xor(x[i], xor(x[(i + Outer(w)) % 64], x[(i + (Inner(w) + Outer(w))) % 64]))
<1> DEFINE m == Inner(w)
           n == Outer(w)
           r == ROR(x, m)
           u == Xor(x, r)
           v == ROR(u, n)
<1>1. m \in 0 .. 63 /\ n \in 0 .. 63 /\ m + n \in 0 .. 63
  BY Rotations
<1> HIDE DEF m, n
<1>2. (i + n) % 64 \in 0 .. 63 /\ (((i + n) % 64) + m) % 64 = (i + (m + n)) % 64
  BY <1>1
<1>3. v[i] = u[(i + n) % 64]
  BY DEF ROR
<1>4. u[(i + n) % 64] = xor(x[(i + n) % 64], r[(i + n) % 64])
  BY <1>2 DEF Xor
<1>5. r[(i + n) % 64] = x[(i + (m + n)) % 64]
  BY <1>2 DEF ROR
<1>6. Xor(x, v)[i] = xor(x[i], v[i])
  BY DEF Xor
<1>7. Diffused(x, w)[i] = Xor(x, v)[i]
  BY DEF Diffused, m, n
<1> HIDE DEF r, u, v
<1> QED BY <1>3, <1>4, <1>5, <1>6, <1>7 DEF m, n

\* The round of ascon_cipher.cpp, which computes the substitution with Boolean operations, moves
\* the inversion behind the linear layer and rotates twice, is the round of the specification:
\* the substitution table, and three rotations.
THEOREM RoundMeetsSpec ==
  ASSUME NEW s \in State, NEW c
  PROVE  ROUND(s, c) = RoundSpec(s, c)
<1> DEFINE x == Substituted(s, c)
           y == SubstitutedSpec(s, c)
<1>1. \A w \in 0 .. 4 : x[w] \in Word
  BY RoundType DEF State
<1>2. \A w \in 0 .. 4 : \A i \in 0 .. 63 : y[w][i] = IF w = 2 THEN 1 - x[w][i] ELSE x[w][i]
  <2>1. \A w \in 0 .. 4 : \A i \in 0 .. 63 :
          SboxSpec(Column(s, c, i))[w] = IF w = 2 THEN 1 - SboxBits(Column(s, c, i))[w]
                                         ELSE SboxBits(Column(s, c, i))[w]
    BY ColumnType, SboxAssumption DEF SboxAssumption
  <2> QED BY <2>1 DEF Substituted, SubstitutedSpec
<1>3. ASSUME NEW w \in 0 .. 4, NEW i \in 0 .. 63
      PROVE  ROUND(s, c)[w][i] = RoundSpec(s, c)[w][i]
  <2> DEFINE j == (i + Outer(w)) % 64
             k == (i + (Inner(w) + Outer(w))) % 64
             p == (i + Sigma(w)[1]) % 64
             q == (i + Sigma(w)[2]) % 64
             a == x[w][i]
             b == x[w][j]
             d == x[w][k]
  <2>1. j \in 0 .. 63 /\ k \in 0 .. 63
    <3>1. Outer(w) \in 0 .. 63 /\ Inner(w) + Outer(w) \in 0 .. 63
      BY Rotations
    <3>2. \A n \in 0 .. 63 : (i + n) % 64 \in 0 .. 63
      OBVIOUS
    <3> QED BY <3>1, <3>2
  <2>2. <<p, q>> = <<j, k>> \/ <<p, q>> = <<k, j>>
    BY DEF Sigma, Inner, Outer
  <2>3. a \in Bit /\ b \in Bit /\ d \in Bit
    BY <1>1, <2>1 DEF Word
  <2>4. ROUND(s, c)[w][i] = IF w = 2 THEN 1 - Diffused(x[w], w)[i] ELSE Diffused(x[w], w)[i]
    BY DEF ROUND, Not
  <2>5. Diffused(x[w], w)[i] = xor(a, xor(b, d))
    BY <1>1, DiffusedBit
  <2>6. RoundSpec(s, c)[w][i] = xor(xor(y[w][i], y[w][p]), y[w][q])
    BY DEF RoundSpec
  <2>7. /\ y[w][i] = IF w = 2 THEN 1 - a ELSE a
        /\ y[w][j] = IF w = 2 THEN 1 - b ELSE b
        /\ y[w][k] = IF w = 2 THEN 1 - d ELSE d
    BY <1>2, <2>1
  <2>8. \A e, f, g \in Bit : /\ xor(e, xor(f, g)) = xor(xor(e, f), g)
                             /\ xor(e, xor(f, g)) = xor(xor(e, g), f)
                             /\ 1 - xor(e, xor(f, g)) = xor(xor(1 - e, 1 - f), 1 - g)
                             /\ 1 - xor(e, xor(f, g)) = xor(xor(1 - e, 1 - g), 1 - f)
    BY DEF Bit, xor
  <2> HIDE DEF x, y, j, k, p, q, a, b, d
  <2>9. \/ y[w][p] = y[w][j] /\ y[w][q] = y[w][k]
        \/ y[w][p] = y[w][k] /\ y[w][q] = y[w][j]
    BY <2>2
  <2>10. CASE w = 2
    BY <2>3, <2>4, <2>5, <2>6, <2>7, <2>8, <2>9, <2>10
  <2>11. CASE w # 2
    BY <2>3, <2>4, <2>5, <2>6, <2>7, <2>8, <2>9, <2>11
  <2> QED BY <2>10, <2>11
<1>4. \A w \in 0 .. 4 : /\ ROUND(s, c)[w] = [i \in 0 .. 63 |-> ROUND(s, c)[w][i]]
                        /\ RoundSpec(s, c)[w] = [i \in 0 .. 63 |-> RoundSpec(s, c)[w][i]]
  <2>1. \A w \in 0 .. 4 : ROUND(s, c)[w] \in Word
    BY RoundType DEF State
  <2> QED BY <2>1 DEF RoundSpec, Word
<1>5. \A w \in 0 .. 4 : ROUND(s, c)[w] = RoundSpec(s, c)[w]
  BY <1>3, <1>4
<1>6. /\ ROUND(s, c) = [w \in 0 .. 4 |-> ROUND(s, c)[w]]
      /\ RoundSpec(s, c) = [w \in 0 .. 4 |-> RoundSpec(s, c)[w]]
  BY DEF ROUND, RoundSpec
<1> QED BY <1>5, <1>6

-----------------------------------------------------------------------------
\* A byte of the keystream, and the sum of bytes.
LEMMA ByteType ==
  ASSUME NEW key \in DataKey
  PROVE  /\ \A la : \A b \in 0 .. 7 : ByteOf(ascon64b_stream(LaBits(la), key), b) \in Byte
         /\ \A x, y \in Byte : XorByte(x, y) \in Byte /\ XorByte(XorByte(x, y), y) = x
<1>1. \A la : ascon64b_stream(LaBits(la), key) \in Word
  BY StreamType, ConstantType
<1>2. \A b \in 0 .. 7 : \A k \in 0 .. 7 : 8 * b + k \in 0 .. 63
  OBVIOUS
<1>3. \A u \in Word : \A b \in 0 .. 7 : ByteOf(u, b) \in Byte
  BY <1>2 DEF ByteOf, Word, Byte
<1>4. ASSUME NEW x \in Byte, NEW y \in Byte
      PROVE  XorByte(x, y) \in Byte /\ XorByte(XorByte(x, y), y) = x
  <2>1. \A a, b \in Bit : xor(a, b) \in Bit /\ xor(xor(a, b), b) = a
    BY DEF Bit, xor
  <2>2. \A k \in 0 .. 7 : x[k] \in Bit /\ y[k] \in Bit
    BY DEF Byte
  <2>3. XorByte(x, y) \in Byte
    BY <2>1, <2>2 DEF XorByte, Byte
  <2>4. \A k \in 0 .. 7 : XorByte(x, y)[k] = xor(x[k], y[k])
    BY DEF XorByte
  <2>5. XorByte(XorByte(x, y), y) = [k \in 0 .. 7 |-> xor(xor(x[k], y[k]), y[k])]
    BY <2>4 DEF XorByte
  <2>6. x = [k \in 0 .. 7 |-> x[k]]
    BY DEF Byte
  <2> QED BY <2>1, <2>2, <2>3, <2>5, <2>6
<1> QED BY <1>1, <1>3, <1>4

\* get_countermode_mask writes the bytes that encrypt_decrypt_bytes reads, and for up to 64 bytes
\* it stays within the 64 + 8 bytes of countermode_mask_unaligned, whatever the alignment.
THEOREM MaskFits ==
  ASSUME NEW la \in Nat, NEW key, NEW size \in 1 .. 64
  PROVE  LET mask == get_countermode_mask(la, key, size)
         IN  /\ DOMAIN mask \subseteq 0 .. 64 + 8 - 1
             /\ \A i \in 0 .. size - 1 : i + (la % 8) \in DOMAIN mask
<1> DEFINE base   == 8 * (la \div 8)
           blocks == (la + size - base + 7) \div 8
<1>1. DOMAIN get_countermode_mask(la, key, size) = 0 .. 8 * blocks - 1
  BY DEF get_countermode_mask
<1>2. la - base = la % 8 /\ la % 8 \in 0 .. 7 /\ base \in Nat
  OBVIOUS
<1>3. blocks = ((la % 8) + size + 7) \div 8
  <2>1. la + size - base + 7 = (la % 8) + size + 7
    BY <1>2
  <2> QED BY <2>1
<1>4. \A r \in 0 .. 7 : \A n \in 1 .. 64 : /\ (r + n + 7) \div 8 \in Nat
                                           /\ 8 * ((r + n + 7) \div 8) <= 72
                                           /\ r + n <= 8 * ((r + n + 7) \div 8)
  OBVIOUS
<1>5. blocks \in Nat /\ 8 * blocks <= 72 /\ (la % 8) + size <= 8 * blocks
  BY <1>2, <1>3, <1>4
<1> HIDE DEF base, blocks
<1> QED BY <1>1, <1>2, <1>5

\* One call encrypts every byte with the keystream byte of its own address.
LEMMA BytesByAddress ==
  ASSUME NEW la \in Nat, NEW key, NEW size \in 1 .. 64, NEW input, NEW i \in 0 .. size - 1
  PROVE  encrypt_decrypt_bytes(la, key, input, size)[i] = XorByte(input[i], StreamAt(key, la + i))
<1> DEFINE base   == 8 * (la \div 8)
           blocks == (la + size - base + 7) \div 8
           mask   == get_countermode_mask(la, key, size)
           j      == i + (la % 8)
<1>1. j \in DOMAIN mask /\ DOMAIN mask = 0 .. 8 * blocks - 1
  BY MaskFits DEF get_countermode_mask
<1>2. mask[j] = ByteOf(ascon64b_stream(LaBits(base + 8 * (j \div 8)), key), j % 8)
  BY <1>1 DEF get_countermode_mask
<1>3. base + 8 * (j \div 8) = 8 * ((la + i) \div 8) /\ j % 8 = (la + i) % 8
  OBVIOUS
<1>4. encrypt_decrypt_bytes(la, key, input, size)[i] = XorByte(input[i], mask[j])
  BY DEF encrypt_decrypt_bytes
<1> QED BY <1>2, <1>3, <1>4 DEF StreamAt

\* encrypt_decrypt_many_bytes, which works in chunks of 64 bytes, encrypts every byte with the
\* keystream byte of its own address: how a buffer is cut into accesses makes no difference.
THEOREM ByAddress ==
  ASSUME NEW la \in Nat, NEW key, NEW size \in Nat, NEW input, NEW i \in 0 .. size - 1
  PROVE  encrypt_decrypt_many_bytes(la, key, input, size)[i] =
           XorByte(input[i], StreamAt(key, la + i))
<1> DEFINE c == 64 * (i \div 64)
           n == IF size - c > 64 THEN 64 ELSE size - c
           chunk == [j \in 0 .. n - 1 |-> input[c + j]]
<1>1. c \in Nat /\ c <= i /\ i < c + 64
  OBVIOUS
<1>2. n \in 1 .. 64 /\ i - c \in 0 .. n - 1
  <2> HIDE DEF c
  <2> QED BY <1>1
<1>3. encrypt_decrypt_many_bytes(la, key, input, size)[i] =
        encrypt_decrypt_bytes(la + c, key, chunk, n)[i - c]
  BY DEF encrypt_decrypt_many_bytes
<1> HIDE DEF c, n
<1>4. encrypt_decrypt_bytes(la + c, key, chunk, n)[i - c] =
        XorByte(chunk[i - c], StreamAt(key, (la + c) + (i - c)))
  <2>1. la + c \in Nat
    BY <1>1
  <2> HIDE DEF chunk
  <2> QED BY <1>2, <2>1, BytesByAddress
<1>5. chunk[i - c] = input[i] /\ (la + c) + (i - c) = la + i
  BY <1>1, <1>2
<1> QED BY <1>3, <1>4, <1>5

\* Encryption and decryption are the same function: applied twice at the same address under the
\* same key, encrypt_decrypt_many_bytes gives the data back.
THEOREM TwiceIsIdentity ==
  ASSUME NEW la \in Nat, NEW key \in DataKey, NEW size \in Nat, NEW input \in Buffer(size)
  PROVE  LET once == encrypt_decrypt_many_bytes(la, key, input, size)
         IN  encrypt_decrypt_many_bytes(la, key, once, size) = input
<1> DEFINE once  == encrypt_decrypt_many_bytes(la, key, input, size)
           twice == encrypt_decrypt_many_bytes(la, key, once, size)
<1>1. ASSUME NEW i \in 0 .. size - 1
      PROVE  twice[i] = input[i]
  <2>1. once[i] = XorByte(input[i], StreamAt(key, la + i))
    BY ByAddress
  <2>2. twice[i] = XorByte(once[i], StreamAt(key, la + i))
    <3> HIDE DEF once
    <3> QED BY ByAddress
  <2>3. input[i] \in Byte
    BY DEF Buffer
  <2>4. StreamAt(key, la + i) \in Byte
    <3>1. (la + i) % 8 \in 0 .. 7
      OBVIOUS
    <3> QED BY <3>1, ByteType DEF StreamAt
  <2> HIDE DEF once, twice
  <2> QED BY <2>1, <2>2, <2>3, <2>4, ByteType
<1>2. twice = [i \in 0 .. size - 1 |-> twice[i]]
  BY DEF encrypt_decrypt_many_bytes
<1>3. input = [i \in 0 .. size - 1 |-> input[i]]
  BY DEF Buffer
<1> HIDE DEF twice
<1>4. twice = input
  BY <1>1, <1>2, <1>3
<1> QED BY <1>4 DEF twice

\* encrypt_decrypt_u64, which takes a word apart into bytes and puts it together again, undoes
\* itself: the keys and the return addresses that pass through it come back unchanged.
THEOREM WordTwiceIsIdentity ==
  ASSUME NEW tweak \in Nat, NEW key \in DataKey, NEW val \in Word
  PROVE  encrypt_decrypt_u64(tweak, encrypt_decrypt_u64(tweak, val, key), key) = val
<1> DEFINE in(v)  == [b \in 0 .. 7 |-> ByteOf(v, b)]
           out(v) == encrypt_decrypt_bytes(tweak, key, in(v), 8)
           R      == encrypt_decrypt_u64(tweak, val, key)
           S(b)   == StreamAt(key, tweak + b)
<1>1. \A i \in 0 .. 63 : i \div 8 \in 0 .. 7 /\ i % 8 \in 0 .. 7 /\ 8 * (i \div 8) + (i % 8) = i
  OBVIOUS
<1>2. \A b, k \in 0 .. 7 : 8 * b + k \in 0 .. 63 /\ (8 * b + k) \div 8 = b /\ (8 * b + k) % 8 = k
  OBVIOUS
<1>3. \A b \in 0 .. 7 : S(b) \in Byte
  <2>1. \A b \in 0 .. 7 : (tweak + b) % 8 \in 0 .. 7
    OBVIOUS
  <2> QED BY <2>1, ByteType DEF StreamAt
<1>4. \A v : \A b \in 0 .. 7 : out(v)[b] = XorByte(ByteOf(v, b), S(b))
  <2> SUFFICES ASSUME NEW v, NEW b \in 0 .. 7
               PROVE  out(v)[b] = XorByte(ByteOf(v, b), S(b))
    OBVIOUS
  <2>1. out(v)[b] = XorByte(in(v)[b], S(b))
    <3> HIDE DEF in
    <3>1. b \in 0 .. 8 - 1 /\ 8 \in 1 .. 64
      OBVIOUS
    <3> QED BY <3>1, BytesByAddress
  <2> QED BY <2>1
<1>5. \A b \in 0 .. 7 : ByteOf(val, b) \in Byte
  BY <1>2 DEF ByteOf, Byte, Word
<1>6. \A v : \A i \in 0 .. 63 : encrypt_decrypt_u64(tweak, v, key)[i] = out(v)[i \div 8][i % 8]
  BY DEF encrypt_decrypt_u64, WordOf
<1> HIDE DEF in, out, S
<1>7. ASSUME NEW b \in 0 .. 7
      PROVE  ByteOf(R, b) = out(val)[b]
  <2>1. out(val)[b] \in Byte
    BY <1>3, <1>4, <1>5, ByteType
  <2>2. out(val)[b] = [k \in 0 .. 7 |-> out(val)[b][k]]
    BY <2>1 DEF Byte
  <2>3. \A k \in 0 .. 7 : R[8 * b + k] = out(val)[b][k]
    BY <1>2, <1>6
  <2> HIDE DEF R
  <2> QED BY <2>2, <2>3 DEF ByteOf
<1>8. ASSUME NEW b \in 0 .. 7
      PROVE  out(R)[b] = ByteOf(val, b)
  <2> HIDE DEF R
  <2> QED BY <1>3, <1>4, <1>5, <1>7, ByteType
<1>9. ASSUME NEW i \in 0 .. 63
      PROVE  encrypt_decrypt_u64(tweak, R, key)[i] = val[i]
  <2>1. encrypt_decrypt_u64(tweak, R, key)[i] = ByteOf(val, i \div 8)[i % 8]
    <3> HIDE DEF R
    <3> QED BY <1>1, <1>6, <1>8
  <2> QED BY <1>1, <2>1 DEF ByteOf
<1>10. encrypt_decrypt_u64(tweak, R, key) =
         [i \in 0 .. 63 |-> encrypt_decrypt_u64(tweak, R, key)[i]]
  BY DEF encrypt_decrypt_u64, WordOf
<1>11. val = [i \in 0 .. 63 |-> val[i]]
  BY DEF Word
<1> HIDE DEF R
<1>12. encrypt_decrypt_u64(tweak, R, key) = val
  BY <1>9, <1>10, <1>11
<1> QED BY <1>12 DEF R

\* What a tool encrypts with c3c_encrypt_decrypt_bytes it gets back the same way, whatever
\* part of the buffer the code takes to be in the slot, as long as the part is no longer than the
\* mask buffer (64 bytes).
THEOREM SwTwiceIsIdentity ==
  ASSUME NEW ca \in Nat, NEW key \in DataKey, NEW len \in Nat, NEW buf \in Buffer(len),
         NEW n \in 0 .. 64, n <= len
  PROVE  LET once == c3c_encrypt_decrypt_bytes(ca, key, buf, len, n)
         IN  c3c_encrypt_decrypt_bytes(ca, key, once, len, n) = buf
<1> DEFINE once  == c3c_encrypt_decrypt_bytes(ca, key, buf, len, n)
           twice == c3c_encrypt_decrypt_bytes(ca, key, once, len, n)
<1>1. ASSUME NEW i \in 0 .. len - 1
      PROVE  twice[i] = buf[i]
  <2>1. CASE i < n
    <3>1. i \in 0 .. n - 1 /\ n \in 1 .. 64
      BY <2>1
    <3>2. once[i] = XorByte(buf[i], StreamAt(key, ca + i))
      BY <2>1, <3>1, BytesByAddress DEF c3c_encrypt_decrypt_bytes, sw_encrypt_decrypt_bytes
    <3>3. twice[i] = XorByte(once[i], StreamAt(key, ca + i))
      <4> HIDE DEF once
      <4> QED BY <2>1, <3>1, BytesByAddress DEF c3c_encrypt_decrypt_bytes, sw_encrypt_decrypt_bytes
    <3>4. buf[i] \in Byte
      BY DEF Buffer
    <3>5. StreamAt(key, ca + i) \in Byte
      <4>1. (ca + i) % 8 \in 0 .. 7
        OBVIOUS
      <4> QED BY <4>1, ByteType DEF StreamAt
    <3> HIDE DEF once, twice
    <3> QED BY <3>2, <3>3, <3>4, <3>5, ByteType
  <2>2. CASE ~(i < n)
    BY <2>2 DEF c3c_encrypt_decrypt_bytes, sw_encrypt_decrypt_bytes
  <2> QED BY <2>1, <2>2
<1>2. twice = [i \in 0 .. len - 1 |-> twice[i]]
  BY DEF c3c_encrypt_decrypt_bytes, sw_encrypt_decrypt_bytes
<1>3. buf = [i \in 0 .. len - 1 |-> buf[i]]
  BY DEF Buffer
<1>4. twice = buf
  <2> HIDE DEF twice
  <2> QED BY <1>1, <1>2, <1>3
<1> QED BY <1>4

-----------------------------------------------------------------------------
(***************************************************************************)
(* What the three decoders of illegal instructions promise each other.     *)
(***************************************************************************)
\* What the answers of a decoder can be: no decoder claims more bytes than were fetched, one that
\* asks for more bytes asks for at least one that it does not have, so that decoding makes
\* progress, and an assertion (ptrencdec_isa.h:119) needs four bytes to fail.
THEOREM DecodersBounded ==
  ASSUME NEW d \in Decoders, NEW b \in Bytes
  PROVE  \/ Claims(d, b) /\ DecodeWith(d, b) <= b.size
         \/ DecodeWith(d, b) = 0
         \/ DecodeWith(d, b) \in -4 .. -1 /\ -DecodeWith(d, b) > b.size
         \/ DecodeWith(d, b) = ABORT /\ b.size >= 4
<1>1. b.size \in Nat /\ \A i \in 0 .. 3 : b.data[i] \in 0 .. 255
  BY DEF Bytes
<1>2. CASE d = "context"
  <2>1. DecodeWith(d, b) = context_decode(b)
    BY <1>2 DEF DecodeWith
  <2> QED BY <1>1, <2>1 DEF Claims, context_decode
<1>3. CASE d = "ptrencdec"
  <2>1. DecodeWith(d, b) = ptrencdec_decode(b)
    BY <1>3 DEF DecodeWith
  <2> QED BY <1>1, <2>1 DEF Claims, ptrencdec_decode
<1>4. CASE d = "integrity"
  <2>1. DecodeWith(d, b) = decode_cpu_bytes(b)
    BY <1>4 DEF DecodeWith
  <2> QED BY <1>1, <2>1 DEF Claims, decode_cpu_bytes
<1> QED BY <1>2, <1>3, <1>4 DEF Decoders

\* An answer other than a request for bytes is final: the bytes that follow do not change it.
THEOREM DecodersStable ==
  ASSUME NEW d \in Decoders, NEW b \in Bytes, NEW c \in Bytes, Extends(b, c),
         DecodeWith(d, c) \notin -4 .. -1
  PROVE  DecodeWith(d, b) = DecodeWith(d, c)
<1>1. /\ b.size \in Nat /\ c.size \in Nat /\ c.size <= b.size
      /\ \A i \in 0 .. 3 : i < c.size => b.data[i] = c.data[i]
  BY DEF Bytes, Extends
<1>2. c.size >= 4 => /\ HasRegisters(b) <=> HasRegisters(c)
                     /\ SameRegister(b) <=> SameRegister(c)
  <2> SUFFICES ASSUME c.size >= 4
               PROVE  xed_decode_register(b) = xed_decode_register(c)
    BY DEF HasRegisters, SameRegister, Registers
  <2>1. b.data[1] = c.data[1] /\ b.data[2] = c.data[2] /\ b.data[3] = c.data[3]
    BY <1>1
  <2> QED BY <2>1 DEF xed_decode_register, HasRexW, HasRex, RmOf, RegOf
<1>3. CASE d = "context"
  <2>1. DecodeWith(d, b) = context_decode(b) /\ DecodeWith(d, c) = context_decode(c)
    BY <1>3 DEF DecodeWith
  <2> QED BY <1>1, <2>1 DEF context_decode
<1>4. CASE d = "ptrencdec"
  <2>1. DecodeWith(d, b) = ptrencdec_decode(b) /\ DecodeWith(d, c) = ptrencdec_decode(c)
    BY <1>4 DEF DecodeWith
  <2> QED BY <1>1, <1>2, <2>1 DEF ptrencdec_decode
<1>5. CASE d = "integrity"
  <2>1. DecodeWith(d, b) = decode_cpu_bytes(b) /\ DecodeWith(d, c) = decode_cpu_bytes(c)
    BY <1>5 DEF DecodeWith
  <2> QED BY <1>1, <1>2, <2>1 DEF decode_cpu_bytes
<1> QED BY <1>3, <1>4, <1>5 DEF Decoders

\* No bytes are claimed by two decoders.  PtrencdecIsa and IntegrityIsa do not look at the second
\* byte before they ask XED, though, so that on a context instruction that an ADD, AND or SUB
\* of registers follows their assertions (ptrencdec_isa.h:119, integrity_isa.h:119) would end
\* the simulator.  These are the only bytes that one decoder claims and another cannot be shown:
\* on them, and on no others, the order in which the decoders are asked decides.
THEOREM ClaimsDisjoint ==
  ASSUME NEW b \in Bytes
  PROVE  /\ \A d, e \in Decoders : Claims(d, b) /\ Claims(e, b) => d = e
         /\ (\E d, e \in Decoders : Claims(d, b) /\ DecodeWith(e, b) = ABORT) <=> ContextThenAlu(b)
<1> DEFINE Add == /\ b.size >= 4 /\ b.data[0] = LOCK /\ b.data[2] = ADD /\ b.data[3] >= REGISTERS
           Icv == /\ b.size >= 4 /\ b.data[0] = LOCK
                  /\ \/ b.data[2] = SUB /\ b.data[3] = REGISTERS
                     \/ b.data[2] = AND /\ b.data[3] >= REGISTERS
           Ctx == b.size >= 2 /\ b.data[0] = LOCK /\ b.data[1] \in {SAVE, LOAD}
<1>1. b.size \in Nat /\ \A i \in 0 .. 3 : b.data[i] \in 0 .. 255
  BY DEF Bytes
<1>2. (Claims("context", b) <=> Ctx) /\ DecodeWith("context", b) # ABORT
  <2>1. DecodeWith("context", b) = context_decode(b)
    BY DEF DecodeWith
  <2> QED BY <1>1, <2>1 DEF Claims, context_decode, ABORT
<1>3. /\ Claims("ptrencdec", b) <=> Add /\ HasRegisters(b)
      /\ DecodeWith("ptrencdec", b) = ABORT <=> Add /\ ~HasRegisters(b)
  <2>1. DecodeWith("ptrencdec", b) = ptrencdec_decode(b)
    BY DEF DecodeWith
  <2> QED BY <1>1, <2>1 DEF Claims, ptrencdec_decode, ABORT, REGISTERS
<1>4. /\ Claims("integrity", b) => Icv /\ HasRegisters(b)
      /\ DecodeWith("integrity", b) = ABORT <=> Icv /\ ~HasRegisters(b)
  <2>1. DecodeWith("integrity", b) = decode_cpu_bytes(b)
    BY DEF DecodeWith
  <2> QED BY <1>1, <2>1 DEF Claims, decode_cpu_bytes, ABORT, REGISTERS, SUB, AND
<1>5. Ctx => ~HasRegisters(b)
  BY DEF HasRegisters, Registers, convert_xed_reg_to_simics, xed_decode_register, HasRexW, SAVE,
         LOAD
<1>6. ~(Add /\ Icv)
  BY DEF ADD, SUB, AND
<1>7. ContextThenAlu(b) <=> Ctx /\ (Add \/ Icv)
  BY <1>1 DEF ContextThenAlu
<1> HIDE DEF Add, Icv, Ctx
<1> QED BY <1>2, <1>3, <1>4, <1>5, <1>6, <1>7 DEF Decoders

\* A disassembly shows what runs: every disassembler gives its decoder's answer, for any bytes
\* and however few of them, and names the instruction whose emulation the decoder registers,
\* and none when it registers none; it ends the simulator on the bytes that its decoder ends it
\* on.
THEOREM DisassemblersAgree ==
  ASSUME NEW d \in Decoders, NEW b \in Bytes
  PROVE  Disassemble(d, b) = <<DecodeWith(d, b), IF Claims(d, b) THEN Inst(d, b) ELSE NULL>>
<1>1. b.size \in Nat /\ \A i \in 0 .. 3 : b.data[i] \in 0 .. 255
  BY DEF Bytes
<1>2. CASE d = "context"
  <2>1. /\ DecodeWith(d, b) = context_decode(b) /\ Inst(d, b) = context_inst(b)
        /\ Disassemble(d, b) = context_disassemble(b)
    BY <1>2 DEF DecodeWith, Inst, Disassemble
  <2> QED BY <1>1, <2>1 DEF Claims, context_decode, context_disassemble, context_inst, SAVE, LOAD
<1>3. CASE d = "ptrencdec"
  <2>1. /\ DecodeWith(d, b) = ptrencdec_decode(b) /\ Inst(d, b) = ptrencdec_inst(b)
        /\ Disassemble(d, b) = ptrencdec_disassemble(b)
    BY <1>3 DEF DecodeWith, Inst, Disassemble
  <2> QED BY <1>1, <2>1 DEF Claims, ptrencdec_decode, ptrencdec_disassemble, ptrencdec_inst,
                            REGISTERS, ABORT
<1>4. CASE d = "integrity"
  <2>1. /\ DecodeWith(d, b) = decode_cpu_bytes(b) /\ Inst(d, b) = integrity_inst(b)
        /\ Disassemble(d, b) = integrity_disassemble(b)
    BY <1>4 DEF DecodeWith, Inst, Disassemble
  <2>2. decode_cpu_bytes(b) \in {2, 4} <=> decode_cpu_bytes(b) = 4
    BY <1>1 DEF decode_cpu_bytes, ABORT
  <2> QED BY <2>1, <2>2 DEF Claims, integrity_disassemble
<1> QED BY <1>2, <1>3, <1>4 DEF Decoders

\* Library and simulator agree: whatever follows the bytes of a function of c3lib, the decoder
\* they are meant for claims just them, takes them for the instruction they are meant to be and
\* finds the operands where the function put them; and no other decoder claims the four bytes of
\* a pointer or ICV instruction.
THEOREM LibraryReachesDecoder ==
  ASSUME NEW b \in Bytes
  PROVE  /\ StartsWith(b, cc_save_context) =>
              context_decode(b) = 2 /\ context_inst(b) = "cc_ctx_save"
         /\ StartsWith(b, cc_load_context) =>
              context_decode(b) = 2 /\ context_inst(b) = "cc_ctx_load"
         /\ StartsWith(b, cc_isa_encptr) =>
              /\ ptrencdec_decode(b) = 4 /\ context_decode(b) = 0 /\ decode_cpu_bytes(b) = 0
              /\ ptrencdec_inst(b) = "ccptrenc" /\ Registers(b) = <<RAX, RCX>>
         /\ StartsWith(b, cc_isa_decptr) =>
              /\ ptrencdec_decode(b) = 4 /\ context_decode(b) = 0 /\ decode_cpu_bytes(b) = 0
              /\ ptrencdec_inst(b) = "ccptrdec" /\ Registers(b) = <<RAX, RAX>>
         /\ StartsWith(b, cc_isa_invicv) =>
              /\ decode_cpu_bytes(b) = 4 /\ context_decode(b) = 0 /\ ptrencdec_decode(b) = 0
              /\ integrity_inst(b) = "invicv" /\ Registers(b) = <<RAX, RAX>>
         /\ StartsWith(b, cc_isa_initicv) =>
              /\ decode_cpu_bytes(b) = 4 /\ context_decode(b) = 0 /\ ptrencdec_decode(b) = 0
              /\ integrity_inst(b) = "initicv" /\ Registers(b) = <<RAX, RCX>>
         /\ StartsWith(b, cc_isa_preiniticv) =>
              /\ decode_cpu_bytes(b) = 4 /\ context_decode(b) = 0 /\ ptrencdec_decode(b) = 0
              /\ integrity_inst(b) = "preiniticv" /\ Registers(b) = <<RAX, RAX>>
<1>1. b.size \in Nat
  BY DEF Bytes
<1>2. ASSUME NEW x, NEW y, StartsWith(b, <<x, y>>)
      PROVE  b.size >= 2 /\ b.data[0] = x /\ b.data[1] = y
  BY <1>1, <1>2 DEF StartsWith
<1>3. ASSUME NEW x, NEW y, NEW z, NEW w, StartsWith(b, <<x, y, z, w>>)
      PROVE  b.size >= 4 /\ b.data[0] = x /\ b.data[1] = y /\ b.data[2] = z /\ b.data[3] = w
  <2>1. \A i \in 1 .. 4 : b.data[i - 1] = <<x, y, z, w>>[i]
    BY <1>3 DEF StartsWith
  <2>2. b.data[1 - 1] = x /\ b.data[2 - 1] = y /\ b.data[3 - 1] = z /\ b.data[4 - 1] = w
    BY <2>1
  <2> QED BY <1>1, <1>3, <2>2 DEF StartsWith
<1> USE DEF context_decode, ptrencdec_decode, decode_cpu_bytes, LOCK, SAVE, LOAD, ADD, SUB, AND,
            REGISTERS
<1> DEFINE Is(z, w) == /\ b.size >= 4 /\ b.data[0] = LOCK /\ b.data[1] = 72
                       /\ b.data[2] = z /\ b.data[3] = w
<1>4. \A z, w : Is(z, w) => context_decode(b) = 0
  BY <1>1
<1>5. \A z : Is(z, 192) /\ z \in {ADD, SUB, AND} => Registers(b) = <<RAX, RAX>> /\ HasRegisters(b)
  <2>1. \A z : Is(z, 192) /\ z \in {ADD, SUB, AND} => Registers(b) = <<RAX, RAX>>
    BY DEF Registers, xed_decode_register, HasRexW, RmOf, RegOf, convert_xed_reg_to_simics, RAX
  <2> QED BY <2>1 DEF HasRegisters, NoRegister, RAX
<1>6. \A z : Is(z, 200) /\ z \in {ADD, AND} => Registers(b) = <<RAX, RCX>> /\ HasRegisters(b)
  <2>1. \A z : Is(z, 200) /\ z \in {ADD, AND} => Registers(b) = <<RAX, RCX>>
    BY DEF Registers, xed_decode_register, HasRexW, RmOf, RegOf, convert_xed_reg_to_simics, RAX,
           RCX
  <2> QED BY <2>1 DEF HasRegisters, NoRegister, RAX, RCX
<1>7. Is(ADD, 200) => /\ ptrencdec_decode(b) = 4 /\ decode_cpu_bytes(b) = 0
                      /\ ptrencdec_inst(b) = "ccptrenc"
  BY <1>1, <1>6 DEF ptrencdec_inst, SameRegister, RAX, RCX
<1>8. Is(ADD, 192) => /\ ptrencdec_decode(b) = 4 /\ decode_cpu_bytes(b) = 0
                      /\ ptrencdec_inst(b) = "ccptrdec"
  BY <1>1, <1>5 DEF ptrencdec_inst, SameRegister
<1>9. Is(SUB, 192) => /\ decode_cpu_bytes(b) = 4 /\ ptrencdec_decode(b) = 0
                      /\ integrity_inst(b) = "invicv"
  BY <1>1, <1>5 DEF integrity_inst, SameRegister
<1>10. Is(AND, 200) => /\ decode_cpu_bytes(b) = 4 /\ ptrencdec_decode(b) = 0
                       /\ integrity_inst(b) = "initicv"
  BY <1>1, <1>6 DEF integrity_inst, SameRegister, RAX, RCX
<1>11. Is(AND, 192) => /\ decode_cpu_bytes(b) = 4 /\ ptrencdec_decode(b) = 0
                       /\ integrity_inst(b) = "preiniticv"
  BY <1>1, <1>5 DEF integrity_inst, SameRegister
<1>12. /\ StartsWith(b, cc_isa_encptr) => Is(ADD, 200)
       /\ StartsWith(b, cc_isa_decptr) => Is(ADD, 192)
       /\ StartsWith(b, cc_isa_invicv) => Is(SUB, 192)
       /\ StartsWith(b, cc_isa_initicv) => Is(AND, 200)
       /\ StartsWith(b, cc_isa_preiniticv) => Is(AND, 192)
  BY <1>3 DEF cc_isa_encptr, cc_isa_decptr, cc_isa_invicv, cc_isa_initicv, cc_isa_preiniticv
<1>13. /\ StartsWith(b, cc_save_context) =>
            context_decode(b) = 2 /\ context_inst(b) = "cc_ctx_save"
       /\ StartsWith(b, cc_load_context) =>
            context_decode(b) = 2 /\ context_inst(b) = "cc_ctx_load"
  BY <1>1, <1>2 DEF cc_save_context, cc_load_context, context_inst
<1> HIDE DEF context_decode, ptrencdec_decode, decode_cpu_bytes, Is
<1> QED BY <1>4, <1>5, <1>6, <1>7, <1>8, <1>9, <1>10, <1>11, <1>12, <1>13

\* CaStack never sees a JMP RDX for one: it asks for three bytes before it compares two.
THEOREM JmpRdxNotRecognised ==
  ASSUME NEW b \in Bytes, IsJmpRdx(b)
  PROVE  decode_opcode(b) = "OTHER"
  BY DEF IsJmpRdx, decode_opcode
=============================================================================
