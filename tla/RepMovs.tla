------------------------------- MODULE RepMovs -------------------------------
(***************************************************************************)
(* Copies that keep tripwires: the prefixed REP MOVSB of                   *)
(* modules/common/ccsimics/rep_movsb_tripwire.h, the copyICVs of           *)
(* integrity.h it ends in, and the cc_icv_memcpy and cc_icv_memmove of     *)
(* c3lib that issue it.                                                    *)
(*                                                                         *)
(* A tripwire is a granule whose ICV is ~0 and whose data is a magic       *)
(* value.  The emulation callback remembers the registers, suppresses some *)
(* ICV faults and lets the CPU copy byte by byte; the after-callback of    *)
(* the next instruction that completes -- whichever it is -- then rewrites *)
(* the destination's ICVs.  A page fault or an interrupt in the middle     *)
(* makes that an instruction of the handler, and the copy is resumed later *)
(* with the registers as far as it got.                                    *)
(*                                                                         *)
(* The ICV lock is closed, write mismatches fault and read mismatches do   *)
(* not: the defaults.                                                      *)
(***************************************************************************)
EXTENDS Integers, FiniteSets

CONSTANTS G,          \* bytes per granule (8)
          Granule,    \* granule numbers
          Buffer,     \* tag -> the bytes of the buffer allocated with it
          LA,         \* the tag of a pointer that is not encoded
          Inv,        \* the ICV ~0
          MaxN,       \* bound: bytes of a copy
          MaxCopies   \* bound: copies started

Tags == DOMAIN Buffer

Byte == UNION {G * g .. G * g + G - 1 : g \in Granule}

ASSUME RepMovsAssumption ==
  /\ G \in Nat \ {0} /\ Granule \subseteq Int
  /\ \A t \in Tags : Buffer[t] \subseteq Byte
  /\ LA \notin Tags /\ Inv \notin Tags /\ LA # Inv
  /\ MaxN \in Nat /\ MaxCopies \in Nat

VARIABLES
  icv,             \* granule -> tag of its ICV, LA for 0, Inv for ~0
  data,            \* byte -> <<tag, j>> if it is byte j of the magic value under tag
  icv_enabled,
  suppress_mode,   \* integrity_suppress_mode_
  fixup,           \* fixup_dst_icvs_
  fixup_vals,      \* fixup_dst_icvs_vals_
  exec,            \* the REP MOVSB in execution, or None
  resume,          \* the rest of an interrupted one, or None
  job,             \* history: the copy that exec or resume belong to
  interrupted,     \* history: that copy was interrupted before its last byte
  icv_fault,       \* history: that copy took an ICV fault
  copies

vars == <<icv, data, icv_enabled, suppress_mode, fixup, fixup_vals, exec, resume, job,
          interrupted, icv_fault, copies>>

Move(mode, dst, src, n, back) ==
  [mode |-> mode, dst |-> dst, src |-> src, n |-> n, back |-> back]

None == Move("NONE", [tag |-> LA, la |-> 0], [tag |-> LA, la |-> 0], 0, FALSE)

\* What a REP MOVSB copies: upwards from the pointers, or downwards with DF set.
Range(p, n, back) == IF back THEN p.la - n + 1 .. p.la ELSE p.la .. p.la + n - 1

GranulesOf(bytes) == {b \div G : b \in bytes}

-----------------------------------------------------------------------------
(***************************************************************************)
(* copyICVs.  The number of entries of an area is taken between its ends   *)
(* rounded outwards; a backward area is [la - n, la).                      *)
(***************************************************************************)
Down(a) == a \div G

Up(a) == (a + G - 1) \div G

icv_n(la, n, back) == IF back THEN Up(la) - Down(la - n) ELSE Up(la + n) - Down(la)

la_to_icv_i(la, i, back) == IF back THEN Down(la - i * G) ELSE Down(la + i * G)

\* A bug: tripwires of the source are not carried over.
dst_to_icv_plain(dst, old_icv) == dst.tag

dst_to_icv(dst, old_icv) == IF dst.tag # LA /\ old_icv = Inv THEN Inv ELSE dst.tag

\* The entry i of the destination gets what becomes of the entry i of the source.
CopyEntry(m, dst, src, back, i) ==
  [m EXCEPT ![la_to_icv_i(dst.la, i, back)] =
     dst_to_icv(dst, m[la_to_icv_i(src.la, i, back)])]

\* Entry by entry, so an overlapping copy sees the ICVs it has already written.
CopyEntries(m, dst, src, back, k) ==
  LET f[i \in 0 .. k] == IF i = 0 THEN m ELSE CopyEntry(f[i - 1], dst, src, back, i - 1)
  IN  f[k]

\* A bug: one entry too many at the end of an upward copy.
copyICVs_extra(m, dst, src, n, back) ==
  CopyEntries(m, dst, src, back, icv_n(src.la, n, back) + (IF back THEN 0 ELSE 1))

\* When the destination has an entry more, it gets that of the granule before the source.
copyICVs(m, dst, src, n, back) ==
  LET src_n == icv_n(src.la, n, back)
      dst_n == icv_n(dst.la, n, back)
      done  == CopyEntries(m, dst, src, back, IF src_n < dst_n THEN src_n ELSE dst_n)
  IN  IF src_n >= dst_n THEN done
      ELSE [done EXCEPT ![la_to_icv_i(dst.la, src_n, back)] =
              dst_to_icv(dst, done[la_to_icv_i(src.la, 1, ~back)])]

-----------------------------------------------------------------------------
\* A bug: the suppress mode outlives the copy.
instruction_after_keeps ==
  IF fixup
  THEN /\ icv' = copyICVs(icv, fixup_vals.dst, fixup_vals.src, fixup_vals.n, fixup_vals.back)
       /\ fixup' = FALSE /\ UNCHANGED suppress_mode
  ELSE UNCHANGED <<icv, fixup, suppress_mode>>

\* instruction_after_cb, at the end of every instruction that completes.
instruction_after_cb ==
  IF fixup
  THEN /\ icv' = copyICVs(icv, fixup_vals.dst, fixup_vals.src, fixup_vals.n, fixup_vals.back)
       /\ fixup' = FALSE /\ suppress_mode' = "NONE"
  ELSE UNCHANGED <<icv, fixup, suppress_mode>>

\* A bug: the ICVs are copied before the data.
emul_prefix_rep_movs_eager(i) ==
  IF icv_enabled
  THEN /\ icv' = copyICVs(icv, i.dst, i.src, i.n, i.back)
       /\ fixup' = TRUE /\ fixup_vals' = i /\ suppress_mode' = i.mode
  ELSE UNCHANGED <<icv, fixup, fixup_vals, suppress_mode>>

\* A bug: the registers are only remembered for strict copies.
emul_prefix_rep_movs_stale(i) ==
  IF icv_enabled
  THEN /\ fixup' = TRUE /\ suppress_mode' = i.mode
       /\ fixup_vals' = IF i.mode = "STRICT" THEN i ELSE fixup_vals
       /\ UNCHANGED icv
  ELSE UNCHANGED <<icv, fixup, fixup_vals, suppress_mode>>

\* emul_ds_rep_movs and emul_es_rep_movs; the CPU's own semantics follow.
emul_prefix_rep_movs(i) ==
  IF icv_enabled
  THEN fixup' = TRUE /\ fixup_vals' = i /\ suppress_mode' = i.mode /\ UNCHANGED icv
  ELSE UNCHANGED <<icv, fixup, fixup_vals, suppress_mode>>

Start(i) ==
  /\ exec = None
  /\ exec' = i
  /\ emul_prefix_rep_movs(i)
  /\ UNCHANGED <<data, icv_enabled>>

-----------------------------------------------------------------------------
\* The bytes the next iteration reads and writes.
IsTripwire(tag, g) == \A j \in 0 .. G - 1 : data[G * g + j] = <<tag, j>>

\* check_icv of the write, with the permissive mode's exception.
WriteOk(p) ==
  \/ ~icv_enabled
  \/ icv[Down(p.la)] = p.tag
  \/ p.tag # LA /\ suppress_mode = "PERMISSIVE" /\ IsTripwire(p.tag, Down(p.la))

\* Reading through another tag than the data's own yields no magic value.
Copied(dst, src) ==
  LET d == data[src.la]
  IN  IF d # <<>> /\ d[1] = src.tag THEN <<dst.tag, d[2]>> ELSE <<>>

Rest(i) ==
  LET step(p) == [p EXCEPT !.la = IF i.back THEN @ - 1 ELSE @ + 1]
  IN  [i EXCEPT !.dst = step(@), !.src = step(@), !.n = @ - 1]

\* One iteration of the CPU's REP MOVSB.
MoveByte ==
  /\ exec # None /\ exec.n > 0
  /\ WriteOk(exec.dst)
  /\ data' = [data EXCEPT ![exec.dst.la] = Copied(exec.dst, exec.src)]
  /\ exec' = Rest(exec)
  /\ UNCHANGED <<icv, icv_enabled, suppress_mode, fixup, fixup_vals, resume, job,
                 interrupted, icv_fault, copies>>

\* gp_fault on the write; the program is not resumed.
IcvFault ==
  /\ exec # None /\ exec.n > 0
  /\ ~WriteOk(exec.dst)
  /\ exec' = None
  /\ icv_fault' = TRUE
  /\ UNCHANGED <<icv, data, icv_enabled, suppress_mode, fixup, fixup_vals, resume, job,
                 interrupted, copies>>

\* A page fault or an interrupt between two iterations: no after-callback.
Interrupt ==
  /\ exec # None /\ exec.n > 0
  /\ resume' = exec /\ exec' = None
  /\ interrupted' = TRUE
  /\ UNCHANGED <<icv, data, icv_enabled, suppress_mode, fixup, fixup_vals, job, icv_fault,
                 copies>>

Complete ==
  /\ exec # None /\ exec.n = 0
  /\ instruction_after_cb
  /\ exec' = None
  /\ UNCHANGED <<data, icv_enabled, fixup_vals, resume, job, interrupted, icv_fault, copies>>

\* Any other instruction, of a handler for one, completes.  A program may load a context
\* that turns ICVs on or off; a handler leaves the interrupted program's context as it was.
Other(enabled) ==
  /\ exec = None
  /\ resume = None \/ enabled = icv_enabled
  /\ icv_enabled' = enabled
  /\ instruction_after_cb
  /\ UNCHANGED <<data, fixup_vals, exec, resume, job, interrupted, icv_fault, copies>>

\* The handler has run (at least its return instruction) and the copy goes on.
Resume ==
  /\ resume # None /\ ~fixup
  /\ Start(resume)
  /\ resume' = None
  /\ UNCHANGED <<job, interrupted, icv_fault, copies>>

-----------------------------------------------------------------------------
Shifted(p, k) == [p EXCEPT !.la = @ + k]

\* cc_icv_memcpy and its permissive form
cc_icv_memcpy(mode, dst, src, n) == Move(mode, dst, src, n, FALSE)

\* What dst > src may be: encoded pointers are compared as they are, so two of one buffer in
\* order, and two of different buffers by their encrypted bits, either way.
Above(dst, src) == IF dst.tag = src.tag THEN {dst.la > src.la} ELSE BOOLEAN

\* cc_icv_memmove and its permissive form
cc_icv_memmove(mode, dst, src, n, above) ==
  IF above
  THEN Move(mode, Shifted(dst, n - 1), Shifted(src, n - 1), n, TRUE)
  ELSE Move(mode, dst, src, n, FALSE)

\* The instructions that a copy may come down to.
Issued(mode, dst, src, n) ==
  {cc_icv_memcpy(mode, dst, src, n)} \cup
  {cc_icv_memmove(mode, dst, src, n, above) : above \in Above(dst, src)}

\* A correct program: source and destination inside buffers of their tags, and the
\* destination writable.
Valid(dst, src, n) ==
  /\ dst.la .. dst.la + n - 1 \subseteq Buffer[dst.tag]
  /\ src.la .. src.la + n - 1 \subseteq Buffer[src.tag]
  /\ \A g \in GranulesOf(dst.la .. dst.la + n - 1) : icv[g] = dst.tag

Ptr == UNION {[tag : {t}, la : Buffer[t]] : t \in Tags}

Copy(mode, dst, src, n) ==
  /\ copies < MaxCopies /\ resume = None /\ ~fixup
  /\ Valid(dst, src, n)
  /\ \E i \in Issued(mode, dst, src, n) : Start(i) /\ job' = i
  /\ copies' = copies + 1
  /\ interrupted' = FALSE /\ icv_fault' = FALSE
  /\ UNCHANGED resume

\* Buffers are tagged; any granules inside them may be tripwires.  Nothing initialises
\* the suppress mode.
Init ==
  /\ \E trip \in SUBSET {g \in Granule :
                           \E t \in Tags : G * g .. G * g + G - 1 \subseteq Buffer[t]} :
       LET tag(b) == IF \E t \in Tags : b \in Buffer[t]
                     THEN CHOOSE t \in Tags : b \in Buffer[t] ELSE LA
       IN  /\ icv = [g \in Granule |-> IF g \in trip THEN Inv ELSE tag(G * g)]
           /\ data = [b \in Byte |-> IF Down(b) \in trip THEN <<tag(b), b % G>> ELSE <<>>]
  /\ icv_enabled = TRUE
  /\ suppress_mode \in {"NONE", "STRICT", "PERMISSIVE"}
  /\ fixup = FALSE /\ fixup_vals = None
  /\ exec = None /\ resume = None /\ job = None
  /\ interrupted = FALSE /\ icv_fault = FALSE
  /\ copies = 0

Next ==
  \/ \E mode \in {"STRICT", "PERMISSIVE"}, dst, src \in Ptr, n \in 0 .. MaxN :
       Copy(mode, dst, src, n)
  \/ MoveByte
  \/ IcvFault
  \/ Interrupt
  \/ Complete
  \/ \E enabled \in BOOLEAN : Other(enabled)
  \/ Resume

\* The CPU goes on executing instructions.
Spec == Init /\ [][Next]_vars /\ WF_vars(MoveByte \/ IcvFault \/ Complete \/ Other(icv_enabled))

-----------------------------------------------------------------------------
Modes == {"NONE", "STRICT", "PERMISSIVE"}

Moves == [mode : Modes, dst : [tag : Tags \cup {LA}, la : Int],
          src : [tag : Tags \cup {LA}, la : Int], n : 0 .. MaxN, back : BOOLEAN]

\* The types of the state; a pending fix-up holds the registers of a real copy.
TypeOK ==
  /\ icv \in [Granule -> Tags \cup {LA, Inv}]
  /\ data \in [Byte -> (Tags \X (0 .. G - 1)) \cup {<<>>}]
  /\ icv_enabled \in BOOLEAN /\ suppress_mode \in Modes
  /\ {exec, resume, job, fixup_vals} \subseteq Moves
  /\ fixup \in BOOLEAN /\ (fixup => fixup_vals.mode # "NONE")
  /\ interrupted \in BOOLEAN /\ icv_fault \in BOOLEAN
  /\ copies \in 0 .. MaxCopies

\* Whatever instruction applies the fix-up of an upward copy of at least one byte
\* (rep_movsb_tripwire.h:189), it writes ICVs only of granules the copy itself writes: the
\* granules on either side keep the ICVs of their own allocations.
NeighboursKept ==
  [][fixup /\ ~fixup' /\ ~fixup_vals.back /\ fixup_vals.n > 0
       => \A g \in Granule \ GranulesOf(Range(fixup_vals.dst, fixup_vals.n, FALSE)) :
            icv'[g] = icv[g]]_vars

\* When an upward copy between equally aligned, separate areas is over -- also one that was
\* interrupted, had its ICVs fixed up by the handler and was resumed -- the granules of the
\* destination are tripwires exactly where those of the source are, and usable with the
\* destination's pointer elsewhere (integrity.h:405).
TripwiresCopied ==
  [][LET srcs == GranulesOf(Range(job.src, job.n, FALSE))
         dsts == GranulesOf(Range(job.dst, job.n, FALSE))
         off  == Down(job.dst.la) - Down(job.src.la)
     IN  /\ exec # None /\ exec' = None /\ exec.n = 0 /\ fixup
         /\ job.n > 0 /\ ~job.back /\ (job.dst.la - job.src.la) % G = 0 /\ srcs \cap dsts = {}
         => \A g \in srcs : icv'[g + off] = IF icv[g] = Inv THEN Inv ELSE job.dst.tag]_vars

\* A copy that runs to its end in one go into a writable destination takes no ICV fault, for
\* all the tripwires in its source: the destination's ICVs change only after the last byte
\* (icv_rep_movs_modes.cpp:47).  Only one the handler's first instruction overtook can.
IcvFaultNeedsInterrupt == icv_fault => interrupted

\* A pending fix-up is applied and the suppressed ICV faults come back, even when the copy is
\* interrupted or faults before its own after-callback.
FixupApplied == fixup ~> (~fixup /\ suppress_mode = "NONE")
=============================================================================
