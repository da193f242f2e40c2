------------------------------ MODULE CcMalloc ------------------------------
(***************************************************************************)
(* The encoding allocator of malloc/cc_malloc.c on top of an external      *)
(* allocator (REAL_MALLOC, REAL_FREE, MALLOC_USABLE_SIZE), built with      *)
(* CC_ICV_ENABLE: versions, the quarantine of freed blocks, and the ICVs   *)
(* that c3lib/c3/generic/icv.h sets on allocation and clears on free.      *)
(*                                                                         *)
(* The heap is a set of equal, aligned blocks of Granules granules; the    *)
(* external allocator hands out any free one.  An ICV is the version of    *)
(* the CA it was set through, or LA (0).  Setting ICVs opens the ICV lock, *)
(* rewrites the range and closes the lock again, all within one call.      *)
(* Callers free or reallocate only what they hold.                         *)
(***************************************************************************)
EXTENDS Integers, FiniteSets

CONSTANTS Block,             \* blocks of the external allocator
          Boxable,           \* those that try_box can encode
          Null,              \* no block
          LA,                \* the ICV of untagged memory
          SlotSize,          \* bytes of a granule
          Granules,          \* granules of a block
          Sizes,             \* the sizes callers ask for, in bytes
          Versions,          \* number of versions before curr_version wraps
          QUARANTINE_WIDTH, QUARANTINE_DEPTH,
          Detect1B,          \* CC_DETECT_1B_OVF
          FaultOnRead        \* integrity_fault_on_read_mismatch

ASSUME MallocAssumption ==
  /\ Boxable \subseteq Block /\ Null \notin Block
  /\ SlotSize \in Nat \ {0} /\ Granules \in Nat \ {0}
  /\ Sizes \subseteq 1 .. SlotSize * Granules
  /\ Versions \in Nat \ {0} /\ LA \notin 0 .. Versions - 1
  /\ QUARANTINE_WIDTH \in Nat \ {0} /\ QUARANTINE_DEPTH \in Nat \ {0}
  /\ Detect1B \in BOOLEAN /\ FaultOnRead \in BOOLEAN

VARIABLES
  real,              \* blocks the external allocator has handed out
  live,              \* block -> the pointer a caller holds to it
  icv,               \* block -> granule -> ICV
  curr_version,
  cc_quarantine_enabled,
  quarantine_buffers,
  quarantine_current_buffer,
  quarantine_current_index,
  born,              \* history: block -> versions assigned since its pointer's
  dangling,          \* history: freed pointers whose version was not reassigned yet
  age,               \* history: block -> frees since the one that quarantined it
  dead               \* the process took a #GP

qvars == <<quarantine_buffers, quarantine_current_buffer, quarantine_current_index, age>>
vvars == <<curr_version, born, dangling>>
vars == <<real, live, icv, cc_quarantine_enabled, qvars, vvars, dead>>

Version == 0 .. Versions - 1
Tag     == Version \cup {LA}
Usable  == SlotSize * Granules
Granule == 0 .. Granules - 1

NoPtr   == [tag |-> LA, size |-> 0]
Pointer == [tag : Tag, size : Sizes]

Clear == [i \in Granule |-> LA]

\* The bytes of the block that cc_setup_icv_for_alloc skips to align the end.
Shift(size) ==
  IF Detect1B /\ size % SlotSize # 0 THEN SlotSize - (size % SlotSize) ELSE 0

\* The granules, one past the block included, that n bytes from offset `from` touch.
Overlap(from, n) ==
  {i \in 0 .. Granules : i * SlotSize < from + n /\ (i + 1) * SlotSize > from}

\* The ICVs after cc_set_icv over the requested or the usable size.
SetUp(p) ==
  [i \in Granule |-> IF ~Detect1B \/ i \in Overlap(Shift(p.size), p.size) THEN p.tag ELSE LA]

\* The tag of a new pointer to the block: try_box decides.
NewTag(b) == IF b \in Boxable THEN curr_version ELSE LA

\* History: every version assigned ages the pointers issued before; at age Versions
\* their version is up for reuse.
Aged(ptrs) ==
  {[d EXCEPT !.age = d.age + 1] : d \in {e \in ptrs : e.age + 1 < Versions}}

Issue(b, gone) ==
  /\ born' = [c \in Block |-> IF c = b THEN 0
                              ELSE IF born[c] < Versions THEN born[c] + 1 ELSE Versions]
  /\ dangling' = Aged(dangling \cup gone)

\* A bug: every pointer gets the same version.
assign_version_stuck(b, gone) ==
  IF b \in Boxable
  THEN UNCHANGED curr_version /\ Issue(b, gone)
  ELSE dangling' = dangling \cup gone /\ UNCHANGED <<curr_version, born>>

\* try_box and assign_version for block b while the pointers in `gone` are given up.
assign_version(b, gone) ==
  IF b \in Boxable
  THEN curr_version' = (curr_version + 1) % Versions /\ Issue(b, gone)
  ELSE dangling' = dangling \cup gone /\ UNCHANGED <<curr_version, born>>

\* The pointer to b as a dangling one, unless its version is up for reuse anyway.
PointerTo(b) ==
  IF live[b].tag # LA /\ born[b] < Versions
  THEN {[block |-> b, tag |-> live[b].tag, age |-> born[b]]} ELSE {}

\* A bug: only the block's first granule is cleared.
clear_icv_first_granule(icvs, blocks) ==
  [b \in Block |-> IF b \in blocks THEN [icvs[b] EXCEPT ![0] = LA] ELSE icvs[b]]

\* cc_pre_real_free_clear_icv, for each of `blocks`.
cc_pre_real_free_clear_icv(icvs, blocks) ==
  [b \in Block |-> IF b \in blocks THEN Clear ELSE icvs[b]]

-----------------------------------------------------------------------------
\* cc_malloc_encoded and cc_calloc_encoded; on NULL from REAL_MALLOC nothing changes.
Malloc(b, size) ==
  LET p == [tag |-> NewTag(b), size |-> size]
  IN  /\ ~dead /\ b \notin real
      /\ real' = real \cup {b}
      /\ assign_version(b, {})
      /\ live' = [live EXCEPT ![b] = p]
      /\ icv' = [icv EXCEPT ![b] = SetUp(p)]
      /\ UNCHANGED <<cc_quarantine_enabled, qvars, dead>>

(***************************************************************************)
(* What cc_realloc_encoded takes for the size of the old block: its usable *)
(* size.  For a pointer that is not encoded the caller's pointer itself is *)
(* handed to MALLOC_USABLE_SIZE; if it was shifted, what that reads is not *)
(* a chunk header and the answer is arbitrary.                             *)
(***************************************************************************)
SizeOld(p) == IF p.tag = LA /\ Shift(p.size) # 0 THEN 0 .. Usable ELSE {Usable}

\* The copy of n bytes reads nothing that is not tagged with the old pointer's tag.
CopyOk(o, n) ==
  \A i \in Overlap(Shift(live[o].size), n) : i \in Granule /\ icv[o][i] = live[o].tag

Smaller(m, n) == IF m < n THEN m ELSE n

(***************************************************************************)
(* cc_realloc_encoded of a held block o (of NULL it is a Malloc).  The old *)
(* block is returned at once, without quarantine.  If the copy faults, the *)
(* process ends with the new block set up and the old one still its own.   *)
(***************************************************************************)
Realloc(o, b, size) ==
  LET p  == [tag |-> NewTag(b), size |-> size]
      up == [icv EXCEPT ![b] = SetUp(p)]
  IN  /\ ~dead /\ b \notin real /\ live[o] # NoPtr
      /\ \E old \in SizeOld(live[o]) :
           \/ /\ CopyOk(o, Smaller(size, old)) \/ ~FaultOnRead
              /\ assign_version(b, PointerTo(o))
              /\ real' = (real \cup {b}) \ {o}
              /\ live' = [live EXCEPT ![b] = p, ![o] = NoPtr]
              /\ icv' = cc_pre_real_free_clear_icv(up, {o})
              /\ UNCHANGED dead
           \/ /\ ~CopyOk(o, Smaller(size, old)) /\ FaultOnRead
              /\ assign_version(b, {})
              /\ real' = real \cup {b}
              /\ icv' = up
              /\ dead' = TRUE
              /\ UNCHANGED live
      /\ UNCHANGED <<cc_quarantine_enabled, qvars>>

-----------------------------------------------------------------------------
Q_NEXT(idx, max) == (idx + 1) % max

\* A bug: the loop over the buffer misses its first slot.
quarantine_buffer_free_from_1(buffers, buf) ==
  {buffers[buf][i] : i \in 1 .. QUARANTINE_DEPTH - 1} \ {Null}

\* The blocks that quarantine_buffer_free hands to REAL_FREE.
quarantine_buffer_free(buffers, buf) ==
  {buffers[buf][i] : i \in 0 .. QUARANTINE_DEPTH - 1} \ {Null}

\* A bug: the index starts over in the same buffer.
NoNextBuffer(index) == quarantine_current_buffer

\* The buffer to go on with after the index has moved on.
NextBuffer(index) ==
  IF index = 0 THEN Q_NEXT(quarantine_current_buffer, QUARANTINE_WIDTH)
  ELSE quarantine_current_buffer

(***************************************************************************)
(* quarantine_insert: the pointer takes the current slot; when that was    *)
(* the last one of its buffer, the next buffer, the oldest, is emptied.    *)
(* Its slots keep their pointers until they are overwritten.               *)
(***************************************************************************)
quarantine_insert(ptr, icvs) ==
  LET buffers == [quarantine_buffers EXCEPT
                    ![quarantine_current_buffer][quarantine_current_index] = ptr]
      index   == Q_NEXT(quarantine_current_index, QUARANTINE_DEPTH)
      buffer  == NextBuffer(index)
      freed   == IF index = 0 THEN quarantine_buffer_free(buffers, buffer) ELSE {}
  IN  /\ quarantine_buffers' = buffers
      /\ quarantine_current_index' = index
      /\ quarantine_current_buffer' = buffer
      /\ real' = real \ freed
      /\ icv' = cc_pre_real_free_clear_icv(icvs, freed)
      /\ age' = [b \in Block |-> IF b = ptr \/ b \in freed THEN 0
                                 ELSE IF b \in real /\ live[b] = NoPtr THEN age[b] + 1
                                 ELSE age[b]]

\* With the quarantine disabled the block is returned at once.
FreeNow(ptr, icvs) ==
  /\ real' = real \ {ptr}
  /\ icv' = cc_pre_real_free_clear_icv(icvs, {ptr})
  /\ UNCHANGED qvars

\* cc_free_encoded, free(NULL) included: the ICVs go first, then quarantine_insert.
Free(p) ==
  LET icvs == cc_pre_real_free_clear_icv(icv, {p})
  IN  /\ ~dead /\ (p # Null => live[p] # NoPtr)
      /\ live' = [b \in Block |-> IF b = p THEN NoPtr ELSE live[b]]
      /\ dangling' = dangling \cup (IF p = Null THEN {} ELSE PointerTo(p))
      /\ IF cc_quarantine_enabled THEN quarantine_insert(p, icvs) ELSE FreeNow(p, icvs)
      /\ UNCHANGED <<cc_quarantine_enabled, curr_version, born, dead>>

-----------------------------------------------------------------------------
\* cc_quarantine_enabled is set once, from the environment or by the build.
Init ==
  /\ cc_quarantine_enabled \in BOOLEAN
  /\ real = {} /\ dead = FALSE
  /\ live = [b \in Block |-> NoPtr]
  /\ icv = [b \in Block |-> Clear]
  /\ curr_version = 0
  /\ quarantine_buffers =
       [w \in 0 .. QUARANTINE_WIDTH - 1 |-> [i \in 0 .. QUARANTINE_DEPTH - 1 |-> Null]]
  /\ quarantine_current_buffer = 0 /\ quarantine_current_index = 0
  /\ born = [b \in Block |-> Versions] /\ dangling = {}
  /\ age = [b \in Block |-> 0]

Next ==
  \/ \E b \in Block, size \in Sizes : Malloc(b, size)
  \/ \E o, b \in Block, size \in Sizes : Realloc(o, b, size)
  \/ \E p \in Block \cup {Null} : Free(p)

Spec == Init /\ [][Next]_vars

-----------------------------------------------------------------------------
\* Type invariant: the version stays one that a pointer can hold, the indices stay in
\* the quarantine's bounds.
TypeOK ==
  /\ real \subseteq Block /\ dead \in BOOLEAN /\ cc_quarantine_enabled \in BOOLEAN
  /\ live \in [Block -> Pointer \cup {NoPtr}]
  /\ icv \in [Block -> [Granule -> Tag]]
  /\ curr_version \in Version
  /\ quarantine_buffers \in [0 .. QUARANTINE_WIDTH - 1 ->
                               [0 .. QUARANTINE_DEPTH - 1 -> Block \cup {Null}]]
  /\ quarantine_current_buffer \in 0 .. QUARANTINE_WIDTH - 1
  /\ quarantine_current_index \in 0 .. QUARANTINE_DEPTH - 1
  /\ born \in [Block -> 0 .. Versions]
  /\ dangling \subseteq [block : Block, tag : Version, age : 0 .. Versions - 1]
  /\ age \in [Block -> Nat]

Held(b) == live[b] # NoPtr

\* The slots whose pointer has not been given back to the external allocator.
Pending ==
  {s \in (0 .. QUARANTINE_WIDTH - 1) \X (0 .. QUARANTINE_DEPTH - 1) :
     s[1] # quarantine_current_buffer \/ s[2] < quarantine_current_index}

At(s) == quarantine_buffers[s[1]][s[2]]

(***************************************************************************)
(* quarantine_buffer_free leaves the pointers it freed in their slots.     *)
(* Still no block is freed twice, freed under its holder's feet, or leaked:*)
(* the blocks in use are exactly the held ones and those of the pending    *)
(* slots, and each of these is in one such slot.                           *)
(***************************************************************************)
QuarantineExact ==
  ~dead =>
    /\ \A b \in Block : b \in real <=> Held(b) \/ \E s \in Pending : At(s) = b
    /\ \A s \in Pending : At(s) # Null => ~Held(At(s))
    /\ \A s, t \in Pending : At(s) = At(t) => s = t \/ At(s) = Null

(***************************************************************************)
(* The ICVs of a held block are what its allocation set up, and all other  *)
(* memory is untagged, so that a block starts clean when it is reused.     *)
(***************************************************************************)
IcvsMatchHolder ==
  ~dead => \A b \in Block : icv[b] = IF Held(b) THEN SetUp(live[b]) ELSE Clear

(***************************************************************************)
(* Use after free is detected: an encoded pointer to a block that was      *)
(* freed or moved matches none of the block's ICVs, through quarantine and *)
(* reuse, until curr_version has come round to its version again.          *)
(***************************************************************************)
DanglingDetected ==
  ~dead => \A d \in dangling : \A i \in Granule : icv[d.block][i] # d.tag

(***************************************************************************)
(* A freed block stays quarantined for at least (WIDTH - 1) * DEPTH later  *)
(* frees: what leaves the quarantine is the oldest buffer.                 *)
(***************************************************************************)
QuarantineDelays ==
  [][\A b \in real \ real' :
       cc_quarantine_enabled /\ ~Held(b)
         => age[b] + 1 >= (QUARANTINE_WIDTH - 1) * QUARANTINE_DEPTH]_vars

(***************************************************************************)
(* The realloc tests expect "old data survived" the move: realloc never    *)
(* dies of an ICV mismatch on memory that its caller holds.                *)
(***************************************************************************)
ReallocSurvives == ~dead
=============================================================================
