--------------------------- MODULE CcMallocProofs ---------------------------
(***************************************************************************)
(* The quarantine and the ICV life cycle of CcMalloc, for any heap, any    *)
(* quarantine geometry, and with either build and fault option.            *)
(*                                                                         *)
(* Free is proved in two halves, as quarantine_insert works: first the     *)
(* pointer joins the pending slots (they become Ins), then, if the buffer  *)
(* was full, the row of the next buffer leaves them.                       *)
(***************************************************************************)
EXTENDS CcMalloc, TLAPS

W == INSTANCE Wrappers

Row  == 0 .. QUARANTINE_WIDTH - 1
Col  == 0 .. QUARANTINE_DEPTH - 1
Here == <<quarantine_current_buffer, quarantine_current_index>>
Ins  == Pending \cup {Here}

IInv == TypeOK /\ QuarantineExact /\ IcvsMatchHolder

\* Q_NEXT counts up and starts over.
LEMMA QNext ==
  ASSUME NEW max \in Nat \ {0}, NEW i \in 0 .. max - 1
  PROVE  Q_NEXT(i, max) = IF i + 1 = max THEN 0 ELSE i + 1
<1>1. CASE i + 1 = max
  BY <1>1 DEF Q_NEXT
<1>2. CASE i + 1 < max
  BY <1>2 DEF Q_NEXT
<1> QED BY <1>1, <1>2

\* What an allocation sets up is typed, and no pointer of a caller is NoPtr.
LEMMA SetUpType ==
  ASSUME TypeOK, NEW b \in Block, NEW size \in Sizes
  PROVE  /\ [tag |-> NewTag(b), size |-> size] \in Pointer
         /\ [tag |-> NewTag(b), size |-> size] # NoPtr
         /\ SetUp([tag |-> NewTag(b), size |-> size]) \in [Granule -> Tag]
<1>1. NewTag(b) \in Tag
  BY DEF TypeOK, NewTag, Tag
<1>2. size # 0
  BY MallocAssumption
<1>3. [tag |-> NewTag(b), size |-> size] \in Pointer
  BY <1>1 DEF Pointer
<1>4. [tag |-> NewTag(b), size |-> size] # NoPtr
  BY <1>2 DEF NoPtr
<1>5. SetUp([tag |-> NewTag(b), size |-> size]) \in [Granule -> Tag]
  BY <1>1 DEF SetUp, Tag
<1> QED BY <1>3, <1>4, <1>5

\* A slot holds a block or nothing.
LEMMA AtType ==
  ASSUME TypeOK, NEW s \in Row \X Col
  PROVE  At(s) \in Block \cup {Null}
<1>1. s[1] \in Row /\ s[2] \in Col
  OBVIOUS
<1>2. quarantine_buffers \in [Row -> [Col -> Block \cup {Null}]]
  BY DEF TypeOK, Row, Col
<1> HIDE DEF Row, Col
<1>3. quarantine_buffers[s[1]] \in [Col -> Block \cup {Null}]
  BY <1>1, <1>2
<1> QED BY <1>1, <1>3 DEF At

\* Untagged memory is typed.
LEMMA ClearType == Clear \in [Granule -> Tag]
BY DEF Clear, Tag

\* A pointer that is given up is a well-typed dangling pointer.
LEMMA PointerToType ==
  ASSUME TypeOK, NEW o \in Block
  PROVE  PointerTo(o) \subseteq [block : Block, tag : Version, age : 0 .. Versions - 1]
<1>1. live[o].tag \in Tag
  BY DEF TypeOK, Pointer, NoPtr, Tag
<1>2. born[o] \in 0 .. Versions
  BY DEF TypeOK
<1>3. CASE live[o].tag # LA /\ born[o] < Versions
  <2>1. live[o].tag \in Version /\ born[o] \in 0 .. Versions - 1
    BY <1>1, <1>2, <1>3, MallocAssumption DEF Tag
  <2>2. [block |-> o, tag |-> live[o].tag, age |-> born[o]]
          \in [block : Block, tag : Version, age : 0 .. Versions - 1]
    BY <2>1
  <2> QED BY <1>3, <2>2 DEF PointerTo
<1>4. CASE ~(live[o].tag # LA /\ born[o] < Versions)
  BY <1>4 DEF PointerTo
<1> QED BY <1>3, <1>4

\* assign_version keeps the version and the history variables typed.
LEMMA AssignType ==
  ASSUME TypeOK, NEW b \in Block,
         NEW gone \in SUBSET [block : Block, tag : Version, age : 0 .. Versions - 1],
         assign_version(b, gone)
  PROVE  /\ curr_version' \in Version
         /\ born' \in [Block -> 0 .. Versions]
         /\ dangling' \subseteq [block : Block, tag : Version, age : 0 .. Versions - 1]
<1> DEFINE D == [block : Block, tag : Version, age : 0 .. Versions - 1]
<1>1. CASE b \in Boxable
  <2>1. curr_version' = (curr_version + 1) % Versions
    BY <1>1 DEF assign_version
  <2>2. curr_version' \in Version
    BY <2>1, MallocAssumption DEF TypeOK, Version
  <2>3. born' = [c \in Block |-> IF c = b THEN 0
                   ELSE IF born[c] < Versions THEN born[c] + 1 ELSE Versions]
    BY <1>1 DEF assign_version, Issue
  <2>4. born' \in [Block -> 0 .. Versions]
    BY <2>3, MallocAssumption DEF TypeOK
  <2>5. dangling' = Aged(dangling \cup gone)
    BY <1>1 DEF assign_version, Issue
  <2>6. ASSUME NEW e \in D, e.age + 1 < Versions
        PROVE  [e EXCEPT !.age = e.age + 1] \in D
    BY <2>6, MallocAssumption
  <2>7. dangling' \subseteq D
    BY <2>5, <2>6 DEF Aged, TypeOK
  <2> QED BY <2>2, <2>4, <2>7
<1>2. CASE b \notin Boxable
  BY <1>2 DEF assign_version, TypeOK
<1> QED BY <1>1, <1>2

\* Allocation keeps the invariant: a block that is not in use is in no pending slot.
LEMMA MallocKeepsIInv ==
  ASSUME IInv, NEW b \in Block, NEW size \in Sizes, Malloc(b, size)
  PROVE  IInv'
<1> DEFINE p == [tag |-> NewTag(b), size |-> size]
<1>1. /\ ~dead /\ dead' = dead /\ b \notin real /\ real' = real \cup {b}
      /\ live' = [live EXCEPT ![b] = p] /\ icv' = [icv EXCEPT ![b] = SetUp(p)]
      /\ UNCHANGED <<cc_quarantine_enabled, quarantine_buffers, quarantine_current_buffer,
                     quarantine_current_index, age>>
      /\ assign_version(b, {})
  BY DEF Malloc, qvars
<1>2. p \in Pointer /\ p # NoPtr /\ SetUp(p) \in [Granule -> Tag]
  BY SetUpType DEF IInv
<1> HIDE DEF p
<1>3. TypeOK'
  <2>1. /\ curr_version' \in Version
        /\ born' \in [Block -> 0 .. Versions]
        /\ dangling' \subseteq [block : Block, tag : Version, age : 0 .. Versions - 1]
    <3>1. {} \in SUBSET [block : Block, tag : Version, age : 0 .. Versions - 1]
      OBVIOUS
    <3> QED BY <3>1, <1>1, AssignType DEF IInv
  <2>2. live' \in [Block -> Pointer \cup {NoPtr}]
    BY <1>1, <1>2 DEF IInv, TypeOK
  <2>3. icv' \in [Block -> [Granule -> Tag]]
    BY <1>1, <1>2 DEF IInv, TypeOK
  <2>4. real' \subseteq Block
    BY <1>1 DEF IInv, TypeOK
  <2> QED BY <1>1, <2>1, <2>2, <2>3, <2>4 DEF IInv, TypeOK
<1>4. Pending' = Pending /\ \A s : At(s)' = At(s)
  BY <1>1 DEF Pending, At
<1>5. \A c \in Block : Held(c)' <=> Held(c) \/ c = b
  BY <1>1, <1>2 DEF IInv, TypeOK, Held
<1>6. \A s \in Pending : At(s) \in Block \cup {Null}
  BY AtType DEF Pending, IInv, Row, Col
<1>7. QuarantineExact'
  <2>1. \A c \in Block : c \in real' <=> Held(c)' \/ \E s \in Pending : At(s) = c
    BY <1>1, <1>5 DEF IInv, QuarantineExact
  <2>2. \A s \in Pending : At(s) # Null => At(s) \in Block /\ At(s) # b /\ ~Held(At(s))
    BY <1>1, <1>6 DEF IInv, QuarantineExact
  <2>3. \A s \in Pending' : At(s)' # Null => ~Held(At(s))'
    BY <1>4, <1>5, <2>2, <1>1, <1>2 DEF Held, IInv, TypeOK
  <2> QED BY <1>1, <1>4, <2>1, <2>3 DEF IInv, QuarantineExact
<1>8. IcvsMatchHolder'
  BY <1>1, <1>2, <1>5 DEF IInv, TypeOK, IcvsMatchHolder, Held, SetUp
<1> QED BY <1>3, <1>7, <1>8 DEF IInv

(***************************************************************************)
(* Reallocation keeps the invariant.  The old block was held, hence in no  *)
(* pending slot, so returning it at once strands no slot; if the copy      *)
(* faults the process is dead and only the types are left to keep.         *)
(***************************************************************************)
LEMMA ReallocKeepsIInv ==
  ASSUME IInv, NEW o \in Block, NEW b \in Block, NEW size \in Sizes, Realloc(o, b, size)
  PROVE  IInv'
<1> DEFINE p  == [tag |-> NewTag(b), size |-> size]
           up == [icv EXCEPT ![b] = SetUp(p)]
           D  == [block : Block, tag : Version, age : 0 .. Versions - 1]
<1>1. /\ ~dead /\ b \notin real /\ Held(o)
      /\ UNCHANGED <<cc_quarantine_enabled, quarantine_buffers, quarantine_current_buffer,
                     quarantine_current_index, age>>
  BY DEF Realloc, qvars, Held
<1>2. p \in Pointer /\ p # NoPtr /\ SetUp(p) \in [Granule -> Tag]
  BY SetUpType DEF IInv
<1>3. \/ /\ assign_version(b, PointerTo(o)) /\ real' = (real \cup {b}) \ {o}
         /\ live' = [live EXCEPT ![b] = p, ![o] = NoPtr]
         /\ icv' = cc_pre_real_free_clear_icv(up, {o}) /\ dead' = dead
      \/ /\ assign_version(b, {}) /\ real' = real \cup {b}
         /\ icv' = up /\ dead' = TRUE /\ live' = live
  BY DEF Realloc
<1>4. o \in real /\ o # b
  BY <1>1 DEF IInv, QuarantineExact
<1>5. {} \in SUBSET D /\ PointerTo(o) \in SUBSET D
  BY PointerToType DEF IInv
<1>6. curr_version' \in Version /\ born' \in [Block -> 0 .. Versions] /\ dangling' \subseteq D
  BY <1>3, <1>5, AssignType DEF IInv
<1>7. up \in [Block -> [Granule -> Tag]]
  BY <1>2 DEF IInv, TypeOK
<1>8. \A s \in Pending : At(s) \in Block \cup {Null}
  BY AtType DEF Pending, IInv, Row, Col
<1> HIDE DEF p, up, D
<1>9. TypeOK'
  <2>1. real' \subseteq Block /\ dead' \in BOOLEAN
    BY <1>3 DEF IInv, TypeOK
  <2>2. live' \in [Block -> Pointer \cup {NoPtr}]
    BY <1>2, <1>3 DEF IInv, TypeOK
  <2>3. icv' \in [Block -> [Granule -> Tag]]
    BY <1>3, <1>7, ClearType DEF cc_pre_real_free_clear_icv
  <2> QED BY <1>1, <1>6, <2>1, <2>2, <2>3 DEF IInv, TypeOK, D
<1>10. CASE dead'
  BY <1>9, <1>10 DEF IInv, QuarantineExact, IcvsMatchHolder
<1>11. CASE ~dead'
  <2>1. /\ real' = (real \cup {b}) \ {o} /\ live' = [live EXCEPT ![b] = p, ![o] = NoPtr]
        /\ icv' = cc_pre_real_free_clear_icv(up, {o})
    BY <1>3, <1>11
  <2>2. Pending' = Pending /\ \A s : At(s)' = At(s)
    BY <1>1 DEF Pending, At
  <2>3. \A c \in Block : live'[c] = IF c = o THEN NoPtr ELSE IF c = b THEN p ELSE live[c]
    BY <1>4, <2>1 DEF IInv, TypeOK
  <2>4. \A c \in Block : Held(c)' <=> (Held(c) \/ c = b) /\ c # o
    BY <1>2, <2>3 DEF Held
  <2>5. \A s \in Pending : At(s) # Null
          => At(s) \in Block /\ At(s) # b /\ At(s) # o /\ ~Held(At(s))
    BY <1>1, <1>8 DEF IInv, QuarantineExact
  <2>6. QuarantineExact'
    <3>1. \A c \in Block : c \in real' <=> Held(c)' \/ \E s \in Pending : At(s) = c
      BY <1>1, <1>4, <2>1, <2>4, <2>5, MallocAssumption DEF IInv, QuarantineExact
    <3>2. \A s \in Pending : At(s) # Null => ~(live'[At(s)] # NoPtr)
      BY <2>3, <2>5 DEF Held
    <3> QED BY <1>1, <2>2, <3>1, <3>2 DEF IInv, QuarantineExact, Held
  <2>7. IcvsMatchHolder'
    <3> SUFFICES ASSUME NEW c \in Block
                 PROVE  icv'[c] = IF live'[c] # NoPtr THEN SetUp(live'[c]) ELSE Clear
      BY DEF IcvsMatchHolder, Held, SetUp
    <3>1. CASE c = o
      BY <2>1, <2>3, <3>1 DEF cc_pre_real_free_clear_icv
    <3>2. CASE c = b
      BY <1>2, <1>4, <2>1, <2>3, <3>2 DEF cc_pre_real_free_clear_icv, up, IInv, TypeOK
    <3>3. CASE c # o /\ c # b
      BY <1>1, <2>1, <2>3, <3>3
      DEF cc_pre_real_free_clear_icv, up, IInv, TypeOK, IcvsMatchHolder, Held
    <3> QED BY <3>1, <3>2, <3>3
  <2> QED BY <1>9, <2>6, <2>7 DEF IInv
<1> QED BY <1>10, <1>11

-----------------------------------------------------------------------------
(***************************************************************************)
(* The first half of quarantine_insert: once ptr, given up by its caller,  *)
(* is in the current slot, the blocks in use are exactly those held and    *)
(* those in the slots of Ins, one slot each.                               *)
(***************************************************************************)
LEMMA InsertExact ==
  ASSUME IInv, ~dead, NEW ptr \in Block \cup {Null}, ptr # Null => Held(ptr),
         live' = [b \in Block |-> IF b = ptr THEN NoPtr ELSE live[b]],
         quarantine_buffers' = [quarantine_buffers EXCEPT
                    ![quarantine_current_buffer][quarantine_current_index] = ptr]
  PROVE  /\ \A b \in Block : b \in real <=> Held(b)' \/ \E s \in Ins : At(s)' = b
         /\ \A s \in Ins : At(s)' \in Block => ~Held(At(s))'
         /\ \A s, t \in Ins : At(s)' = At(t)' => s = t \/ At(s)' = Null
         /\ \A s \in Row \X Col : At(s)' \in Block \cup {Null}
<1>1. Here \in Row \X Col /\ Here \notin Pending /\ Pending \subseteq Row \X Col
  BY DEF IInv, TypeOK, Here, Pending, Row, Col
<1>2. \A s \in Row \X Col : At(s) \in Block \cup {Null}
  BY AtType DEF IInv
<1>3. \A s \in Row \X Col : At(s)' = IF s = Here THEN ptr ELSE At(s)
  <2> SUFFICES ASSUME NEW s \in Row \X Col
               PROVE  At(s)' = IF s = Here THEN ptr ELSE At(s)
    OBVIOUS
  <2>1. s[1] \in Row /\ s[2] \in Col /\ s = <<s[1], s[2]>>
    OBVIOUS
  <2>2. s = Here <=> s[1] = quarantine_current_buffer /\ s[2] = quarantine_current_index
    BY <2>1 DEF Here
  <2>3. /\ quarantine_current_buffer \in Row /\ quarantine_current_index \in Col
        /\ quarantine_buffers \in [Row -> [Col -> Block \cup {Null}]]
    BY DEF IInv, TypeOK, Row, Col
  <2> HIDE DEF Row, Col
  <2> QED BY <2>1, <2>2, <2>3 DEF At
<1>4. \A b \in Block : Held(b)' <=> Held(b) /\ b # ptr
  BY DEF Held
<1>5. \A s \in Pending : At(s)' = At(s)
  BY <1>1, <1>3
<1>6. PICK h \in Ins : h = Here /\ At(h)' = ptr /\ Ins = Pending \cup {h}
  BY <1>1, <1>3 DEF Ins
<1>7. /\ \A b \in Block : b \in real <=> Held(b) \/ \E s \in Pending : At(s) = b
      /\ \A s \in Pending : At(s) # Null => ~Held(At(s))
      /\ \A s, t \in Pending : At(s) = At(t) => s = t \/ At(s) = Null
  BY DEF IInv, QuarantineExact
<1>8. \A b \in Block : b \in real <=> Held(b)' \/ \E s \in Ins : At(s)' = b
  <2> SUFFICES ASSUME NEW b \in Block
               PROVE  b \in real <=> Held(b)' \/ \E s \in Ins : At(s)' = b
    OBVIOUS
  <2>1. CASE b = ptr
    BY <1>6, <1>7, <2>1, MallocAssumption
  <2>2. CASE b # ptr
    <3>1. (\E s \in Ins : At(s)' = b) <=> \E s \in Pending : At(s) = b
      BY <1>5, <1>6, <2>2
    <3> QED BY <1>4, <1>7, <2>2, <3>1
  <2> QED BY <2>1, <2>2
<1>9. \A s \in Ins : At(s)' \in Block => ~(live'[At(s)'] # NoPtr)
  <2> SUFFICES ASSUME NEW s \in Ins, At(s)' \in Block PROVE live'[At(s)'] = NoPtr
    OBVIOUS
  <2>1. CASE s = h
    BY <1>6, <2>1
  <2>2. CASE s \in Pending
    <3>1. At(s)' = At(s) /\ At(s) # Null
      BY <1>5, <2>2, MallocAssumption
    <3> QED BY <1>7, <2>2, <3>1 DEF Held
  <2> QED BY <1>6, <2>1, <2>2
<1>10. \A s, t \in Ins : At(s)' = At(t)' => s = t \/ At(s)' = Null
  <2>1. \A s \in Pending : At(s) = ptr => ptr = Null
    BY <1>7
  <2> QED BY <1>5, <1>6, <1>7, <2>1
<1>11. \A s \in Row \X Col : At(s)' \in Block \cup {Null}
  BY <1>2, <1>3
<1> QED BY <1>8, <1>9, <1>10, <1>11 DEF Held

\* The second half: a buffer that is not full stays the current one.
LEMMA PendingGrows ==
  ASSUME TypeOK, quarantine_current_index + 1 # QUARANTINE_DEPTH,
         quarantine_current_index' = quarantine_current_index + 1,
         quarantine_current_buffer' = quarantine_current_buffer
  PROVE  Pending' = Ins
<1>1. quarantine_current_index \in Nat /\ quarantine_current_index \in Col
      /\ quarantine_current_buffer \in Row /\ Col \subseteq Int
  BY MallocAssumption DEF TypeOK, Row, Col
<1>2. ASSUME NEW r \in Row, NEW i \in Col
      PROVE  <<r, i>> \in Pending' <=> <<r, i>> \in Ins
  BY <1>1, <1>2 DEF Pending, Ins, Here, Row, Col
<1>3. Pending' \subseteq Row \X Col /\ Ins \subseteq Row \X Col
  BY <1>1 DEF Pending, Ins, Here, Row, Col
<1> QED BY <1>2, <1>3

\* A full buffer makes every slot pending but those of the next buffer.
LEMMA RowLeaves ==
  ASSUME TypeOK, quarantine_current_index + 1 = QUARANTINE_DEPTH,
         quarantine_current_index' = 0
  PROVE  /\ Ins = Row \X Col
         /\ \A s \in Row \X Col : s \in Pending' <=> s[1] # quarantine_current_buffer'
         /\ Pending' \subseteq Row \X Col
<1>1. quarantine_current_index \in Nat /\ quarantine_current_index \in Col
      /\ quarantine_current_buffer \in Row /\ QUARANTINE_DEPTH \in Nat
  BY MallocAssumption DEF TypeOK, Row, Col
<1>2. ASSUME NEW r \in Row, NEW i \in Col
      PROVE  /\ <<r, i>> \in Ins
             /\ <<r, i>> \in Pending' <=> r # quarantine_current_buffer'
  BY <1>1, <1>2 DEF Pending, Ins, Here, Row, Col
<1>3. Pending' \subseteq Row \X Col /\ Ins \subseteq Row \X Col
  BY <1>1 DEF Pending, Ins, Here, Row, Col
<1> QED BY <1>2, <1>3

\* The types after quarantine_insert, and where it leaves the indices.
LEMMA InsertType ==
  ASSUME TypeOK, NEW ptr \in Block \cup {Null}, NEW icvs \in [Block -> [Granule -> Tag]],
         quarantine_insert(ptr, icvs)
  PROVE  /\ quarantine_buffers' \in [Row -> [Col -> Block \cup {Null}]]
         /\ quarantine_current_buffer' \in Row /\ quarantine_current_index' \in Col
         /\ real' \subseteq Block /\ icv' \in [Block -> [Granule -> Tag]]
         /\ age' \in [Block -> Nat]
         /\ quarantine_current_index' = IF quarantine_current_index + 1 = QUARANTINE_DEPTH
                                        THEN 0 ELSE quarantine_current_index + 1
         /\ quarantine_current_index + 1 # QUARANTINE_DEPTH
              => quarantine_current_buffer' = quarantine_current_buffer
<1>1. /\ quarantine_buffers \in [Row -> [Col -> Block \cup {Null}]]
      /\ quarantine_current_buffer \in Row /\ quarantine_current_index \in Col
      /\ QUARANTINE_WIDTH \in Nat \ {0} /\ QUARANTINE_DEPTH \in Nat \ {0}
  BY MallocAssumption DEF TypeOK, Row, Col
<1>2. quarantine_current_index' = IF quarantine_current_index + 1 = QUARANTINE_DEPTH
                                  THEN 0 ELSE quarantine_current_index + 1
  BY <1>1, QNext DEF quarantine_insert, Col
<1>3. quarantine_current_buffer' = NextBuffer(quarantine_current_index')
  BY DEF quarantine_insert
<1>4. Q_NEXT(quarantine_current_buffer, QUARANTINE_WIDTH) \in Row
  BY <1>1, QNext DEF Row
<1>5. /\ quarantine_current_buffer' \in Row /\ quarantine_current_index' \in Col
      /\ quarantine_current_index + 1 # QUARANTINE_DEPTH
              => quarantine_current_buffer' = quarantine_current_buffer
  BY <1>1, <1>2, <1>3, <1>4 DEF NextBuffer, Col
<1>6. quarantine_buffers' \in [Row -> [Col -> Block \cup {Null}]]
  <2> HIDE DEF Row, Col
  <2> QED BY <1>1 DEF quarantine_insert
<1>7. real' \subseteq Block /\ age' \in [Block -> Nat]
  BY DEF quarantine_insert, TypeOK
<1>8. PICK freed : icv' = cc_pre_real_free_clear_icv(icvs, freed)
  BY DEF quarantine_insert
<1>9. icv' \in [Block -> [Granule -> Tag]]
  BY <1>8, ClearType DEF cc_pre_real_free_clear_icv
<1> QED BY <1>2, <1>5, <1>6, <1>7, <1>9

(***************************************************************************)
(* Free keeps the invariant.  What quarantine_buffer_free returns is what  *)
(* the slots of one buffer hold, and these are all pending: no stale       *)
(* pointer is ever freed a second time.                                    *)
(***************************************************************************)
LEMMA FreeKeepsIInv ==
  ASSUME IInv, NEW p \in Block \cup {Null}, Free(p)
  PROVE  IInv'
<1> DEFINE icvs == cc_pre_real_free_clear_icv(icv, {p})
           D    == [block : Block, tag : Version, age : 0 .. Versions - 1]
<1>1. /\ ~dead /\ (p # Null => Held(p))
      /\ live' = [b \in Block |-> IF b = p THEN NoPtr ELSE live[b]]
      /\ UNCHANGED <<cc_quarantine_enabled, curr_version, born, dead>>
      /\ IF cc_quarantine_enabled THEN quarantine_insert(p, icvs) ELSE FreeNow(p, icvs)
  BY DEF Free, Held
<1>2. live' \in [Block -> Pointer \cup {NoPtr}]
  BY <1>1 DEF IInv, TypeOK
<1>3. dangling' \subseteq D
  <2>1. dangling' = dangling \cup (IF p = Null THEN {} ELSE PointerTo(p))
    BY DEF Free
  <2>2. CASE p = Null
    BY <2>1, <2>2 DEF IInv, TypeOK
  <2>3. CASE p \in Block /\ p # Null
    BY <2>1, <2>3, PointerToType DEF IInv, TypeOK
  <2> QED BY <2>2, <2>3
<1>4. icvs \in [Block -> [Granule -> Tag]]
  BY ClearType DEF cc_pre_real_free_clear_icv, IInv, TypeOK
<1>5. \A b \in Block : icvs[b] = IF live'[b] # NoPtr THEN SetUp(live'[b]) ELSE Clear
  BY <1>1 DEF cc_pre_real_free_clear_icv, IInv, IcvsMatchHolder, Held
<1>6. p = Null \/ p \in real
  BY <1>1 DEF IInv, QuarantineExact
<1>7. TypeOK /\ real \subseteq Block
  BY DEF IInv, TypeOK
<1> HIDE DEF icvs, D
<1>8. CASE cc_quarantine_enabled
  <2>1. quarantine_insert(p, icvs)
    BY <1>1, <1>8
  <2>2. TypeOK'
    <3>1. /\ quarantine_buffers' \in [Row -> [Col -> Block \cup {Null}]]
          /\ quarantine_current_buffer' \in Row /\ quarantine_current_index' \in Col
          /\ real' \subseteq Block /\ icv' \in [Block -> [Granule -> Tag]]
          /\ age' \in [Block -> Nat]
      BY <1>4, <1>7, <2>1, InsertType
    <3> QED BY <1>1, <1>2, <1>3, <1>7, <3>1 DEF TypeOK, Row, Col, D
  <2>3. quarantine_buffers' = [quarantine_buffers EXCEPT
                    ![quarantine_current_buffer][quarantine_current_index] = p]
    BY <2>1 DEF quarantine_insert
  <2>4. /\ \A b \in Block : b \in real <=> Held(b)' \/ \E s \in Ins : At(s)' = b
        /\ \A s \in Ins : At(s)' \in Block => ~Held(At(s))'
        /\ \A s, t \in Ins : At(s)' = At(t)' => s = t \/ At(s)' = Null
        /\ \A s \in Row \X Col : At(s)' \in Block \cup {Null}
    BY <1>1, <2>3, InsertExact
  <2>5. /\ quarantine_current_index' = IF quarantine_current_index + 1 = QUARANTINE_DEPTH
                                       THEN 0 ELSE quarantine_current_index + 1
        /\ quarantine_current_index + 1 # QUARANTINE_DEPTH
              => quarantine_current_buffer' = quarantine_current_buffer
    BY <1>4, <1>7, <2>1, InsertType
  <2>6. CASE quarantine_current_index + 1 # QUARANTINE_DEPTH
    <3>1. Pending' = Ins
      BY <1>7, <2>5, <2>6, PendingGrows
    <3>2. quarantine_current_index' # 0
      BY <2>5, <2>6, <1>7 DEF TypeOK
    <3>3. real' = real /\ icv' = cc_pre_real_free_clear_icv(icvs, {})
      BY <2>1, <3>2 DEF quarantine_insert
    <3>4. QuarantineExact'
      <4>1. \A s \in Ins : s \in Row \X Col
        BY <1>7 DEF Ins, Here, Pending, Row, Col, TypeOK
      <4>2. \A s \in Ins : At(s)' # Null => ~Held(At(s))'
        BY <2>4, <4>1
      <4> QED BY <2>4, <3>1, <3>3, <4>2 DEF QuarantineExact
    <3>5. IcvsMatchHolder'
      BY <1>5, <3>3 DEF IcvsMatchHolder, cc_pre_real_free_clear_icv, Held, SetUp
    <3> QED BY <2>2, <3>4, <3>5 DEF IInv
  <2>7. CASE quarantine_current_index + 1 = QUARANTINE_DEPTH
    <3> DEFINE freed == quarantine_buffer_free(quarantine_buffers', quarantine_current_buffer')
    <3>1. /\ Ins = Row \X Col
          /\ \A s \in Row \X Col : s \in Pending' <=> s[1] # quarantine_current_buffer'
          /\ Pending' \subseteq Row \X Col
      BY <1>7, <2>5, <2>7, RowLeaves
    <3>2. real' = real \ freed /\ icv' = cc_pre_real_free_clear_icv(icvs, freed)
      BY <2>1, <2>5, <2>7 DEF quarantine_insert
    <3>3. quarantine_current_buffer' \in Row
      BY <2>2 DEF TypeOK, Row
    <3>4. \A b \in Block : b \in freed
            <=> \E s \in Row \X Col : s[1] = quarantine_current_buffer' /\ At(s)' = b
      <4> SUFFICES ASSUME NEW b \in Block
                   PROVE  b \in freed
            <=> \E s \in Row \X Col : s[1] = quarantine_current_buffer' /\ At(s)' = b
        OBVIOUS
      <4>1. b \in freed
              <=> \E i \in Col : quarantine_buffers'[quarantine_current_buffer'][i] = b
        BY MallocAssumption DEF quarantine_buffer_free, Col
      <4>2. ASSUME NEW i \in Col,
                   quarantine_buffers'[quarantine_current_buffer'][i] = b
            PROVE  \E s \in Row \X Col : s[1] = quarantine_current_buffer' /\ At(s)' = b
        <5>1. PICK r \in Row : r = quarantine_current_buffer'
          BY <3>3
        <5>2. <<r, i>> \in Row \X Col /\ At(<<r, i>>)' = b
          BY <4>2, <5>1 DEF At
        <5> QED BY <5>1, <5>2
      <4>3. ASSUME NEW s \in Row \X Col, s[1] = quarantine_current_buffer', At(s)' = b
            PROVE  \E i \in Col : quarantine_buffers'[quarantine_current_buffer'][i] = b
        BY <4>3 DEF At
      <4> QED BY <4>1, <4>2, <4>3
    <3> HIDE DEF freed
    <3>5. \A b \in Block : Held(b)' => b \notin freed
      BY <2>4, <3>1, <3>4 DEF Held
    <3>6. QuarantineExact'
      <4>1. \A b \in Block : b \in real' <=> Held(b)' \/ \E s \in Pending' : At(s)' = b
        <5> SUFFICES ASSUME NEW b \in Block
              PROVE  b \in real' <=> Held(b)' \/ \E s \in Pending' : At(s)' = b
          OBVIOUS
        <5>1. b \in real' => Held(b)' \/ \E s \in Pending' : At(s)' = b
          BY <2>4, <3>1, <3>2, <3>4
        <5>2. Held(b)' => b \in real'
          BY <2>4, <3>2, <3>5
        <5>3. ASSUME NEW s \in Pending', At(s)' = b PROVE b \in real'
          <6>1. s \in Row \X Col /\ s[1] # quarantine_current_buffer'
            BY <3>1, <5>3
          <6>2. b \notin freed
            BY <2>4, <3>1, <3>4, <5>3, <6>1, MallocAssumption
          <6> QED BY <2>4, <3>1, <3>2, <5>3, <6>1, <6>2
        <5> QED BY <5>1, <5>2, <5>3
      <4>2. \A s \in Pending' : At(s)' # Null => ~Held(At(s))'
        BY <2>4, <3>1
      <4>3. \A s, t \in Pending' : At(s)' = At(t)' => s = t \/ At(s)' = Null
        BY <2>4, <3>1
      <4> QED BY <4>1, <4>2, <4>3 DEF QuarantineExact
    <3>7. IcvsMatchHolder'
      BY <1>5, <3>2, <3>5 DEF IcvsMatchHolder, cc_pre_real_free_clear_icv, Held, SetUp
    <3> QED BY <2>2, <3>6, <3>7 DEF IInv
  <2> QED BY <2>6, <2>7
<1>9. CASE ~cc_quarantine_enabled
  <2>1. /\ real' = real \ {p} /\ icv' = cc_pre_real_free_clear_icv(icvs, {p})
        /\ UNCHANGED <<quarantine_buffers, quarantine_current_buffer,
                       quarantine_current_index, age>>
    BY <1>1, <1>9 DEF FreeNow, qvars
  <2>2. icv' \in [Block -> [Granule -> Tag]]
    BY <1>4, <2>1, ClearType DEF cc_pre_real_free_clear_icv
  <2>3. TypeOK'
    BY <1>1, <1>2, <1>3, <1>7, <2>1, <2>2 DEF TypeOK, D
  <2>4. Pending' = Pending /\ \A s : At(s)' = At(s)
    BY <2>1 DEF Pending, At
  <2>5. \A s \in Pending : At(s) \in Block \cup {Null}
    BY <1>7, AtType DEF Pending, Row, Col
  <2>6. /\ \A b \in Block : b \in real <=> Held(b) \/ \E s \in Pending : At(s) = b
        /\ \A s \in Pending : At(s) # Null => ~Held(At(s))
        /\ \A s, t \in Pending : At(s) = At(t) => s = t \/ At(s) = Null
    BY <1>1 DEF IInv, QuarantineExact
  <2>7. \A b \in Block : Held(b)' <=> Held(b) /\ b # p
    BY <1>1 DEF Held
  <2>8. \A s \in Pending : At(s) # Null => At(s) # p
    BY <1>1, <2>6
  <2>9. QuarantineExact'
    <3>1. \A b \in Block : b \in real' <=> Held(b)' \/ \E s \in Pending : At(s) = b
      BY <2>1, <2>6, <2>7, <2>8, MallocAssumption
    <3>2. \A s \in Pending : At(s) # Null => ~(live'[At(s)] # NoPtr)
      BY <1>1, <2>5, <2>6 DEF Held
    <3> QED BY <2>4, <2>6, <3>1, <3>2 DEF QuarantineExact, Held
  <2>10. IcvsMatchHolder'
    BY <1>1, <1>5, <2>1 DEF IcvsMatchHolder, cc_pre_real_free_clear_icv, Held, SetUp
  <2> QED BY <2>3, <2>9, <2>10 DEF IInv
<1> QED BY <1>8, <1>9

LEMMA InitIInv == Init => IInv
<1> SUFFICES ASSUME Init PROVE IInv
  OBVIOUS
<1>1. TypeOK
  <2>1. /\ 0 \in Version /\ 0 \in 0 .. QUARANTINE_WIDTH - 1
        /\ 0 \in 0 .. QUARANTINE_DEPTH - 1 /\ Versions \in 0 .. Versions
    BY MallocAssumption DEF Version
  <2>2. live \in [Block -> Pointer \cup {NoPtr}] /\ icv \in [Block -> [Granule -> Tag]]
    BY ClearType DEF Init
  <2>3. real = {} /\ dangling = {} /\ dead \in BOOLEAN /\ cc_quarantine_enabled \in BOOLEAN
    BY DEF Init
  <2>4. /\ born \in [Block -> 0 .. Versions] /\ age \in [Block -> Nat]
        /\ quarantine_buffers \in [0 .. QUARANTINE_WIDTH - 1 ->
                                   [0 .. QUARANTINE_DEPTH - 1 -> Block \cup {Null}]]
    BY <2>1 DEF Init
  <2>5. /\ curr_version \in Version /\ quarantine_current_buffer \in 0 .. QUARANTINE_WIDTH - 1
        /\ quarantine_current_index \in 0 .. QUARANTINE_DEPTH - 1
    BY <2>1 DEF Init
  <2> QED BY <2>2, <2>3, <2>4, <2>5 DEF TypeOK
<1>2. \A s \in Pending : At(s) = Null
  <2> SUFFICES ASSUME NEW s \in Row \X Col PROVE At(s) = Null
    BY DEF Pending, Row, Col
  <2>1. s[1] \in Row /\ s[2] \in Col
    OBVIOUS
  <2>2. quarantine_buffers = [w \in Row |-> [i \in Col |-> Null]]
    BY DEF Init, Row, Col
  <2> QED BY <2>1, <2>2 DEF At
<1>3. QuarantineExact
  BY <1>2, MallocAssumption DEF Init, QuarantineExact, Held
<1>4. IcvsMatchHolder
  BY DEF Init, IcvsMatchHolder, Held
<1> QED BY <1>1, <1>3, <1>4 DEF IInv

LEMMA NextIInv == IInv /\ [Next]_vars => IInv'
<1> SUFFICES ASSUME IInv, [Next]_vars PROVE IInv'
  OBVIOUS
<1>1. CASE \E b \in Block, size \in Sizes : Malloc(b, size)
  BY <1>1, MallocKeepsIInv
<1>2. CASE \E o, b \in Block, size \in Sizes : Realloc(o, b, size)
  BY <1>2, ReallocKeepsIInv
<1>3. CASE \E p \in Block \cup {Null} : Free(p)
  BY <1>3, FreeKeepsIInv
<1>4. CASE UNCHANGED vars
  BY <1>4 DEF vars, qvars, vvars, IInv, TypeOK, QuarantineExact, IcvsMatchHolder,
              Held, Pending, At, SetUp
<1> QED BY <1>1, <1>2, <1>3, <1>4 DEF Next

(***************************************************************************)
(* For every heap, quarantine geometry and build: no block is freed twice, *)
(* freed while held, or lost, though quarantine_buffer_free leaves stale   *)
(* pointers in its slots; and ICVs are set exactly on held blocks.         *)
(***************************************************************************)
THEOREM MallocSafe == Spec => [](TypeOK /\ QuarantineExact /\ IcvsMatchHolder)
<1>1. IInv => TypeOK /\ QuarantineExact /\ IcvsMatchHolder
  BY DEF IInv
<1> QED BY <1>1, InitIInv, NextIInv, PTL DEF Spec

\* cc_setup_icv_for_alloc and cc_pre_real_free_clear_icv leave ICVs exactly where a caller
\* holds a block, so that no block starts its next life with those of the last.
THEOREM IcvsAlwaysMatchHolder == Spec => []IcvsMatchHolder
BY MallocSafe, PTL

-----------------------------------------------------------------------------
(***************************************************************************)
(* Use after free.  What a pointer's tag is, is known from the number n of *)
(* versions assigned since: the version v in turn is n + 1 steps from it.  *)
(***************************************************************************)
Since(v, tag, n) == tag + n + 1 \in {v, v + Versions}

\* The pointers held and those given up have the tags that their ages say, and the holder of a
\* block got its pointer after every dangling pointer to it was given up.
VersionsCount ==
  ~dead =>
    /\ \A b \in Block : live[b].tag # LA /\ born[b] < Versions => Since(curr_version, live[b].tag, born[b])
    /\ \A d \in dangling : Since(curr_version, d.tag, d.age)
    /\ \A d \in dangling : live[d.block].tag # LA => born[d.block] < d.age

\* One version later, until the count reaches Versions.
LEMMA SinceSteps ==
  ASSUME TypeOK, curr_version' = (curr_version + 1) % Versions
  PROVE  /\ Since(curr_version', curr_version, 0)
         /\ \A tag \in Version, n \in Nat :
              Since(curr_version, tag, n) /\ n + 1 < Versions => Since(curr_version', tag, n + 1)
<1>1. curr_version \in 0 .. Versions - 1 /\ Versions \in Nat \ {0}
  BY MallocAssumption DEF TypeOK, Version
<1>2. curr_version' = IF curr_version + 1 = Versions THEN 0 ELSE curr_version + 1
  BY <1>1, QNext DEF Q_NEXT
<1> QED BY <1>1, <1>2 DEF Since, Version

\* Two pointers issued at different times, less than Versions apart, have different tags.
LEMMA SinceDiffers ==
  ASSUME TypeOK, NEW t \in Version, NEW u \in Version, NEW m \in Nat, NEW n \in Nat,
         m < n, n < Versions, Since(curr_version, t, m), Since(curr_version, u, n)
  PROVE  t # u
BY MallocAssumption DEF Since, Version, TypeOK

LEMMA TagType ==
  ASSUME TypeOK, NEW b \in Block
  PROVE  /\ live[b].tag \in Version \cup {LA} /\ born[b] \in Nat /\ NoPtr.tag = LA
         /\ NewTag(b) = IF b \in Boxable THEN curr_version ELSE LA
<1>1. live[b] \in Pointer \/ live[b] = NoPtr
  BY DEF TypeOK
<1>2. live[b].tag \in Version \cup {LA}
  BY <1>1 DEF Pointer, NoPtr, Tag
<1>3. born[b] \in Nat
  BY MallocAssumption DEF TypeOK
<1> QED BY <1>2, <1>3 DEF NoPtr, NewTag

\* A pointer that is given up has the tag that its age says.
LEMMA GoneCounts ==
  ASSUME TypeOK, VersionsCount, ~dead, NEW o \in Block, NEW d \in PointerTo(o)
  PROVE  d.block = o /\ d.age \in Nat /\ d.age < Versions /\ d.tag \in Version /\ Since(curr_version, d.tag, d.age)
<1>1. live[o].tag # LA /\ born[o] < Versions /\ d = [block |-> o, tag |-> live[o].tag, age |-> born[o]]
  BY DEF PointerTo
<1>2. d.block = o /\ d.tag = live[o].tag /\ d.age = born[o]
  BY <1>1
<1> QED BY <1>1, <1>2, TagType DEF VersionsCount

LEMMA DanglingType ==
  ASSUME TypeOK, NEW d \in dangling
  PROVE  d.block \in Block /\ d.age \in Nat /\ d.age < Versions /\ d.tag \in Version
BY MallocAssumption DEF TypeOK

\* Issuing a pointer to b, while those in `gone` are given up, keeps the counts.
LEMMA IssueCounts ==
  ASSUME TypeOK, TypeOK', VersionsCount, ~dead, NEW b \in Block, NEW gone,
         \A d \in gone : /\ d.block \in Block /\ d.age \in Nat /\ d.age < Versions /\ d.tag \in Version
                         /\ Since(curr_version, d.tag, d.age) /\ live'[d.block].tag = LA,
         assign_version(b, gone),
         live'[b].tag = NewTag(b),
         \A c \in Block \ {b} : live'[c].tag \in {live[c].tag, LA}
  PROVE  VersionsCount'
<1> DEFINE P(d) == /\ d.block \in Block /\ d.age \in Nat /\ d.age < Versions /\ d.tag \in Version
                   /\ Since(curr_version, d.tag, d.age)
                   /\ live'[d.block].tag # LA /\ d.block # b => born[d.block] < d.age
<1>1. \A d \in dangling \cup gone : P(d)
  <2>1. ASSUME NEW d \in dangling PROVE P(d)
    BY <2>1, DanglingType DEF VersionsCount
  <2>2. ASSUME NEW d \in gone PROVE P(d)
    BY <2>2
  <2> QED BY <2>1, <2>2
<1>2. CASE b \in Boxable
  <2>1. /\ curr_version' = (curr_version + 1) % Versions
        /\ born' = [c \in Block |-> IF c = b THEN 0
                       ELSE IF born[c] < Versions THEN born[c] + 1 ELSE Versions]
        /\ dangling' = Aged(dangling \cup gone)
        /\ live'[b].tag = curr_version
    BY <1>2, TagType DEF assign_version, Issue
  <2>2. ASSUME NEW c \in Block, live'[c].tag # LA, born'[c] < Versions
        PROVE  Since(curr_version', live'[c].tag, born'[c])
    <3>1. CASE c = b
      BY <2>1, <3>1, SinceSteps DEF Since
    <3>2. CASE c # b
      <4>1. live'[c].tag = live[c].tag /\ live[c].tag \in Version /\ born[c] \in Nat
        BY <2>2, <3>2, TagType
      <4>2. born[c] < Versions /\ born'[c] = born[c] + 1
        BY <2>1, <2>2, <3>2, <4>1, MallocAssumption
      <4>3. Since(curr_version, live[c].tag, born[c])
        BY <2>2, <4>1, <4>2 DEF VersionsCount
      <4> QED BY <2>1, <2>2, <4>1, <4>2, <4>3, SinceSteps DEF Since
    <3> QED BY <3>1, <3>2
  <2>3. ASSUME NEW e \in dangling'
        PROVE  /\ Since(curr_version', e.tag, e.age)
               /\ live'[e.block].tag # LA => born'[e.block] < e.age
    <3>1. PICK d \in dangling \cup gone : d.age + 1 < Versions /\ e = [d EXCEPT !.age = d.age + 1]
      BY <2>1, <2>3 DEF Aged
    <3>2. P(d)
      BY <1>1, <3>1
    <3>3. e \in [block : Block, tag : Version, age : 0 .. Versions - 1]
      BY <2>3 DEF TypeOK
    <3>4. e.block = d.block /\ e.tag = d.tag /\ e.age = d.age + 1
      <4>1. "age" \in DOMAIN d
        BY <3>1, <3>3
      <4> QED BY <3>1, <4>1
    <3>5. Since(curr_version', e.tag, e.age)
      BY <2>1, <3>1, <3>2, <3>4, SinceSteps DEF Since
    <3>6. live'[e.block].tag # LA => born'[e.block] < e.age
      <4>1. CASE e.block = b
        BY <2>1, <3>2, <3>4, <4>1
      <4>2. CASE e.block # b
        <5> SUFFICES ASSUME live'[d.block].tag # LA PROVE born'[d.block] < d.age + 1
          BY <3>4
        <5>1. d.block \in Block /\ d.age \in Nat /\ born[d.block] < d.age /\ d.age < Versions
          BY <3>2, <3>4, <4>2
        <5>2. born[d.block] \in Nat
          BY <5>1, TagType
        <5>3. born'[d.block] = born[d.block] + 1
          BY <2>1, <3>4, <4>2, <5>1, <5>2, MallocAssumption
        <5> QED BY <5>1, <5>2, <5>3
      <4> QED BY <4>1, <4>2
    <3> QED BY <3>5, <3>6
  <2> QED BY <2>2, <2>3 DEF VersionsCount, Since
<1>3. CASE b \notin Boxable
  <2>1. dangling' = dangling \cup gone /\ UNCHANGED <<curr_version, born>> /\ live'[b].tag = LA
    BY <1>3, TagType DEF assign_version
  <2>2. \A c \in Block : live'[c].tag # LA => c # b /\ live'[c].tag = live[c].tag
    BY <2>1
  <2>3. \A c \in Block : live'[c].tag # LA /\ born'[c] < Versions => Since(curr_version', live'[c].tag, born'[c])
    BY <2>1, <2>2 DEF VersionsCount, Since
  <2>4. \A d \in dangling' : Since(curr_version', d.tag, d.age) /\ (live'[d.block].tag # LA => born'[d.block] < d.age)
    BY <1>1, <2>1, <2>2 DEF Since
  <2> QED BY <2>3, <2>4 DEF VersionsCount, Since
<1> QED BY <1>2, <1>3

LEMMA VersionsCountNext == IInv /\ VersionsCount /\ [Next]_vars => VersionsCount'
<1> SUFFICES ASSUME IInv, VersionsCount, [Next]_vars PROVE VersionsCount'
  OBVIOUS
<1>1. TypeOK /\ TypeOK'
  BY NextIInv DEF IInv
<1>2. ASSUME NEW b \in Block, NEW size \in Sizes, Malloc(b, size) PROVE VersionsCount'
  <2> DEFINE p == [tag |-> NewTag(b), size |-> size]
  <2>1. ~dead /\ assign_version(b, {}) /\ live' = [live EXCEPT ![b] = p]
    BY <1>2 DEF Malloc
  <2>2. live'[b].tag = NewTag(b) /\ \A c \in Block \ {b} : live'[c].tag \in {live[c].tag, LA}
    BY <1>1, <2>1 DEF TypeOK
  <2> QED BY <1>1, <2>1, <2>2, IssueCounts
<1>3. ASSUME NEW o \in Block, NEW b \in Block, NEW size \in Sizes, Realloc(o, b, size)
      PROVE  VersionsCount'
  <2> DEFINE p == [tag |-> NewTag(b), size |-> size]
  <2>1. /\ ~dead /\ b \notin real /\ Held(o)
        /\ \/ assign_version(b, PointerTo(o)) /\ live' = [live EXCEPT ![b] = p, ![o] = NoPtr]
           \/ dead' = TRUE
    BY <1>3 DEF Realloc, Held
  <2>2. CASE dead'
    BY <2>2 DEF VersionsCount
  <2>3. CASE ~dead'
    <3>1. o # b
      BY <2>1 DEF IInv, QuarantineExact
    <3>2. assign_version(b, PointerTo(o)) /\ live' = [live EXCEPT ![b] = p, ![o] = NoPtr]
      BY <2>1, <2>3
    <3>3. /\ live'[b].tag = NewTag(b) /\ live'[o].tag = LA
          /\ \A c \in Block \ {b} : live'[c].tag \in {live[c].tag, LA}
      BY <1>1, <3>1, <3>2 DEF TypeOK, NoPtr
    <3>4. \A d \in PointerTo(o) :
             /\ d.block \in Block /\ d.age \in Nat /\ d.age < Versions /\ d.tag \in Version
             /\ Since(curr_version, d.tag, d.age) /\ live'[d.block].tag = LA
      BY <1>1, <2>1, <3>3, GoneCounts
    <3> QED BY <1>1, <2>1, <3>2, <3>3, <3>4, IssueCounts
  <2> QED BY <2>2, <2>3
<1>4. ASSUME NEW p \in Block \cup {Null}, Free(p) PROVE VersionsCount'
  <2>1. /\ ~dead /\ live' = [b \in Block |-> IF b = p THEN NoPtr ELSE live[b]]
        /\ dangling' = dangling \cup (IF p = Null THEN {} ELSE PointerTo(p))
        /\ UNCHANGED <<curr_version, born>>
    BY <1>4 DEF Free
  <2>2. \A c \in Block : /\ live'[c].tag # LA => live'[c].tag = live[c].tag
                         /\ c = p => live'[c].tag = LA
    BY <2>1 DEF NoPtr
  <2>3. \A c \in Block : live'[c].tag # LA /\ born'[c] < Versions
                           => Since(curr_version', live'[c].tag, born'[c])
    BY <2>1, <2>2 DEF VersionsCount
  <2>4. ASSUME NEW d \in dangling'
        PROVE  /\ Since(curr_version', d.tag, d.age)
               /\ live'[d.block].tag # LA => born'[d.block] < d.age
    <3>1. CASE d \in dangling
      BY <1>1, <2>1, <2>2, <3>1, DanglingType DEF VersionsCount
    <3>2. CASE p # Null /\ d \in PointerTo(p)
      BY <1>1, <2>1, <2>2, <3>2, GoneCounts
    <3> QED BY <2>1, <2>4, <3>1, <3>2
  <2> QED BY <2>3, <2>4 DEF VersionsCount
<1>5. CASE UNCHANGED vars
  BY <1>5 DEF vars, vvars, VersionsCount
<1> QED BY <1>2, <1>3, <1>4, <1>5 DEF Next

\* Of cc_free_encoded and assign_version: an encoded pointer to a block that was freed or moved
\* matches none of the block's ICVs, whoever holds the block now, until curr_version comes
\* round to its version again.
THEOREM UseAfterFreeDetected == Spec => []DanglingDetected
<1>1. Init => VersionsCount
  <2> SUFFICES ASSUME Init PROVE VersionsCount
    OBVIOUS
  <2>1. dangling = {} /\ \A b \in Block : live[b] = NoPtr
    BY DEF Init
  <2> QED BY <2>1 DEF VersionsCount, NoPtr
<1>2. IInv /\ VersionsCount => DanglingDetected
  <2> SUFFICES ASSUME IInv, VersionsCount, ~dead, NEW d \in dangling, NEW i \in Granule
               PROVE  icv[d.block][i] # d.tag
    BY DEF DanglingDetected
  <2>1. TypeOK /\ d.block \in Block /\ d.age \in Nat /\ d.age < Versions /\ d.tag \in Version
    BY DanglingType DEF IInv
  <2>2. d.tag # LA
    BY <2>1, MallocAssumption DEF Version
  <2>3. icv[d.block] = IF Held(d.block) THEN SetUp(live[d.block]) ELSE Clear
    BY <2>1 DEF IInv, IcvsMatchHolder
  <2>4. icv[d.block][i] = LA \/ icv[d.block][i] = live[d.block].tag
    BY <2>3 DEF Clear, SetUp
  <2>5. CASE live[d.block].tag = LA
    BY <2>2, <2>4, <2>5
  <2>6. CASE live[d.block].tag # LA
    <3>1. born[d.block] < d.age /\ Since(curr_version, d.tag, d.age)
      BY <2>6 DEF VersionsCount
    <3>2. live[d.block].tag \in Version /\ born[d.block] \in Nat
      BY <2>1, <2>6, TagType
    <3>3. born[d.block] < Versions
      BY <2>1, <3>1, <3>2, MallocAssumption
    <3>4. Since(curr_version, live[d.block].tag, born[d.block])
      BY <2>1, <2>6, <3>3 DEF VersionsCount
    <3>5. live[d.block].tag # d.tag
      BY <2>1, <3>1, <3>2, <3>4, SinceDiffers
    <3> QED BY <2>2, <2>4, <3>5
  <2> QED BY <2>5, <2>6
<1> QED BY <1>1, <1>2, InitIInv, NextIInv, VersionsCountNext, PTL DEF Spec

-----------------------------------------------------------------------------
(***************************************************************************)
(* The delay of the quarantine.  The slots are filled in a fixed circular  *)
(* order, so a slot's place tells how many were filled after it; the age   *)
(* of the block in it is at least that.                                    *)
(***************************************************************************)
RowsAfter(s) ==
  IF s[1] <= quarantine_current_buffer THEN quarantine_current_buffer - s[1]
  ELSE quarantine_current_buffer + QUARANTINE_WIDTH - s[1]

Later(s) == RowsAfter(s) * QUARANTINE_DEPTH + quarantine_current_index - s[2] - 1

Ages ==
  ~dead /\ cc_quarantine_enabled =>
    \A s \in Pending : At(s) # Null => age[At(s)] >= Later(s)

LEMMA LaterType ==
  ASSUME TypeOK, NEW s \in Row \X Col
  PROVE  Later(s) \in Int
<1>1. /\ quarantine_current_buffer \in Int /\ quarantine_current_index \in Int
      /\ QUARANTINE_WIDTH \in Int /\ QUARANTINE_DEPTH \in Int
  BY MallocAssumption DEF TypeOK
<1>2. s[1] \in Int /\ s[2] \in Int
  BY DEF Row, Col
<1>3. RowsAfter(s) \in Int
  BY <1>1, <1>2 DEF RowsAfter
<1> HIDE DEF RowsAfter
<1>4. RowsAfter(s) * QUARANTINE_DEPTH \in Int
  BY <1>1, <1>3
<1> QED BY <1>1, <1>2, <1>4 DEF Later

\* With every insertion the other slots move one place back; the row that is emptied comes from
\* the far end.
LEMMA LaterSteps ==
  ASSUME TypeOK, TypeOK', NEW s \in Row \X Col,
         quarantine_current_index' = IF quarantine_current_index + 1 = QUARANTINE_DEPTH
                                     THEN 0 ELSE quarantine_current_index + 1,
         quarantine_current_buffer' = NextBuffer(quarantine_current_index')
  PROVE  /\ s = Here /\ s \in Pending' => Later(s)' = 0
         /\ s \in Pending /\ s \in Pending' => Later(s)' = Later(s) + 1
         /\ s \in Pending /\ s \notin Pending' =>
              Later(s) + 1 >= (QUARANTINE_WIDTH - 1) * QUARANTINE_DEPTH
              \/ QUARANTINE_WIDTH = 1
<1> DEFINE cb == quarantine_current_buffer
           ci == quarantine_current_index
           wi == QUARANTINE_WIDTH
           de == QUARANTINE_DEPTH
<1>1. /\ cb \in 0 .. wi - 1 /\ ci \in 0 .. de - 1 /\ wi \in Nat \ {0} /\ de \in Nat \ {0}
      /\ cb' \in 0 .. wi - 1 /\ ci' \in 0 .. de - 1
  BY MallocAssumption DEF TypeOK
<1>2. s[1] \in 0 .. wi - 1 /\ s[2] \in 0 .. de - 1 /\ s = <<s[1], s[2]>>
  BY DEF Row, Col
<1>3. cb' = IF ci + 1 # de THEN cb ELSE IF cb + 1 = wi THEN 0 ELSE cb + 1
  <2>1. ci' = 0 <=> ci + 1 = de
    BY <1>1
  <2>2. Q_NEXT(cb, wi) = IF cb + 1 = wi THEN 0 ELSE cb + 1
    BY <1>1, QNext
  <2> QED BY <2>1, <2>2 DEF NextBuffer
<1>4. s = Here <=> s[1] = cb /\ s[2] = ci
  BY <1>2 DEF Here
<1>5. /\ s \in Pending <=> s[1] # cb \/ s[2] < ci
      /\ s \in Pending' <=> s[1] # cb' \/ s[2] < ci'
  BY DEF Pending, Row, Col
<1>6. ASSUME NEW x \in Int PROVE (x + 1) * de = x * de + de /\ 0 * de = 0 /\ 1 * de = de
  BY <1>1
<1>7. RowsAfter(s) = IF s[1] <= cb THEN cb - s[1] ELSE cb + wi - s[1]
  BY DEF RowsAfter
<1>8. RowsAfter(s)' = IF s[1] <= cb' THEN cb' - s[1] ELSE cb' + wi - s[1]
  BY DEF RowsAfter
<1>9. Later(s) = RowsAfter(s) * de + ci - s[2] - 1 /\ Later(s)' = RowsAfter(s)' * de + ci' - s[2] - 1
  BY DEF Later
<1>10. RowsAfter(s) \in Int /\ RowsAfter(s)' \in Int
  BY <1>1, <1>2, <1>7, <1>8
<1>11. CASE ci + 1 # de
  <2>1. cb' = cb /\ ci' = ci + 1 /\ RowsAfter(s)' = RowsAfter(s)
    BY <1>3, <1>7, <1>8, <1>11
  <2>2. PICK m \in Int : m = RowsAfter(s) * de
    BY <1>1, <1>10
  <2>3. s \in Pending => s \in Pending'
    BY <1>1, <1>2, <1>5, <2>1
  <2>4. Later(s)' = Later(s) + 1
    BY <1>1, <1>2, <1>9, <2>1, <2>2
  <2>5. s = Here => Later(s)' = 0
    <3> SUFFICES ASSUME s = Here PROVE Later(s)' = 0
      OBVIOUS
    <3>1. RowsAfter(s) = 0
      BY <1>1, <1>4, <1>7
    <3>2. RowsAfter(s) * de = 0
      BY <1>6, <3>1
    <3> QED BY <1>1, <1>2, <1>4, <1>9, <2>1, <3>2
  <2> QED BY <2>3, <2>4, <2>5
<1>12. CASE ci + 1 = de
  <2>1. ci' = 0 /\ ci = de - 1 /\ cb' = IF cb + 1 = wi THEN 0 ELSE cb + 1
    BY <1>1, <1>3, <1>12
  <2>2. s \in Pending' <=> s[1] # cb'
    BY <1>2, <1>5, <2>1
  <2>3. ASSUME s \in Pending' PROVE RowsAfter(s)' = RowsAfter(s) + 1
    BY <1>1, <1>2, <1>7, <1>8, <2>1, <2>2, <2>3
  <2>4. ASSUME s \in Pending' PROVE Later(s)' = Later(s) + 1
    <3>1. RowsAfter(s)' * de = RowsAfter(s) * de + de
      BY <1>6, <1>10, <2>3, <2>4
    <3>2. PICK m \in Int : m = RowsAfter(s) * de
      BY <1>1, <1>10
    <3> QED BY <1>1, <1>2, <1>9, <2>1, <3>1, <3>2
  <2>5. ASSUME s = Here, s \in Pending' PROVE Later(s)' = 0
    <3>1. RowsAfter(s) = 0
      BY <1>1, <1>4, <1>7, <2>5
    <3>2. RowsAfter(s) * de = 0
      BY <1>6, <3>1
    <3>3. Later(s) + 1 = 0
      BY <1>1, <1>4, <1>9, <2>5, <3>2
    <3> QED BY <2>4, <2>5, <3>3
  <2>6. ASSUME s \notin Pending', wi # 1 PROVE Later(s) + 1 >= (wi - 1) * de
    <3>1. RowsAfter(s) = wi - 1
      BY <1>1, <1>2, <1>7, <2>1, <2>2, <2>6
    <3>2. PICK m \in Int : m = (wi - 1) * de
      BY <1>1
    <3> QED BY <1>1, <1>2, <1>9, <2>1, <3>1, <3>2
  <2> QED BY <2>4, <2>5, <2>6
<1> QED BY <1>11, <1>12

(***************************************************************************)
(* What a free does to the slots: the current one gets the pointer, the    *)
(* others keep theirs, pending slots are old ones or the current one, and  *)
(* the blocks returned are those of the pending slots that leave.          *)
(***************************************************************************)
LEMMA FreeSlots ==
  ASSUME IInv, IInv', cc_quarantine_enabled, NEW p \in Block \cup {Null}, Free(p)
  PROVE  /\ ~dead
         /\ \A s \in Pending : s \in Row \X Col /\ At(s)' = At(s) /\ s # Here
         /\ \A s \in Pending' : s \in Row \X Col /\ (s \in Pending \/ (s = Here /\ At(s)' = p))
         /\ \A b \in real \ real' : b = p \/ \E s \in Pending : s \notin Pending' /\ At(s) = b
         /\ quarantine_current_index' = IF quarantine_current_index + 1 = QUARANTINE_DEPTH
                                        THEN 0 ELSE quarantine_current_index + 1
         /\ quarantine_current_buffer' = NextBuffer(quarantine_current_index')
         /\ \A b \in Block : /\ b = p => age'[b] = 0
                             /\ b # p /\ b \in real /\ b \in real' /\ ~Held(b) => age'[b] = age[b] + 1
<1> DEFINE icvs == cc_pre_real_free_clear_icv(icv, {p})
           freed == IF quarantine_current_index' = 0
                    THEN quarantine_buffer_free(quarantine_buffers', quarantine_current_buffer') ELSE {}
<1>1. ~dead /\ (p # Null => Held(p)) /\ TypeOK /\ TypeOK' /\ quarantine_insert(p, icvs)
  BY DEF Free, Held, IInv
<1>2. icvs \in [Block -> [Granule -> Tag]]
  BY <1>1, ClearType DEF cc_pre_real_free_clear_icv, TypeOK
<1> HIDE DEF icvs
<1>3. /\ quarantine_buffers' = [quarantine_buffers EXCEPT
                    ![quarantine_current_buffer][quarantine_current_index] = p]
      /\ quarantine_current_buffer' = NextBuffer(quarantine_current_index')
      /\ real' = real \ freed
      /\ age' = [b \in Block |-> IF b = p \/ b \in freed THEN 0
                                 ELSE IF b \in real /\ live[b] = NoPtr THEN age[b] + 1
                                 ELSE age[b]]
  BY <1>1 DEF quarantine_insert
<1>4. quarantine_current_index' = IF quarantine_current_index + 1 = QUARANTINE_DEPTH
                                  THEN 0 ELSE quarantine_current_index + 1
  BY <1>1, <1>2, InsertType
<1>5. Here \in Row \X Col /\ Here \notin Pending /\ Pending \subseteq Row \X Col
      /\ Pending' \subseteq Row \X Col
  BY <1>1 DEF TypeOK, Here, Pending, Row, Col
<1>6. \A s \in Row \X Col : At(s)' = IF s = Here THEN p ELSE At(s)
  <2> SUFFICES ASSUME NEW s \in Row \X Col
               PROVE  At(s)' = IF s = Here THEN p ELSE At(s)
    OBVIOUS
  <2>1. s[1] \in Row /\ s[2] \in Col /\ s = <<s[1], s[2]>>
    OBVIOUS
  <2>2. s = Here <=> s[1] = quarantine_current_buffer /\ s[2] = quarantine_current_index
    BY <2>1 DEF Here
  <2>3. /\ quarantine_current_buffer \in Row /\ quarantine_current_index \in Col
        /\ quarantine_buffers \in [Row -> [Col -> Block \cup {Null}]]
    BY <1>1 DEF TypeOK, Row, Col
  <2> HIDE DEF Row, Col
  <2> QED BY <1>3, <2>1, <2>2, <2>3 DEF At
<1>7. \A b \in Block : /\ b = p => age'[b] = 0
                       /\ b # p /\ b \in real /\ b \in real' /\ ~Held(b) => age'[b] = age[b] + 1
  <2> HIDE DEF freed
  <2> QED BY <1>3 DEF Held
<1>8. \A s \in Pending : s \in Row \X Col /\ At(s)' = At(s) /\ s # Here
  BY <1>5, <1>6
<1>9. CASE quarantine_current_index + 1 # QUARANTINE_DEPTH
  <2>1. quarantine_current_index' # 0 /\ quarantine_current_index' = quarantine_current_index + 1
    BY <1>1, <1>4, <1>9 DEF TypeOK
  <2>2. quarantine_current_buffer' = quarantine_current_buffer
    BY <1>3, <2>1 DEF NextBuffer
  <2>3. Pending' = Ins
    BY <1>1, <1>9, <2>1, <2>2, PendingGrows
  <2>4. real' = real
    BY <1>3, <2>1
  <2>5. \A s \in Pending' : s \in Row \X Col /\ (s \in Pending \/ (s = Here /\ At(s)' = p))
    BY <1>5, <1>6, <2>3 DEF Ins
  <2> QED BY <1>1, <1>3, <1>4, <1>7, <1>8, <2>4, <2>5
<1>10. CASE quarantine_current_index + 1 = QUARANTINE_DEPTH
  <2>1. quarantine_current_index' = 0
    BY <1>4, <1>10
  <2>2. /\ Ins = Row \X Col
        /\ \A s \in Row \X Col : s \in Pending' <=> s[1] # quarantine_current_buffer'
    BY <1>1, <1>10, <2>1, RowLeaves
  <2>3. \A s \in Pending' : s \in Row \X Col /\ (s \in Pending \/ (s = Here /\ At(s)' = p))
    BY <1>5, <1>6, <2>2 DEF Ins
  <2>4. ASSUME NEW b \in real \ real', b # p
        PROVE  \E s \in Pending : s \notin Pending' /\ At(s) = b
    <3>1. b \in quarantine_buffer_free(quarantine_buffers', quarantine_current_buffer')
      BY <1>3, <2>1, <2>4
    <3>2. PICK i \in Col : quarantine_buffers'[quarantine_current_buffer'][i] = b
      BY <3>1 DEF quarantine_buffer_free, Col
    <3>3. PICK r \in Row : r = quarantine_current_buffer'
      BY <1>1 DEF TypeOK, Row
    <3>4. /\ <<r, i>> \in Row \X Col /\ At(<<r, i>>)' = b
          /\ <<r, i>>[1] = quarantine_current_buffer'
      BY <3>2, <3>3 DEF At
    <3>5. PICK s \in Row \X Col : At(s)' = b /\ s[1] = quarantine_current_buffer'
      BY <3>4
    <3>6. s # Here
      BY <1>6, <2>4, <3>5
    <3> QED BY <1>6, <2>2, <3>5, <3>6 DEF Ins
  <2> QED BY <1>1, <1>3, <1>4, <1>7, <1>8, <2>3, <2>4
<1> QED BY <1>9, <1>10

LEMMA AgesNext == IInv /\ Ages /\ [Next]_vars => Ages'
<1> SUFFICES ASSUME IInv, Ages, [Next]_vars PROVE Ages'
  OBVIOUS
<1>1. IInv' /\ TypeOK /\ TypeOK'
  BY NextIInv DEF IInv
<1>2. ASSUME UNCHANGED <<quarantine_buffers, quarantine_current_buffer, quarantine_current_index,
                         age, cc_quarantine_enabled>>, ~dead
      PROVE  Ages'
  BY <1>2 DEF Ages, Later, RowsAfter, Pending, At
<1>3. ASSUME NEW b \in Block, NEW size \in Sizes, Malloc(b, size) PROVE Ages'
  BY <1>2, <1>3 DEF Malloc, qvars
<1>4. ASSUME NEW o \in Block, NEW b \in Block, NEW size \in Sizes, Realloc(o, b, size) PROVE Ages'
  BY <1>2, <1>4 DEF Realloc, qvars
<1>5. ASSUME NEW p \in Block \cup {Null}, Free(p) PROVE Ages'
  <2>1. CASE ~cc_quarantine_enabled
    BY <1>5, <2>1 DEF Ages, Free
  <2>2. CASE cc_quarantine_enabled
    <3> SUFFICES ASSUME NEW s \in Pending', At(s)' # Null, ~dead' PROVE age'[At(s)'] >= Later(s)'
      BY DEF Ages
    <3>1. /\ ~dead /\ s \in Row \X Col /\ (s \in Pending \/ (s = Here /\ At(s)' = p))
          /\ s \in Pending => At(s)' = At(s)
          /\ quarantine_current_index' = IF quarantine_current_index + 1 = QUARANTINE_DEPTH
                                         THEN 0 ELSE quarantine_current_index + 1
          /\ quarantine_current_buffer' = NextBuffer(quarantine_current_index')
          /\ \A b \in Block : /\ b = p => age'[b] = 0
                              /\ b # p /\ b \in real /\ b \in real' /\ ~Held(b) => age'[b] = age[b] + 1
      BY <1>1, <1>5, <2>2, FreeSlots
    <3>2. /\ s = Here => Later(s)' = 0
          /\ s \in Pending => Later(s)' = Later(s) + 1
      BY <1>1, <3>1, LaterSteps
    <3>3. At(s)' \in Block
      <4>1. quarantine_buffers' \in [Row -> [Col -> Block \cup {Null}]] /\ s[1] \in Row /\ s[2] \in Col
        BY <1>1, <3>1 DEF TypeOK, Row, Col
      <4> HIDE DEF Row, Col
      <4>2. quarantine_buffers'[s[1]][s[2]] \in Block \cup {Null}
        BY <4>1
      <4> QED BY <4>2 DEF At
    <3>4. CASE At(s)' = p
      <4>1. s \notin Pending
        <5>1. Held(p)
          BY <1>5, <3>3, <3>4, MallocAssumption DEF Free, Held
        <5> QED BY <3>1, <3>3, <3>4, <5>1, MallocAssumption DEF IInv, QuarantineExact
      <4> QED BY <3>1, <3>2, <3>3, <3>4, <4>1
    <3>5. CASE At(s)' # p
      <4>1. s \in Pending /\ At(s)' = At(s) /\ At(s) \in Block
        BY <3>1, <3>3, <3>5
      <4>2. age[At(s)] >= Later(s)
        BY <2>2, <3>1, <3>3, <4>1, MallocAssumption DEF Ages
      <4>3. At(s) \in real /\ ~Held(At(s))
        BY <3>1, <3>3, <4>1, MallocAssumption DEF IInv, QuarantineExact
      <4>4. At(s) \in real'
        <5>1. \A b \in Block : (\E t \in Pending' : At(t)' = b) => b \in real'
          BY <1>1 DEF IInv, QuarantineExact
        <5> QED BY <3>3, <4>1, <5>1
      <4>5. age'[At(s)] = age[At(s)] + 1
        BY <3>1, <3>5, <4>1, <4>3, <4>4
      <4>6. age[At(s)] \in Nat /\ Later(s) \in Int
        <5>1. age[At(s)] \in Nat
          BY <1>1, <4>1 DEF TypeOK
        <5> QED BY <1>1, <3>1, <5>1, LaterType
      <4> QED BY <3>2, <4>1, <4>2, <4>5, <4>6
    <3> QED BY <3>4, <3>5
  <2> QED BY <2>1, <2>2
<1>6. CASE UNCHANGED vars
  BY <1>6 DEF vars, qvars, Ages, Later, RowsAfter, Pending, At
<1> QED BY <1>3, <1>4, <1>5, <1>6 DEF Next

\* Of quarantine_insert and quarantine_buffer_free: with the quarantine on, a freed block is not
\* given back to the system allocator before (WIDTH - 1) * DEPTH later frees.
THEOREM QuarantineAlwaysDelays == Spec => QuarantineDelays
<1> DEFINE Delay == \A b \in real \ real' :
                       cc_quarantine_enabled /\ ~Held(b)
                         => age[b] + 1 >= (QUARANTINE_WIDTH - 1) * QUARANTINE_DEPTH
<1>1. Init => Ages
  <2> SUFFICES ASSUME Init, NEW s \in Pending PROVE At(s) = Null
    BY DEF Ages
  <2>1. s[1] \in Row /\ s[2] \in Col
    BY DEF Pending, Row, Col
  <2>2. quarantine_buffers = [w \in Row |-> [i \in Col |-> Null]]
    BY DEF Init, Row, Col
  <2> QED BY <2>1, <2>2 DEF At
<1>2. IInv /\ IInv' /\ Ages /\ [Next]_vars => [Delay]_vars
  <2> SUFFICES ASSUME IInv, IInv', Ages, Next, NEW b \in real \ real', cc_quarantine_enabled, ~Held(b)
               PROVE  age[b] + 1 >= (QUARANTINE_WIDTH - 1) * QUARANTINE_DEPTH
    OBVIOUS
  <2>1. ASSUME NEW c \in Block, NEW size \in Sizes, Malloc(c, size) PROVE FALSE
    BY <2>1 DEF Malloc
  <2>2. ASSUME NEW o \in Block, NEW c \in Block, NEW size \in Sizes, Realloc(o, c, size) PROVE FALSE
    BY <2>2 DEF Realloc, Held
  <2>3. PICK p \in Block \cup {Null} : Free(p)
    BY <2>1, <2>2 DEF Next
  <2>4. b \in Block /\ TypeOK /\ TypeOK' /\ b # Null
    BY MallocAssumption DEF IInv, TypeOK
  <2>5. b # p
    BY <2>3, <2>4 DEF Free, Held
  <2>6. PICK s \in Pending : s \notin Pending' /\ At(s) = b
    BY <2>3, <2>5, FreeSlots
  <2>7. /\ ~dead /\ s \in Row \X Col
        /\ quarantine_current_index' = IF quarantine_current_index + 1 = QUARANTINE_DEPTH
                                       THEN 0 ELSE quarantine_current_index + 1
        /\ quarantine_current_buffer' = NextBuffer(quarantine_current_index')
    BY <2>3, <2>6, FreeSlots
  <2>8. Later(s) + 1 >= (QUARANTINE_WIDTH - 1) * QUARANTINE_DEPTH \/ QUARANTINE_WIDTH = 1
    BY <2>4, <2>6, <2>7, LaterSteps
  <2>9. age[b] >= Later(s)
    BY <2>4, <2>6, <2>7 DEF Ages
  <2>10. age[b] \in Nat /\ Later(s) \in Int
    <3>1. age[b] \in Nat
      BY <2>4 DEF TypeOK
    <3> QED BY <2>4, <2>7, <3>1, LaterType
  <2>11. (QUARANTINE_WIDTH - 1) * QUARANTINE_DEPTH \in Int
         /\ (QUARANTINE_WIDTH = 1 => (QUARANTINE_WIDTH - 1) * QUARANTINE_DEPTH = 0)
    BY MallocAssumption
  <2> QED BY <2>8, <2>9, <2>10, <2>11
<1> QED BY <1>1, <1>2, InitIInv, NextIInv, AgesNext, PTL DEF Spec, QuarantineDelays

-----------------------------------------------------------------------------
\* Of cc_malloc_ldpreload.c: whatever malloc, calloc and any number of reallocs made of a pointer
\* of glibc, with the mark or without, realloc and free call glibc with just that pointer.
THEOREM WrapperGivesBack ==
  ASSUME NEW p \in W!RealPointer, NEW q \in W!RealPointer, NEW num \in Nat, NEW size \in Nat
  PROVE  /\ W!malloc(size, p) \in W!Handed(p)
         /\ W!calloc(num, size, p).returns \in W!Handed(p)
         /\ \A held \in W!Handed(p) :
              /\ W!RealOld(held) = p
              /\ W!realloc(held, q) \in W!Handed(q)
              /\ W!free(held) = {p} \/ (W!free(held) = {} /\ p = W!NULL)
<1>1. PICK a \in Nat : p = [top |-> 0, address |-> a]
  BY DEF W!RealPointer
<1>2. W!transform_pointer(p) = [top |-> 1, address |-> a]
  BY <1>1 DEF W!transform_pointer
<1>3. W!transform_pointer([top |-> 1, address |-> a]) = p
  BY <1>1 DEF W!transform_pointer
<1>4. ASSUME NEW held \in W!Handed(p)
      PROVE  /\ W!RealOld(held) = p
             /\ W!realloc(held, q) \in W!Handed(q)
             /\ W!free(held) = {p} \/ (W!free(held) = {} /\ p = W!NULL)
  <2>1. CASE held = p
    BY <1>1, <2>1 DEF W!RealOld, W!realloc, W!free, W!is_tagged_pointer, W!Handed
  <2>2. CASE held = [top |-> 1, address |-> a]
    BY <1>1, <1>3, <2>2
      DEF W!RealOld, W!realloc, W!free, W!is_tagged_pointer, W!Handed, W!NULL
  <2> QED BY <1>2, <1>4, <2>1, <2>2 DEF W!Handed
<1> QED BY <1>4 DEF W!malloc, W!calloc, W!Handed

\* A failed allocation comes back as NULL only if it was not a small one.
THEOREM WrapperHidesFailure ==
  ASSUME NEW size \in Nat
  PROVE  W!malloc(size, W!NULL) = W!NULL <=> size >= W!Small
  BY DEF W!malloc, W!NULL, W!Small, W!transform_pointer

\* The memcpy of cc_malloc_wrapper.c copies everything just if that is less than 4 GiB.
THEOREM WrapperMemcpyTruncates ==
  ASSUME NEW num \in Nat
  PROVE  W!wrap_memcpy(num) = num <=> num < 4294967296
  BY DEF W!wrap_memcpy
=============================================================================
