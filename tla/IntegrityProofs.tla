-------------------------- MODULE IntegrityProofs ---------------------------
(***************************************************************************)
(* The ICVs: how they are stored, and what the checks make of them.        *)
(***************************************************************************)
EXTENDS Integrity, ICVMap, FiniteSetTheorems, TLAPS

-----------------------------------------------------------------------------
(***************************************************************************)
(* The store, for every page size, every set of granules and every set of  *)
(* check values: the page counts are exact, and the paged map implements   *)
(* the flat table.  CountExact is what makes the erasure in set() right,   *)
(* so it is needed for the refinement: together with MapTypeOK it is the   *)
(* inductive invariant.                                                    *)
(***************************************************************************)
MapIInv == MapTypeOK /\ CountExact

(* i / PageSize and i % PageSize of a granule number name a page and a slot. *)
LEMMA IndexSplit ==
  ASSUME NEW i \in Index
  PROVE  get_page1_index(i) \in Slot /\ get_page2_index(i) \in PageNo
<1>1. i \in Nat /\ PageSize \in Nat /\ PageSize > 0
  BY MapAssumption
<1>2. i % PageSize \in 0 .. (PageSize - 1)
  BY <1>1, SMT
<1> QED
  BY <1>2 DEF get_page1_index, get_page2_index, Slot, PageNo

(* Page and slot together determine the granule: two granules never share an entry. *)
LEMMA IndexSplitInjective ==
  ASSUME NEW i \in Index, NEW k \in Index,
         get_page1_index(i) = get_page1_index(k),
         get_page2_index(i) = get_page2_index(k)
  PROVE  i = k
<1>1. i \in Nat /\ k \in Nat /\ PageSize \in Nat /\ PageSize > 0
  BY MapAssumption
<1>2. i % PageSize = k % PageSize /\ i \div PageSize = k \div PageSize
  BY DEF get_page1_index, get_page2_index
<1>3. ASSUME NEW n \in Nat
      PROVE  n = PageSize * (n \div PageSize) + (n % PageSize)
  BY <1>1, SMT
<1> QED
  BY <1>1, <1>2, <1>3

(* A page has finitely many nonzero entries, so its count exists. *)
LEMMA SlotFinite ==
  ASSUME NEW page
  PROVE  /\ IsFiniteSet(NonZero(page))
         /\ Cardinality(NonZero(page)) \in Nat
<1>1. IsFiniteSet(Slot)
  BY MapAssumption, FS_Interval DEF Slot
<1>2. NonZero(page) \in SUBSET Slot
  BY DEF NonZero
<1> QED
  BY <1>1, <1>2, FS_Subset, FS_CardinalityType

(***************************************************************************)
(* Page1::set keeps a page well-typed and its count exact.                 *)
(***************************************************************************)
LEMMA Page1SetExact ==
  ASSUME NEW page \in Page1, NEW i \in Index, NEW val \in Icv,
         page.count = Cardinality(NonZero(page))
  PROVE  LET new == Page1Set(page, i, val)
         IN  /\ new \in Page1
             /\ new.count = Cardinality(NonZero(new))
             /\ new.icv = [page.icv EXCEPT ![get_page1_index(i)] = val]
<1> DEFINE j   == get_page1_index(i)
           new == Page1Set(page, i, val)
<1>1. j \in Slot
  BY IndexSplit
<1>2. /\ page.icv \in [Slot -> Icv]
      /\ page.count \in Nat
      /\ new.icv = [page.icv EXCEPT ![j] = val]
      /\ new.icv \in [Slot -> Icv]
      /\ \A s \in Slot : new.icv[s] = IF s = j THEN val ELSE page.icv[s]
  BY <1>1 DEF Page1, Page1Set
<1>3. IsFiniteSet(NonZero(page))
  BY SlotFinite
<1>4. CASE page.icv[j] # 0 /\ val = 0
  <2>1. NonZero(new) = NonZero(page) \ {j} /\ j \in NonZero(page)
    BY <1>1, <1>2, <1>4 DEF NonZero
  <2>2. Cardinality(NonZero(new)) = page.count - 1
    BY <1>3, <2>1, FS_RemoveElement
  <2>3. new.count = page.count - 1
    BY <1>4 DEF Page1Set
  <2>4. new.count \in Nat
    BY <2>2, <2>3, SlotFinite
  <2> QED
    BY <1>2, <2>2, <2>3, <2>4 DEF Page1, Page1Set
<1>5. CASE page.icv[j] = 0 /\ val # 0
  <2>1. NonZero(new) = NonZero(page) \cup {j} /\ j \notin NonZero(page)
    BY <1>1, <1>2, <1>5 DEF NonZero
  <2>2. Cardinality(NonZero(new)) = page.count + 1
    BY <1>3, <2>1, FS_AddElement
  <2>3. new.count = page.count + 1
    BY <1>5 DEF Page1Set
  <2> QED
    BY <1>2, <2>2, <2>3 DEF Page1, Page1Set
<1>6. CASE ~(page.icv[j] # 0 /\ val = 0) /\ ~(page.icv[j] = 0 /\ val # 0)
  <2>1. NonZero(new) = NonZero(page)
    BY <1>1, <1>2, <1>6 DEF NonZero
  <2>2. new.count = page.count
    BY <1>6 DEF Page1Set
  <2> QED
    BY <1>2, <2>1, <2>2 DEF Page1, Page1Set
<1> QED
  BY <1>4, <1>5, <1>6

(* A page made by operator[] is well-typed and its count, 0, is exact. *)
LEMMA NewPage1Exact ==
  /\ NewPage1 \in Page1
  /\ NewPage1.count = Cardinality(NonZero(NewPage1))
<1>1. NonZero(NewPage1) = {}
  BY DEF NonZero, NewPage1
<1> QED
  BY <1>1, FS_EmptySet, MapAssumption DEF NewPage1, Page1

-----------------------------------------------------------------------------
(* Every step keeps the pages well-typed and their counts exact. *)
LEMMA SetInPageKeepsIInv ==
  ASSUME MapIInv, NEW i \in Index, NEW val \in Icv, SetInPage(i, val)
  PROVE  MapIInv'
<1> DEFINE p    == get_page2_index(i)
           page == Page1Set(icv_map[p], i, val)
<1>1. p \in PageNo
  BY IndexSplit
<1>2. p \in DOMAIN icv_map /\ icv_map[p] \in Page1
      /\ icv_map[p].count = Cardinality(NonZero(icv_map[p]))
  BY DEF SetInPage, MapIInv, MapTypeOK, CountExact
<1>3. page \in Page1 /\ page.count = Cardinality(NonZero(page))
  BY <1>2, Page1SetExact
<1>4. CASE page.count = 0
  <2>1. icv_map' = WithoutPage(p)
    BY <1>4 DEF SetInPage
  <2> QED
    BY <2>1 DEF WithoutPage, MapIInv, MapTypeOK, CountExact
<1>5. CASE page.count # 0
  <2>1. icv_map' = WithPage(p, page)
    BY <1>5 DEF SetInPage
  <2>2. page.count > 0
    BY <1>3, <1>5 DEF Page1
  <2> QED
    BY <1>1, <1>3, <2>1, <2>2 DEF WithPage, MapIInv, MapTypeOK, CountExact
<1> QED
  BY <1>4, <1>5

(* A page made by set() holds exactly one value. *)
LEMMA SetNewPageKeepsIInv ==
  ASSUME MapIInv, NEW i \in Index, NEW val \in Icv, SetNewPage(i, val)
  PROVE  MapIInv'
<1> DEFINE p    == get_page2_index(i)
           page == Page1Set(NewPage1, i, val)
<1>1. p \in PageNo /\ get_page1_index(i) \in Slot
  BY IndexSplit
<1>2. CASE val = 0
  BY <1>2 DEF SetNewPage, MapIInv, MapTypeOK, CountExact
<1>3. CASE val # 0
  <2>1. icv_map' = WithPage(p, page)
    BY <1>3 DEF SetNewPage
  <2>2. page \in Page1 /\ page.count = Cardinality(NonZero(page))
    BY NewPage1Exact, Page1SetExact
  <2>3. page.count > 0
    BY <1>1, <1>3 DEF Page1Set, NewPage1
  <2> QED
    BY <1>1, <2>1, <2>2, <2>3 DEF WithPage, MapIInv, MapTypeOK, CountExact
<1> QED
  BY <1>2, <1>3

(***************************************************************************)
(* The counts by which set() decides to erase a page are exact in every    *)
(* reachable state, and no erasable page is kept.                          *)
(***************************************************************************)
THEOREM PageCountsExact == MapSpec => [](MapTypeOK /\ CountExact)
<1>1. MapInit => MapIInv
  BY DEF MapInit, MapIInv, MapTypeOK, CountExact
<1>2. MapIInv /\ [MapNext]_icv_map => MapIInv'
  <2> SUFFICES ASSUME MapIInv, [MapNext]_icv_map PROVE MapIInv'
    OBVIOUS
  <2>1. CASE Clear
    BY <2>1 DEF Clear, MapIInv, MapTypeOK, CountExact
  <2>2. CASE \E i \in Index, val \in Icv : set(i, val)
    BY <2>2, SetInPageKeepsIInv, SetNewPageKeepsIInv DEF set
  <2>3. CASE UNCHANGED icv_map
    BY <2>3 DEF MapIInv, MapTypeOK, CountExact
  <2> QED
    BY <2>1, <2>2, <2>3 DEF MapNext
<1> QED
  BY <1>1, <1>2, PTL DEF MapSpec, MapIInv

-----------------------------------------------------------------------------
(* After set(i, val), get(i) is val and get of every other granule is what it was. *)
LEMMA SetMapsToTableSet ==
  ASSUME MapIInv, NEW i \in Index, NEW val \in Icv, set(i, val)
  PROVE  \A k \in Index : get(k)' = IF k = i THEN val ELSE get(k)
<1> SUFFICES ASSUME NEW k \in Index
             PROVE  get(k)' = IF k = i THEN val ELSE get(k)
  OBVIOUS
<1> DEFINE p == get_page2_index(i)
           j == get_page1_index(i)
           q == get_page2_index(k)
           l == get_page1_index(k)
<1>1. j \in Slot /\ l \in Slot
  BY IndexSplit
<1>2. q = p /\ l = j => k = i
  BY IndexSplitInjective
<1>3. CASE SetInPage(i, val)
  <2> DEFINE page == Page1Set(icv_map[p], i, val)
  <2>1. p \in DOMAIN icv_map /\ icv_map[p] \in Page1
        /\ icv_map[p].count = Cardinality(NonZero(icv_map[p]))
    BY <1>3 DEF SetInPage, MapIInv, MapTypeOK, CountExact
  <2>2. /\ page \in Page1
        /\ page.count = Cardinality(NonZero(page))
        /\ page.icv = [icv_map[p].icv EXCEPT ![j] = val]
    BY <2>1, Page1SetExact
  <2>3. \A s \in Slot : page.icv[s] = IF s = j THEN val ELSE icv_map[p].icv[s]
    BY <1>1, <2>1, <2>2 DEF Page1
  <2>4. CASE page.count = 0
    <3>1. NonZero(page) = {}
      BY <2>2, <2>4, SlotFinite, FS_EmptySet
    <3>2. \A s \in Slot : page.icv[s] = 0
      BY <3>1 DEF NonZero
    <3>3. icv_map' = WithoutPage(p)
      BY <1>3, <2>4 DEF SetInPage
    <3>4. CASE q = p
      <4>1. get(k)' = 0
        BY <3>3, <3>4 DEF WithoutPage, get
      <4>2. get(k) = icv_map[p].icv[l]
        BY <2>1, <3>4 DEF get
      <4> QED
        BY <1>1, <1>2, <2>3, <3>2, <3>4, <4>1, <4>2
    <3>5. CASE q # p
      BY <3>3, <3>5 DEF WithoutPage, get
    <3> QED
      BY <3>4, <3>5
  <2>5. CASE page.count # 0
    <3>1. icv_map' = WithPage(p, page)
      BY <1>3, <2>5 DEF SetInPage
    <3>2. CASE q = p
      <4>1. get(k)' = page.icv[l]
        BY <3>1, <3>2 DEF WithPage, get
      <4>2. get(k) = icv_map[p].icv[l]
        BY <2>1, <3>2 DEF get
      <4> QED
        BY <1>1, <1>2, <2>3, <3>2, <4>1, <4>2
    <3>3. CASE q # p
      BY <3>1, <3>3 DEF WithPage, get
    <3> QED
      BY <3>2, <3>3
  <2> QED
    BY <2>4, <2>5
<1>4. CASE SetNewPage(i, val)
  <2> DEFINE page == Page1Set(NewPage1, i, val)
  <2>1. p \notin DOMAIN icv_map
    BY <1>4 DEF SetNewPage
  <2>2. CASE val = 0
    <3>1. icv_map' = icv_map
      BY <1>4, <2>2 DEF SetNewPage
    <3> QED
      BY <2>1, <2>2, <3>1 DEF get
  <2>3. CASE val # 0
    <3>1. icv_map' = WithPage(p, page)
      BY <1>4, <2>3 DEF SetNewPage
    <3>2. page.icv = [NewPage1.icv EXCEPT ![j] = val]
      BY NewPage1Exact, Page1SetExact
    <3>3. \A s \in Slot : page.icv[s] = IF s = j THEN val ELSE 0
      BY <1>1, <3>2 DEF NewPage1
    <3>4. CASE q = p
      <4>1. get(k)' = page.icv[l]
        BY <3>1, <3>4 DEF WithPage, get
      <4>2. get(k) = 0
        BY <2>1, <3>4 DEF get
      <4> QED
        BY <1>1, <1>2, <3>3, <3>4, <4>1, <4>2
    <3>5. CASE q # p
      BY <3>1, <3>5 DEF WithPage, get
    <3> QED
      BY <3>4, <3>5
  <2> QED
    BY <2>2, <2>3
<1> QED
  BY <1>3, <1>4 DEF set

(***************************************************************************)
(* The paged, counted, self-erasing map implements the flat table: no      *)
(* history of set() and clear() makes get() return anything but the last   *)
(* value stored for the granule, or 0.                                     *)
(***************************************************************************)
THEOREM MapImplementsTable == MapSpec => ImplementsTable
<1>1. MapInit => Flat!Init
  BY DEF MapInit, Flat!Init, get
<1>2. MapIInv /\ [MapNext]_icv_map => [Flat!Next]_([i \in Index |-> get(i)])
  <2> SUFFICES ASSUME MapIInv, [MapNext]_icv_map
               PROVE  [Flat!Next]_([i \in Index |-> get(i)])
    OBVIOUS
  <2>1. CASE Clear
    <3>1. \A i \in Index : get(i)' = 0
      BY <2>1 DEF Clear, get
    <3> QED
      BY <3>1 DEF Flat!Next, Flat!Clear
  <2>2. ASSUME NEW i \in Index, NEW val \in Icv, set(i, val)
        PROVE  Flat!Next
    <3>1. \A k \in Index : get(k)' = IF k = i THEN val ELSE get(k)
      BY <2>2, SetMapsToTableSet
    <3>2. Flat!Set(i, val)
      BY <3>1 DEF Flat!Set
    <3> QED
      BY <3>2 DEF Flat!Next
  <2>3. CASE UNCHANGED icv_map
    BY <2>3 DEF get
  <2> QED
    BY <2>1, <2>2, <2>3 DEF MapNext
<1> QED
  BY <1>1, <1>2, PageCountsExact, PTL DEF MapSpec, MapIInv, ImplementsTable, Flat!Spec

-----------------------------------------------------------------------------
(***************************************************************************)
(* The checks, for every set of granules and tags and every choice of the  *)
(* fault options.  The invariant is inductive as it stands once the type   *)
(* invariant is added: each conjunct relates a granule's ICV to that       *)
(* granule's own history, so the lemmas below look at one granule k.       *)
(***************************************************************************)
IInv == TypeOK /\ MapBeforeUse /\ TaggedDataIsOwners /\ InitNeedsStore

\* A checked access leaves each granule a proper ICV with the same tag.
LEMMA CheckedIcvType ==
  ASSUME TypeOK, NEW k \in Granule, NEW tag, NEW first, NEW rw
  PROVE  /\ CheckedIcv(tag, k, first, rw) \in ICV
         /\ CheckedIcv(tag, k, first, rw).tag = icv[k].tag
<1>1. icv[k] \in ICV
  BY DEF TypeOK
<1>2. icv[k] \in [tag : Ptr \cup {Ones}, uninit : BOOLEAN, preinit : BOOLEAN]
      /\ (icv[k].uninit \/ icv[k].tag = Ones => icv[k].preinit)
  BY <1>1 DEF ICV
<1>3. CASE CheckedIcv(tag, k, first, rw) = icv[k]
  BY <1>1, <1>3
<1>4. CASE CheckedIcv(tag, k, first, rw) = [icv[k] EXCEPT !.uninit = FALSE]
  <2> DEFINE v == [icv[k] EXCEPT !.uninit = FALSE]
  <2>1. v \in [tag : Ptr \cup {Ones}, uninit : BOOLEAN, preinit : BOOLEAN]
    BY <1>2
  <2>2. v.tag = icv[k].tag /\ v.preinit = icv[k].preinit /\ v.uninit = FALSE
    BY <1>2
  <2>3. v.uninit \/ v.tag = Ones => v.preinit
    BY <1>2, <2>2
  <2> QED BY <1>4, <2>1, <2>2, <2>3 DEF ICV
<1> QED BY <1>3, <1>4 DEF CheckedIcv

\* ToICV and ~0 are proper ICVs.
LEMMA ConstantIcvs ==
  /\ \A tag \in Ptr : ToICV(tag) \in ICV
  /\ Invalid \in ICV
BY IntegrityAssumption DEF ToICV, Invalid, ICV, Ptr

\* The history bookkeeping of Reached is well typed and local to a granule.
LEMMA ReachedType ==
  ASSUME TypeOK, NEW S, NEW what \in {"attempted", "written"}, Reached(S, what)
  PROVE  /\ since' \in [Granule -> {"none", "attempted", "written"}]
         /\ \A k \in Granule : icv'[k].preinit =>
              \/ since'[k] = since[k]
              \/ since'[k] = what
         /\ \A k \in Granule : icv'[k].preinit /\ k \in S => since'[k] # "none"
         /\ \A k \in Granule : icv'[k].preinit /\ since[k] # "none" => since'[k] # "none"
BY DEF TypeOK, Reached

\* An access under lock keeps the invariant.
LEMMA LockedKeepsIInv ==
  ASSUME IInv, NEW tag \in Ptr, NEW g \in Granule, NEW n \in 1 .. 2,
         NEW rw \in {"read", "write"}, NEW m \in BOOLEAN,
         Span(g, n) \subseteq Granule, LockedAccess(tag, g, n, rw, m)
  PROVE  IInv'
<1> DEFINE done == Before(tag, g, n, rw)
<1>1. icv' = [k \in Granule |-> IF k \in done THEN CheckedIcv(tag, k, g, rw) ELSE icv[k]]
  BY DEF LockedAccess
<1>2. /\ icv' \in [Granule -> ICV]
      /\ \A k \in Granule : icv'[k].tag = icv[k].tag
  BY <1>1, CheckedIcvType DEF IInv, TypeOK
<1>3. UNCHANGED <<has_map, integrity, icv_enabled, icv_lock, suppress_mode>>
  BY DEF LockedAccess, ctxvars
<1>4. CASE rw = "write" /\ AccessOk(tag, g, n, rw)
  <2>1. content' = [k \in Granule |-> IF k \in Span(g, n)
                      THEN [by |-> tag, magic |-> m,
                            checked |-> IF Skip(tag, k, g, rw) THEN content[k].checked
                                        ELSE FaultOnWrite]
                      ELSE content[k]]
    BY <1>4 DEF LockedAccess, Store
  <2>2. Reached(Span(g, n), "written")
    BY <1>4 DEF LockedAccess
  <2>3. content' \in [Granule -> [by : Ptr, magic : BOOLEAN, checked : BOOLEAN]]
    BY <2>1, IntegrityAssumption DEF IInv, TypeOK
  <2>4. TypeOK'
    BY <1>2, <1>3, <2>3, <2>2, ReachedType DEF IInv, TypeOK
  <2>5. MapBeforeUse'
    BY <1>3 DEF IInv, MapBeforeUse
  <2>6. TaggedDataIsOwners'
    <3> SUFFICES ASSUME NEW k \in Granule, icv'[k].tag \in Tags, content'[k].checked
                 PROVE  content'[k].by = icv'[k].tag
      BY DEF TaggedDataIsOwners
    <3>1. CASE k \notin Span(g, n)
      BY <3>1, <2>1, <1>2 DEF IInv, TaggedDataIsOwners
    <3>2. CASE k \in Span(g, n) /\ Skip(tag, k, g, rw)
      <4>1. content[k].checked /\ content[k].by = tag
        BY <3>2, <2>1 DEF Skip, should_skip_icv_check, IsTripwire
      <4> QED BY <4>1, <3>2, <2>1, <1>2 DEF IInv, TaggedDataIsOwners
    <3>3. CASE k \in Span(g, n) /\ ~Skip(tag, k, g, rw)
      <4>1. FaultOnWrite
        BY <3>3, <2>1
      <4>2. k \in done
        BY <3>3, <1>4 DEF AccessOk
      <4>3. ~Faults(tag, k, g, rw)
        <5>1. k \in g .. k
          BY <3>3, IntegrityAssumption DEF Span
        <5> QED BY <5>1, <4>2 DEF Before
      <4>4. icv[k].tag = tag
        BY <4>1, <4>3, <3>3, <1>4 DEF Faults, icv_fault_on_mismatch, Mismatch, Skip, Match
      <4> QED BY <4>4, <3>3, <2>1, <1>2
    <3> QED BY <3>1, <3>2, <3>3
  <2>7. InitNeedsStore'
    <3> SUFFICES ASSUME NEW k \in Granule, icv'[k].preinit, ~icv'[k].uninit
                 PROVE  since'[k] # "none"
      BY DEF InitNeedsStore
    <3>1. CASE k \in Span(g, n)
      BY <3>1, <2>2, ReachedType DEF IInv
    <3>2. CASE k \notin Span(g, n)
      <4>1. icv'[k] = icv[k]
        BY <3>2, <1>1 DEF Before
      <4> QED BY <4>1, <2>2, ReachedType DEF IInv, InitNeedsStore
    <3> QED BY <3>1, <3>2
  <2> QED BY <2>4, <2>5, <2>6, <2>7 DEF IInv
<1>5. CASE ~(rw = "write" /\ AccessOk(tag, g, n, rw))
  <2> DEFINE S == IF rw = "write" THEN {k \in done : ~Skip(tag, k, g, rw)} ELSE {}
  <2>1. content' = content /\ Reached(S, "attempted")
    BY <1>5 DEF LockedAccess
  <2>2. TypeOK'
    BY <1>2, <1>3, <2>1, ReachedType DEF IInv, TypeOK
  <2>3. MapBeforeUse' /\ TaggedDataIsOwners'
    BY <1>2, <1>3, <2>1 DEF IInv, MapBeforeUse, TaggedDataIsOwners
  <2>4. InitNeedsStore'
    <3> SUFFICES ASSUME NEW k \in Granule, icv'[k].preinit, ~icv'[k].uninit
                 PROVE  since'[k] # "none"
      BY DEF InitNeedsStore
    <3>1. CASE k \in S
      BY <3>1, <2>1, ReachedType DEF IInv
    <3>2. CASE k \notin S
      <4>1. icv'[k] = icv[k]
        BY <3>2, <1>1 DEF CheckedIcv
      <4> QED BY <4>1, <2>1, ReachedType DEF IInv, InitNeedsStore
    <3> QED BY <3>1, <3>2
  <2> QED BY <2>2, <2>3, <2>4 DEF IInv
<1> QED BY <1>4, <1>5

\* An access with the lock open keeps the invariant: it tags what it writes.
LEMMA UnlockedKeepsIInv ==
  ASSUME IInv, NEW tag \in Ptr, NEW g \in Granule, NEW n \in 1 .. 2,
         NEW rw \in {"read", "write"}, NEW m \in BOOLEAN,
         UnlockedAccess(tag, g, n, rw, m)
  PROVE  IInv'
<1>1. UNCHANGED <<has_map, integrity, icv_enabled, icv_lock, suppress_mode>>
  BY DEF UnlockedAccess, ctxvars
<1>2. CASE rw = "write"
  <2>1. icv' = [k \in Granule |-> IF k \in Span(g, n) THEN ToICV(tag) ELSE icv[k]]
    BY <1>2 DEF UnlockedAccess
  <2>2. content' = [k \in Granule |-> IF k \in Span(g, n)
                      THEN [by |-> tag, magic |-> m, checked |-> TRUE] ELSE content[k]]
    BY <1>2 DEF UnlockedAccess, Store
  <2>3. Reached({}, "written")
    BY <1>2 DEF UnlockedAccess
  <2>4. icv' \in [Granule -> ICV]
    BY <2>1, ConstantIcvs DEF IInv, TypeOK
  <2>5. content' \in [Granule -> [by : Ptr, magic : BOOLEAN, checked : BOOLEAN]]
    BY <2>2 DEF IInv, TypeOK
  <2>6. TypeOK'
    BY <1>1, <2>3, <2>4, <2>5, ReachedType DEF IInv, TypeOK
  <2>7. MapBeforeUse'
    BY <1>1 DEF IInv, MapBeforeUse
  <2>8. TaggedDataIsOwners'
    BY <2>1, <2>2 DEF IInv, TaggedDataIsOwners, ToICV
  <2>9. InitNeedsStore'
    BY <2>1, <2>3, ReachedType DEF IInv, InitNeedsStore, ToICV
  <2> QED BY <2>6, <2>7, <2>8, <2>9 DEF IInv
<1>3. CASE rw = "read"
  BY <1>1, <1>3 DEF UnlockedAccess, IInv, TypeOK, MapBeforeUse, TaggedDataIsOwners,
                    InitNeedsStore
<1> QED BY <1>2, <1>3

\* An access while integrity is disabled keeps the invariant: its data is unchecked.
LEMMA DisabledKeepsIInv ==
  ASSUME IInv, NEW tag \in Ptr, NEW g \in Granule, NEW n \in 1 .. 2,
         NEW rw \in {"read", "write"}, NEW m \in BOOLEAN,
         DisabledAccess(tag, g, n, rw, m)
  PROVE  IInv'
<1>1. UNCHANGED <<icv, has_map, integrity, icv_enabled, icv_lock, suppress_mode>>
  BY DEF DisabledAccess, ctxvars
<1>2. CASE rw = "write"
  <2>1. content' = [k \in Granule |-> IF k \in Span(g, n)
                      THEN [by |-> tag, magic |-> m, checked |-> FALSE] ELSE content[k]]
    BY <1>2 DEF DisabledAccess, Store
  <2>2. Reached(Span(g, n), "written")
    BY <1>2 DEF DisabledAccess
  <2>3. content' \in [Granule -> [by : Ptr, magic : BOOLEAN, checked : BOOLEAN]]
    BY <2>1 DEF IInv, TypeOK
  <2>4. TypeOK'
    BY <1>1, <2>2, <2>3, ReachedType DEF IInv, TypeOK
  <2>5. MapBeforeUse'
    BY <1>1 DEF IInv, MapBeforeUse
  <2>6. TaggedDataIsOwners'
    BY <1>1, <2>1 DEF IInv, TaggedDataIsOwners
  <2>7. InitNeedsStore'
    BY <1>1, <2>2, ReachedType DEF IInv, InitNeedsStore
  <2> QED BY <2>4, <2>5, <2>6, <2>7 DEF IInv
<1>3. CASE rw = "read"
  BY <1>1, <1>3 DEF DisabledAccess, IInv, TypeOK, MapBeforeUse, TaggedDataIsOwners,
                    InitNeedsStore
<1> QED BY <1>2, <1>3

\* The three ISA instructions keep the invariant.
LEMMA IsaKeepsIInv ==
  ASSUME IInv, NEW tag \in Ptr, NEW g \in Granule, NEW m \in BOOLEAN,
         InvICV(tag, g) \/ PreInitICV(tag, g) \/ InitICV(tag, g, m)
  PROVE  IInv'
<1>1. UNCHANGED <<has_map, integrity, icv_enabled, icv_lock, suppress_mode>>
  BY DEF InvICV, PreInitICV, InitICV, ctxvars
<1>2. MapBeforeUse'
  BY <1>1 DEF IInv, MapBeforeUse
<1>3. CASE InvICV(tag, g)
  <2>1. UNCHANGED <<content, since>>
        /\ (icv' = icv \/ icv' = [icv EXCEPT ![g] = Invalid])
    BY <1>3 DEF InvICV
  <2>2. TypeOK'
    BY <1>1, <2>1, ConstantIcvs DEF IInv, TypeOK
  <2>3. TaggedDataIsOwners'
    BY <2>1, IntegrityAssumption DEF IInv, TypeOK, TaggedDataIsOwners, Invalid
  <2>4. InitNeedsStore'
    BY <2>1 DEF IInv, TypeOK, InitNeedsStore, Invalid
  <2> QED BY <1>2, <2>2, <2>3, <2>4 DEF IInv
<1>4. CASE PreInitICV(tag, g)
  <2> DEFINE w == [icv[g] EXCEPT !.preinit = TRUE, !.uninit = TRUE]
  <2>1. content' = content /\ icv' = [icv EXCEPT ![g] = w] /\ Reached({}, "written")
    BY <1>4 DEF PreInitICV
  <2>2. icv[g] \in [tag : Ptr \cup {Ones}, uninit : BOOLEAN, preinit : BOOLEAN]
    BY DEF IInv, TypeOK, ICV
  <2>3. /\ w \in [tag : Ptr \cup {Ones}, uninit : BOOLEAN, preinit : BOOLEAN]
        /\ w.tag = icv[g].tag /\ w.preinit = TRUE /\ w.uninit = TRUE
    BY <2>2
  <2>4. w \in ICV
    BY <2>3 DEF ICV
  <2> HIDE DEF w
  <2>5. TypeOK'
    BY <1>1, <2>1, <2>4, ReachedType DEF IInv, TypeOK
  <2>6. TaggedDataIsOwners'
    BY <2>1, <2>3 DEF IInv, TypeOK, TaggedDataIsOwners
  <2>7. InitNeedsStore'
    BY <2>1, <2>3, ReachedType DEF IInv, TypeOK, InitNeedsStore
  <2> QED BY <1>2, <2>5, <2>6, <2>7 DEF IInv
<1>5. CASE InitICV(tag, g, m)
  <2>1. Reached({}, "written") /\ icv' = [icv EXCEPT ![g] = ToICV(tag)]
    BY <1>5 DEF InitICV
  <2>2. content' = [k \in Granule |-> IF k \in Span(g, 1)
                      THEN [by |-> tag, magic |-> m, checked |-> TRUE] ELSE content[k]]
    BY <1>5 DEF InitICV, Store
  <2>3. \A k \in Granule : k \in Span(g, 1) <=> k = g
    BY IntegrityAssumption DEF Span
  <2>4. TypeOK'
    BY <1>1, <2>1, <2>2, ConstantIcvs, ReachedType DEF IInv, TypeOK
  <2>5. TaggedDataIsOwners'
    BY <2>1, <2>2, <2>3 DEF IInv, TypeOK, TaggedDataIsOwners, ToICV
  <2>6. InitNeedsStore'
    BY <2>1, ReachedType DEF IInv, TypeOK, InitNeedsStore, ToICV
  <2> QED BY <1>2, <2>4, <2>5, <2>6 DEF IInv
<1> QED BY <1>3, <1>4, <1>5

\* Switching integrity, the lock or the suppress mode keeps the invariant.
LEMMA SwitchKeepsIInv ==
  ASSUME IInv,
         \/ \E mode \in Modes : SetSuppressMode(mode)
         \/ \E val \in BOOLEAN : SetIntegrityAttr(val)
         \/ \E enabled, lock, reset \in BOOLEAN : LoadContextFlags(enabled, lock, reset)
  PROVE  IInv'
<1>1. CASE \E mode \in Modes : SetSuppressMode(mode)
  BY <1>1 DEF SetSuppressMode, ctxvars, IInv, TypeOK, MapBeforeUse, TaggedDataIsOwners,
              InitNeedsStore
<1>2. ASSUME NEW val \in BOOLEAN, SetIntegrityAttr(val)
      PROVE  IInv'
  <2>1. UNCHANGED <<icv, suppress_mode, content, since>> /\ integrity' = val
    BY <1>2 DEF SetIntegrityAttr
  <2>2. /\ icv_enabled' = val /\ has_map' = (has_map \/ val)
        /\ icv_lock' \in BOOLEAN
    BY <1>2 DEF SetIntegrityAttr, set_integrity, IInv, TypeOK
  <2>3. has_map' \in BOOLEAN
    BY <2>2
  <2>4. TypeOK'
    BY <2>1, <2>2, <2>3 DEF IInv, TypeOK
  <2>5. MapBeforeUse'
    BY <2>1, <2>2 DEF MapBeforeUse
  <2>6. TaggedDataIsOwners' /\ InitNeedsStore'
    BY <2>1 DEF IInv, TaggedDataIsOwners, InitNeedsStore
  <2> QED BY <2>4, <2>5, <2>6 DEF IInv
<1>3. ASSUME NEW enabled \in BOOLEAN, NEW lock \in BOOLEAN, NEW reset \in BOOLEAN,
             LoadContextFlags(enabled, lock, reset)
      PROVE  IInv'
  <2>1. /\ Reached({}, "written")
        /\ UNCHANGED <<integrity, suppress_mode, content>>
        /\ icv' = icv \/ icv' = [k \in Granule |-> ToICV(LA)]
    BY <1>3 DEF LoadContextFlags, ClearICVMap
  <2>2. /\ icv_enabled' = enabled /\ has_map' = (has_map \/ enabled)
        /\ icv_lock' \in BOOLEAN
    BY <1>3 DEF LoadContextFlags, set_integrity, IInv, TypeOK
  <2>3. has_map' \in BOOLEAN
    BY <2>2
  <2>4. icv' \in [Granule -> ICV]
    BY <2>1, ConstantIcvs DEF IInv, TypeOK, Ptr
  <2>5. TypeOK'
    BY <2>1, <2>2, <2>3, <2>4, ReachedType DEF IInv, TypeOK
  <2>6. MapBeforeUse'
    BY <2>1, <2>2 DEF IInv, MapBeforeUse
  <2>7. TaggedDataIsOwners'
    BY <2>1, IntegrityAssumption DEF IInv, TaggedDataIsOwners, ToICV
  <2>8. InitNeedsStore'
    BY <2>1, ReachedType DEF IInv, InitNeedsStore, ToICV
  <2> QED BY <2>5, <2>6, <2>7, <2>8 DEF IInv
<1> QED BY <1>1, <1>2, <1>3

(***************************************************************************)
(* For all granules, tags and fault options: no path to the ICV map finds  *)
(* it unallocated, checked data of a tagged granule was written through    *)
(* that tag, and initialised means that a store got past its check.        *)
(***************************************************************************)
THEOREM IntegritySafe ==
  Spec => [](TypeOK /\ MapBeforeUse /\ TaggedDataIsOwners /\ InitNeedsStore)
<1>1. Init => IInv
  <2> SUFFICES ASSUME Init PROVE IInv
    OBVIOUS
  <2>1. \A g \in Granule : icv[g] = ToICV(LA)
    BY DEF Init
  <2>2. icv \in [Granule -> ICV]
    BY ConstantIcvs DEF Init, Ptr
  <2>3. content \in [Granule -> [by : Ptr, magic : BOOLEAN, checked : BOOLEAN]]
    BY DEF Init, Ptr
  <2>4. has_map \in BOOLEAN /\ icv_enabled \in BOOLEAN /\ icv_lock \in BOOLEAN
    BY DEF Init
  <2>5. TypeOK
    BY <2>2, <2>3, <2>4 DEF Init, TypeOK
  <2>6. MapBeforeUse
    BY DEF Init, MapBeforeUse
  <2>7. TaggedDataIsOwners /\ InitNeedsStore
    <3>1. \A g \in Granule : icv[g].tag = LA /\ icv[g].preinit = FALSE
      BY <2>1 DEF ToICV
    <3>2. TaggedDataIsOwners
      BY <3>1, IntegrityAssumption DEF TaggedDataIsOwners
    <3>3. InitNeedsStore
      BY <3>1 DEF InitNeedsStore
    <3> QED BY <3>2, <3>3
  <2> QED BY <2>5, <2>6, <2>7 DEF IInv
<1>2. IInv /\ [Next]_vars => IInv'
  <2> SUFFICES ASSUME IInv, [Next]_vars PROVE IInv'
    OBVIOUS
  <2>1. CASE UNCHANGED vars
    BY <2>1 DEF vars, IInv, TypeOK, MapBeforeUse, TaggedDataIsOwners, InitNeedsStore
  <2>2. ASSUME NEW tag \in Ptr, NEW g \in Granule, NEW n \in 1 .. 2,
               NEW rw \in {"read", "write"}, NEW m \in BOOLEAN, Access(tag, g, n, rw, m)
        PROVE  IInv'
    BY <2>2, LockedKeepsIInv, UnlockedKeepsIInv, DisabledKeepsIInv DEF Access
  <2>3. ASSUME NEW tag \in Ptr, NEW g \in Granule, NEW m \in BOOLEAN,
               InvICV(tag, g) \/ PreInitICV(tag, g) \/ InitICV(tag, g, m)
        PROVE  IInv'
    BY <2>3, IsaKeepsIInv
  <2> QED BY <2>1, <2>2, <2>3, SwitchKeepsIInv DEF Next
<1>3. IInv => TypeOK /\ MapBeforeUse /\ TaggedDataIsOwners /\ InitNeedsStore
  BY DEF IInv
<1> QED BY <1>1, <1>2, <1>3, PTL DEF Spec

\* The step relation of InvalidStays.
KeepsInvalid ==
  \A g \in Granule :
    icv[g] = Invalid /\ icv_enabled /\ icv_lock /\ FaultOnWrite
      => icv'[g] \in {Invalid, ToICV(LA)} \/ \E tag \in Tags, m \in BOOLEAN : InitICV(tag, g, m)

\* No pointer matches ~0, so a write to an invalidated granule faults before check_icv
\* gets to its PREINIT logic, and a skipped check never gets there.
LEMMA AccessKeepsInvalid ==
  ASSUME IInv, NEW tag \in Ptr, NEW g \in Granule, NEW n \in 1 .. 2,
         NEW rw \in {"read", "write"}, NEW m \in BOOLEAN, Access(tag, g, n, rw, m),
         NEW k \in Granule, icv[k] = Invalid, icv_enabled, icv_lock, FaultOnWrite
  PROVE  icv'[k] = Invalid
<1>1. icv' = [j \in Granule |-> IF j \in Before(tag, g, n, rw)
                THEN CheckedIcv(tag, j, g, rw) ELSE icv[j]]
  BY DEF Access, LockedAccess, UnlockedAccess, DisabledAccess
<1>2. CASE k \notin Before(tag, g, n, rw)
  BY <1>1, <1>2
<1>3. CASE k \in Before(tag, g, n, rw)
  <2>1. ~Faults(tag, k, g, rw)
    <3>1. k \in g .. k
      BY <1>3, IntegrityAssumption DEF Before, Span
    <3> QED BY <3>1, <1>3 DEF Before
  <2>2. ~Match(tag, k)
    BY IntegrityAssumption DEF Match, Invalid, Ptr
  <2>3. rw # "write" \/ Skip(tag, k, g, rw)
    BY <2>1, <2>2 DEF Faults, icv_fault_on_mismatch, Mismatch, Skip
  <2>4. CheckedIcv(tag, k, g, rw) = icv[k]
    BY <2>3 DEF CheckedIcv
  <2> QED BY <1>1, <1>3, <2>4
<1> QED BY <1>2, <1>3

\* A granule that counts as initialised was reached by a store that passed the check of that
\* granule (integrity.h:722), even if the store then faulted on the next one.
THEOREM InitialisedByStore == Spec => []InitNeedsStore
BY IntegritySafe, PTL

(***************************************************************************)
(* With write checks in force an invalidated granule is revived only by    *)
(* InitICV or a reset of the map, whatever the suppress mode.              *)
(***************************************************************************)
THEOREM InvalidGranulesStay == Spec => InvalidStays
<1>1. IInv /\ [Next]_vars => [KeepsInvalid]_vars
  <2> SUFFICES ASSUME IInv, Next PROVE KeepsInvalid
    BY DEF vars
  <2> SUFFICES ASSUME NEW k \in Granule, icv[k] = Invalid, icv_enabled, icv_lock,
                      FaultOnWrite,
                      ~ \E tag \in Tags, m \in BOOLEAN : InitICV(tag, k, m)
               PROVE  icv'[k] \in {Invalid, ToICV(LA)}
    BY DEF KeepsInvalid
  <2>0. icv \in [Granule -> ICV]
    BY DEF IInv, TypeOK
  <2>1. CASE \E tag \in Ptr, g \in Granule, n \in 1 .. 2, rw \in {"read", "write"},
                m \in BOOLEAN : Access(tag, g, n, rw, m)
    BY <2>1, AccessKeepsInvalid
  <2>2. CASE \E tag \in Ptr, g \in Granule : InvICV(tag, g)
    BY <2>0, <2>2 DEF InvICV
  <2>3. ASSUME NEW tag \in Ptr, NEW g \in Granule, PreInitICV(tag, g)
        PROVE  icv'[k] = icv[k]
    <3>1. g # k
      BY <2>3 DEF PreInitICV, Invalid
    <3> QED BY <3>1, <2>0, <2>3 DEF PreInitICV
  <2>4. ASSUME NEW tag \in Ptr, NEW g \in Granule, NEW m \in BOOLEAN, InitICV(tag, g, m)
        PROVE  icv'[k] = icv[k]
    <3>1. tag \in Tags
      BY <2>4 DEF InitICV, Ptr
    <3>2. g # k
      BY <3>1, <2>4
    <3> QED BY <3>2, <2>0, <2>4 DEF InitICV
  <2>5. CASE \/ \E mode \in Modes : SetSuppressMode(mode)
             \/ \E val \in BOOLEAN : SetIntegrityAttr(val)
    BY <2>5 DEF SetSuppressMode, SetIntegrityAttr
  <2>6. CASE \E enabled, lock, reset \in BOOLEAN : LoadContextFlags(enabled, lock, reset)
    BY <2>6 DEF LoadContextFlags, ClearICVMap
  <2> QED BY <2>1, <2>2, <2>3, <2>4, <2>5, <2>6 DEF Next
<1>2. Spec => []IInv
  BY IntegritySafe, PTL DEF IInv
<1>3. [][KeepsInvalid]_vars => InvalidStays
  BY PTL DEF KeepsInvalid, InvalidStays
<1> QED BY <1>1, <1>2, <1>3, PTL DEF Spec
=============================================================================
