------------------------------- MODULE ICVMap -------------------------------
(***************************************************************************)
(* The two-level ICV store of modules/common/ccsimics/icv_map.h: a         *)
(* std::map from page number to a last-level page that holds PageSize      *)
(* check values and counts how many of them are nonzero.  A page is        *)
(* created by the first nonzero value stored in it and erased when its     *)
(* count falls to 0, so the map's memory follows the tagged memory of the  *)
(* simulated machine.                                                      *)
(***************************************************************************)
EXTENDS Naturals, FiniteSets

CONSTANTS Index,      \* the granule numbers in use
          Icv,        \* the check values, 0 included
          PageSize    \* entries per last-level page (kPage1Size)

ASSUME MapAssumption ==
  /\ Index \subseteq Nat
  /\ Icv \subseteq Nat
  /\ 0 \in Icv
  /\ PageSize \in Nat \ {0}

VARIABLE icv_map      \* page number -> [count, icv], only for existing pages

-----------------------------------------------------------------------------
get_page1_index(i) == i % PageSize

get_page2_index(i) == i \div PageSize

Slot == 0 .. (PageSize - 1)

PageNo == {get_page2_index(i) : i \in Index}

Page1 == [count : Nat, icv : [Slot -> Icv]]

\* What std::map's operator[] makes of an absent page: a value-initialised one.
NewPage1 == [count |-> 0, icv |-> [j \in Slot |-> 0]]

\* A bug: the count grows with every nonzero store, not with every new one.
Page1SetCountsStores(page, i, val) ==
  LET j == get_page1_index(i)
  IN  [count |-> IF page.icv[j] # 0 /\ val = 0 THEN page.count - 1
                 ELSE IF val # 0 THEN page.count + 1 ELSE page.count,
       icv   |-> [page.icv EXCEPT ![j] = val]]

(***************************************************************************)
(* Page1::set: the count moves only when an entry changes between zero and *)
(* nonzero.  The caller tests the count this leaves.                       *)
(***************************************************************************)
Page1Set(page, i, val) ==
  LET j   == get_page1_index(i)
      old == page.icv[j]
  IN  [count |-> IF old # 0 /\ val = 0 THEN page.count - 1
                 ELSE IF old = 0 /\ val # 0 THEN page.count + 1
                 ELSE page.count,
       icv   |-> [page.icv EXCEPT ![j] = val]]

WithPage(p, page) ==
  [q \in DOMAIN icv_map \cup {p} |-> IF q = p THEN page ELSE icv_map[q]]

WithoutPage(p) == [q \in DOMAIN icv_map \ {p} |-> icv_map[q]]

-----------------------------------------------------------------------------
\* clear()
Clear == icv_map' = [q \in {} |-> NewPage1]

\* A bug: erase the page whenever the stored value is 0, whatever the count.
SetInPageErasesEarly(i, val) ==
  LET p    == get_page2_index(i)
      page == Page1Set(icv_map[p], i, val)
  IN  /\ p \in DOMAIN icv_map
      /\ icv_map' = IF val = 0 THEN WithoutPage(p) ELSE WithPage(p, page)

\* set() on an existing page; the page goes when its last value became 0.
SetInPage(i, val) ==
  LET p    == get_page2_index(i)
      page == Page1Set(icv_map[p], i, val)
  IN  /\ p \in DOMAIN icv_map
      /\ icv_map' = IF page.count = 0 THEN WithoutPage(p) ELSE WithPage(p, page)

\* set() where there is no page: a zero needs none, anything else makes one.
SetNewPage(i, val) ==
  LET p == get_page2_index(i)
  IN  /\ p \notin DOMAIN icv_map
      /\ icv_map' = IF val = 0 THEN icv_map
                    ELSE WithPage(p, Page1Set(NewPage1, i, val))

set(i, val) == SetInPage(i, val) \/ SetNewPage(i, val)

\* get(): an absent page reads as 0.
get(i) ==
  LET p == get_page2_index(i)
  IN  IF p \in DOMAIN icv_map THEN icv_map[p].icv[get_page1_index(i)] ELSE 0

MapInit == icv_map = [q \in {} |-> NewPage1]

MapNext == Clear \/ \E i \in Index, val \in Icv : set(i, val)

MapSpec == MapInit /\ [][MapNext]_icv_map

-----------------------------------------------------------------------------
\* Type invariant: pages under the numbers of granules in use, with a natural count
\* (unsigned in the code) and a check value in each slot.
MapTypeOK ==
  /\ DOMAIN icv_map \subseteq PageNo
  /\ \A p \in DOMAIN icv_map : icv_map[p] \in Page1

NonZero(page) == {j \in Slot : page.icv[j] # 0}

(***************************************************************************)
(* The count of a page is the number of its nonzero entries, and no page   *)
(* is empty.  An erasure decided by a count that had drifted (down, and a  *)
(* page with live ICVs is dropped, so every access through the tags in it  *)
(* faults; up, or an unsigned wrap below 0, and the page is never freed)   *)
(* would only show after a long history of set() calls.                    *)
(***************************************************************************)
CountExact ==
  \A p \in DOMAIN icv_map :
    /\ icv_map[p].count = Cardinality(NonZero(icv_map[p]))
    /\ icv_map[p].count > 0

(***************************************************************************)
(* Refinement: seen through get(), the paged map is the flat table, so     *)
(* paging, counting and erasing never show: set() of one granule changes   *)
(* what get() returns for that granule alone.                              *)
(***************************************************************************)
Flat == INSTANCE ICVTable WITH table <- [i \in Index |-> get(i)]

ImplementsTable == Flat!Spec
=============================================================================
