------------------------------ MODULE ICVTable ------------------------------
(***************************************************************************)
(* What an ICV store promises its users (Integrity): one integrity check   *)
(* value per memory granule, zero until it is written, with no trace of    *)
(* how the store is paged.  ICVMap implements this specification.          *)
(***************************************************************************)
EXTENDS Naturals

CONSTANTS Index,   \* the granule numbers (an address divided by the granule size)
          Icv      \* the check values; 0 is the value of untagged memory

VARIABLE table     \* granule -> its ICV

Init == table = [i \in Index |-> 0]

\* set(i, val) changes granule i and nothing else.
Set(i, val) == table' = [table EXCEPT ![i] = val]

\* clear() forgets every ICV at once.
Clear == table' = [i \in Index |-> 0]

Next == Clear \/ \E i \in Index, val \in Icv : Set(i, val)

Spec == Init /\ [][Next]_table
=============================================================================
