----------------------------- MODULE Integrity ------------------------------
(***************************************************************************)
(* The integrity checks of modules/common/ccsimics/integrity.h and the     *)
(* InvICV, InitICV and PreInitICV instructions of integrity_isa.h.         *)
(*                                                                         *)
(* Every 8-byte granule has an integrity check value (ICV).  A pointer is  *)
(* either a linear address (tag LA) or a cryptographic address whose       *)
(* encrypted bits are abstracted to a tag; two CAs of one granule differ   *)
(* exactly in their tags (an allocation's version).  An ICV is the CA of   *)
(* the granule (so its tag) plus two flag bits, 0 for untagged memory, or  *)
(* ~0 for an invalidated granule.  ICVs are kept in the flat table that    *)
(* ICVMap implements.                                                      *)
(*                                                                         *)
(* gp_fault leaves the handler by a long jump, so what follows it in the   *)
(* code does not happen.  The debugging options that stop the simulator or *)
(* repair pointers (break_on_*, warn_on_*, correct_on_fail) are off, and   *)
(* is_icv_failure_, which only selects what is printed, is left out.       *)
(***************************************************************************)
EXTENDS Integers, FiniteSets

CONSTANTS Granule,   \* granule numbers; 0 is the null page, which is never accessed
          Tags,      \* the encrypted parts that CAs can have
          LA,        \* the tag of a pointer that is not encoded
          Ones,      \* the address bits of ~0
          FaultOnWrite,   \* integrity_fault_on_write_mismatch
          FaultOnRead     \* integrity_fault_on_read_mismatch

ASSUME IntegrityAssumption ==
  /\ Granule \subseteq Nat \ {0}
  /\ LA \notin Tags /\ Ones \notin Tags /\ LA # Ones
  /\ FaultOnWrite \in BOOLEAN /\ FaultOnRead \in BOOLEAN

VARIABLES
  icv,               \* granule -> ICV
  has_map,           \* icv_map_ != nullptr
  integrity,         \* the connection's option, which guards the ISA
  icv_enabled,       \* the context flags
  icv_lock,
  suppress_mode,     \* integrity_suppress_mode_
  content,           \* granule -> who wrote its data, and how the write was checked
  since              \* granule -> what happened to it since it was pre-initialised

vars == <<icv, has_map, integrity, icv_enabled, icv_lock, suppress_mode,
          content, since>>

ctxvars == <<has_map, integrity, icv_enabled, icv_lock>>

Ptr == Tags \cup {LA}

\* Only pre-initialised granules are ever uninitialised.
ICV == {v \in [tag : Ptr \cup {Ones}, uninit : BOOLEAN, preinit : BOOLEAN] :
          v.uninit \/ v.tag = Ones => v.preinit}

\* ca & ICV_ADDR_MASK for a CA, 0 for an LA
ToICV(tag) == [tag |-> tag, uninit |-> FALSE, preinit |-> FALSE]

\* ~0 has every bit set, the two flags included
Invalid == [tag |-> Ones, uninit |-> TRUE, preinit |-> TRUE]

Modes == {"NONE", "STRICT", "PERMISSIVE"}

\* The granules an access to n granules from g on overlaps.
Span(g, n) == g .. (g + n - 1)

-----------------------------------------------------------------------------
(***************************************************************************)
(* should_skip_icv_check.  Only the granule at the access's address, the   *)
(* first one, is read, but it is decrypted with the CA of the granule      *)
(* under check, so a later granule never decrypts to the magic value.      *)
(***************************************************************************)
IsTripwire(tag, g) == content[g].magic /\ content[g].by = tag

\* A bug: the tripwire's value is not tied to the pointer that reads it.
SkipAnyMagic(tag, g, first, rw) ==
  /\ suppress_mode # "NONE"
  /\ tag # LA
  /\ g = first /\ content[g].magic
  /\ suppress_mode = "STRICT" => rw = "read"

should_skip_icv_check(tag, g, first, rw) ==
  /\ suppress_mode # "NONE"
  /\ tag # LA
  /\ g = first /\ IsTripwire(tag, g)
  /\ suppress_mode = "STRICT" => rw = "read"

Match(tag, g) == icv[g].tag = tag

Skip(tag, g, first, rw) ==
  ~Match(tag, g) /\ should_skip_icv_check(tag, g, first, rw)

Mismatch(tag, g, first, rw) ==
  ~Match(tag, g) /\ ~should_skip_icv_check(tag, g, first, rw)

\* The option that decides about a mismatch of a read or a write.
icv_fault_on_mismatch(rw) == IF rw = "write" THEN FaultOnWrite ELSE FaultOnRead

\* Where check_icv raises gp_fault: a mismatch, or a read of an uninitialised granule.
Faults(tag, g, first, rw) ==
  \/ /\ Mismatch(tag, g, first, rw)
     /\ icv_fault_on_mismatch(rw)
  \/ /\ ~Skip(tag, g, first, rw)
     /\ rw = "read" /\ icv[g].uninit /\ icv_fault_on_mismatch(rw)

\* A bug: a skipped check goes on to the PREINIT logic.
CheckedIcvAfterSkip(tag, g, first, rw) ==
  IF rw = "write" /\ icv[g].preinit THEN [icv[g] EXCEPT !.uninit = FALSE] ELSE icv[g]

\* The PREINIT logic at the end of check_icv; a skipped check returns before it.
CheckedIcv(tag, g, first, rw) ==
  IF rw = "write" /\ icv[g].preinit /\ ~Skip(tag, g, first, rw)
  THEN [icv[g] EXCEPT !.uninit = FALSE] ELSE icv[g]

-----------------------------------------------------------------------------
(***************************************************************************)
(* check_integrity over the granules of one access, in address order, and  *)
(* then the access itself unless a granule faulted.  Each check touches    *)
(* its own granule alone, so the loop has handled exactly the granules     *)
(* before the first that faults.                                           *)
(***************************************************************************)
Before(tag, g, n, rw) ==
  {k \in Span(g, n) : \A j \in g .. k : ~Faults(tag, j, g, rw)}

AccessOk(tag, g, n, rw) == Before(tag, g, n, rw) = Span(g, n)

\* The data of the n granules is now the tag's; `checked` says of each if it counts.
Store(tag, g, n, magic, checked) ==
  content' = [k \in Granule |-> IF k \in Span(g, n)
                THEN [by |-> tag, magic |-> magic, checked |-> checked[k]]
                ELSE content[k]]

\* Of a pre-initialised granule: a write got past its check, or stored to it.
Reached(S, what) ==
  since' = [k \in Granule |->
              IF ~icv'[k].preinit THEN "none"
              ELSE IF k \in S /\ since[k] # "written" THEN what ELSE since[k]]

LockedAccess(tag, g, n, rw, magic) ==
  LET done == Before(tag, g, n, rw)
  IN  /\ icv_enabled /\ icv_lock
      /\ icv' = [k \in Granule |-> IF k \in done THEN CheckedIcv(tag, k, g, rw) ELSE icv[k]]
      /\ IF rw = "write" /\ AccessOk(tag, g, n, rw)
         THEN /\ Store(tag, g, n, magic,
                   [k \in Granule |-> IF Skip(tag, k, g, rw) THEN content[k].checked
                                      ELSE FaultOnWrite])
              /\ Reached(Span(g, n), "written")
         ELSE /\ UNCHANGED content
              /\ Reached(IF rw = "write" THEN {k \in done : ~Skip(tag, k, g, rw)} ELSE {},
                         "attempted")
      /\ UNCHANGED <<ctxvars, suppress_mode>>

\* With the lock open set_icv runs instead: a write tags, a read does nothing.
UnlockedAccess(tag, g, n, rw, magic) ==
  /\ icv_enabled /\ ~icv_lock
  /\ IF rw = "write"
     THEN /\ icv' = [k \in Granule |-> IF k \in Span(g, n) THEN ToICV(tag) ELSE icv[k]]
          /\ Store(tag, g, n, magic, [k \in Granule |-> TRUE])
          /\ Reached({}, "written")
     ELSE UNCHANGED <<icv, content, since>>
  /\ UNCHANGED <<ctxvars, suppress_mode>>

\* set_or_check_icv returns at once while integrity is disabled.
DisabledAccess(tag, g, n, rw, magic) ==
  /\ ~icv_enabled
  /\ UNCHANGED icv
  /\ IF rw = "write"
     THEN /\ Store(tag, g, n, magic, [k \in Granule |-> FALSE])
          /\ Reached(Span(g, n), "written")
     ELSE UNCHANGED <<content, since>>
  /\ UNCHANGED <<ctxvars, suppress_mode>>

Access(tag, g, n, rw, magic) ==
  /\ Span(g, n) \subseteq Granule
  /\ \/ LockedAccess(tag, g, n, rw, magic)
     \/ UnlockedAccess(tag, g, n, rw, magic)
     \/ DisabledAccess(tag, g, n, rw, magic)

\* RepMovsbTripwire sets the mode around an emulated instruction.
SetSuppressMode(mode) ==
  /\ suppress_mode' = mode
  /\ UNCHANGED <<icv, ctxvars, content, since>>

-----------------------------------------------------------------------------
\* Where the emulation callbacks do anything; otherwise the instructions fall through.
IsaEnabled == integrity

(***************************************************************************)
(* invalidate_icv compares the pointer with the whole stored value, flag   *)
(* bits included; otherwise it faults or does nothing.                     *)
(***************************************************************************)
InvICV(tag, g) ==
  /\ IsaEnabled
  /\ icv' = IF tag # LA /\ icv[g] = ToICV(tag) THEN [icv EXCEPT ![g] = Invalid] ELSE icv
  /\ UNCHANGED <<ctxvars, suppress_mode, content, since>>

\* initialize_icv stores the (encrypted) value, then the ICV, with no check.
InitICV(tag, g, magic) ==
  /\ IsaEnabled
  /\ tag # LA
  /\ icv' = [icv EXCEPT ![g] = ToICV(tag)]
  /\ Store(tag, g, 1, magic, [k \in Granule |-> TRUE])
  /\ Reached({}, "written")
  /\ UNCHANGED <<ctxvars, suppress_mode>>

\* A bug: the flag is set and the granule not de-initialised.
PreInitICVNoDeinit(tag, g) ==
  /\ IsaEnabled
  /\ tag # LA /\ ~icv[g].preinit
  /\ icv' = [icv EXCEPT ![g].preinit = TRUE]
  /\ Reached({}, "written")
  /\ UNCHANGED <<ctxvars, suppress_mode, content>>

\* preInitICV leaves a granule alone that is pre-initialised already (or is ~0).
PreInitICV(tag, g) ==
  /\ IsaEnabled
  /\ tag # LA /\ ~icv[g].preinit
  /\ icv' = [icv EXCEPT ![g].preinit = TRUE, ![g].uninit = TRUE]
  /\ Reached({}, "written")
  /\ UNCHANGED <<ctxvars, suppress_mode, content>>

-----------------------------------------------------------------------------
(***************************************************************************)
(* C3Model::set_integrity followed by Integrity::enable or disable: the    *)
(* first enabling allocates the map and closes the lock.                   *)
(***************************************************************************)
set_integrity(val, lock) ==
  /\ icv_enabled' = val
  /\ has_map' = (has_map \/ val)
  /\ icv_lock' = IF val /\ ~has_map THEN TRUE ELSE lock

\* The Simics attribute: C3SimicsConnection::set_integrity.
SetIntegrityAttr(val) ==
  /\ integrity' = val
  /\ set_integrity(val, icv_lock)
  /\ UNCHANGED <<icv, suppress_mode, content, since>>

ClearICVMap == icv' = [g \in Granule |-> ToICV(LA)]

\* The guest loads a context with new ICV flags; ctx_loaded_cb acts on them.  A reset
\* through the integrity_icv_reset attribute is a load that changes no flag.
LoadContextFlags(enabled, lock, reset) ==
  /\ set_integrity(enabled, lock)
  /\ IF reset THEN ClearICVMap ELSE UNCHANGED icv
  /\ Reached({}, "written")
  /\ UNCHANGED <<integrity, suppress_mode, content>>

-----------------------------------------------------------------------------
(***************************************************************************)
(* configure() has run: integrity is on if the option was given.  Nothing  *)
(* ever initialises integrity_suppress_mode_, so it may start as anything. *)
(***************************************************************************)
Init ==
  /\ icv = [g \in Granule |-> ToICV(LA)]
  /\ integrity \in BOOLEAN
  /\ icv_enabled = integrity /\ has_map = integrity /\ icv_lock = integrity
  /\ suppress_mode \in Modes
  /\ content = [g \in Granule |-> [by |-> LA, magic |-> FALSE, checked |-> FALSE]]
  /\ since = [g \in Granule |-> "none"]

Next ==
  \/ \E tag \in Ptr, g \in Granule, n \in 1 .. 2, rw \in {"read", "write"}, m \in BOOLEAN :
       Access(tag, g, n, rw, m)
  \/ \E tag \in Ptr, g \in Granule : InvICV(tag, g) \/ PreInitICV(tag, g)
  \/ \E tag \in Ptr, g \in Granule, m \in BOOLEAN : InitICV(tag, g, m)
  \/ \E mode \in Modes : SetSuppressMode(mode)
  \/ \E val \in BOOLEAN : SetIntegrityAttr(val)
  \/ \E enabled, lock, reset \in BOOLEAN : LoadContextFlags(enabled, lock, reset)

Spec == Init /\ [][Next]_vars

-----------------------------------------------------------------------------
\* Type invariant: in particular, only pre-initialised granules are ever uninitialised.
TypeOK ==
  /\ icv \in [Granule -> ICV]
  /\ has_map \in BOOLEAN /\ integrity \in BOOLEAN
  /\ icv_enabled \in BOOLEAN /\ icv_lock \in BOOLEAN
  /\ suppress_mode \in Modes
  /\ content \in [Granule -> [by : Ptr, magic : BOOLEAN, checked : BOOLEAN]]
  /\ since \in [Granule -> {"none", "attempted", "written"}]

(***************************************************************************)
(* get_icv asserts that the map exists.  It is reached with the context's  *)
(* icv_enabled set (checks) and with the connection's option set (the ISA  *)
(* instructions); the two are switched by different paths and may differ.  *)
(***************************************************************************)
MapBeforeUse == integrity \/ icv_enabled => has_map

(***************************************************************************)
(* The point of the ICVs: data of a granule tagged t was written through a *)
(* pointer tagged t, whatever mix of checked, lock-open, suppressed and    *)
(* instruction-made writes led there -- unless the write was made while    *)
(* checking was switched off.                                              *)
(***************************************************************************)
TaggedDataIsOwners ==
  \A g \in Granule :
    icv[g].tag \in Tags /\ content[g].checked => content[g].by = icv[g].tag

(***************************************************************************)
(* A granule that PreInitICV marked uninitialised counts as initialised    *)
(* only after some store to it got as far as its check: neither reads, nor *)
(* instructions, nor skipped checks clear the bit.                         *)
(***************************************************************************)
InitNeedsStore ==
  \A g \in Granule : icv[g].preinit /\ ~icv[g].uninit => since[g] # "none"

(***************************************************************************)
(* With write checks in force, an invalidated granule is revived by no     *)
(* ordinary access: it stays ~0 until a lock-open write, InitICV, or a map *)
(* reset.                                                                  *)
(***************************************************************************)
InvalidStays ==
  [][\A g \in Granule :
       icv[g] = Invalid /\ icv_enabled /\ icv_lock /\ FaultOnWrite
         => icv'[g] \in {Invalid, ToICV(LA)}
            \/ \E tag \in Tags, m \in BOOLEAN : InitICV(tag, g, m)]_vars

(***************************************************************************)
(* "When the PREINIT flag is set, automatically initialize the granule on  *)
(* memory writes" (check_icv): an initialised granule has been written.    *)
(***************************************************************************)
InitMeansWritten ==
  \A g \in Granule : icv[g].preinit /\ ~icv[g].uninit => since[g] = "written"
=============================================================================
