# A TLA+ verification project for the C3 simulator

This directory specifies and verifies the functional model of Cryptographic
Capability Computing (C3) in this repository: the Simics modules that emulate C3
on x86-64 and RISC-V and the LIM variant (`modules/`), the ciphers (`crypto/`), and
the encoding allocator and target library (`malloc/`, `c3lib/`) that run on the
emulated machine.

In C3 a pointer may be a *cryptographic address* (CA): its upper bits are
encrypted together with a version and a slot size.  An access through a CA is
decoded to a linear address (LA) and its data is encrypted with the CA as tweak.
Optionally each 8-byte granule also has an *integrity check value* (ICV), the CA
it was tagged with, which every access is checked against.

## 1. Inventory

| Component | State | Operations | Interacts with | What makes it correct |
|---|---|---|---|---|
| ICV store, `ccsimics/icv_map.h` | map from page number to page; each page counts its nonzero entries | `set`, `get`, `clear` | used by Integrity | one value per granule, whatever pages are made and erased |
| Integrity, `ccsimics/integrity.h`, `c3_model.h` | ICV store, suppress mode, fault options; the context's `icv_enabled`, `icv_lock` | `check_integrity` on every access, `invalidate_icv`, `initialize_icv`, `preInitICV`, `copyICVs`, enable/disable/reset | called before the data path; lock and flags come from the context; mode from RepMovsTripwire | tagged data was written by the tag's holder; invalid granules stay invalid; initialised means written |
| Instructions, `ccsimics/*_isa.h`, `c3/generic` | none | decoders, disassemblers, emulation callbacks; the bytes c3lib emits | Integrity, context, pointer encoding | library, decoder and disassembler mean the same instruction |
| Encoding allocator, `malloc/cc_malloc.c`, `c3/generic/icv.h` | `curr_version`, quarantine buffers and indices | malloc, calloc, realloc, free | external allocator; ICVs by opening the ICV lock | no double free, no leak, tags follow the holder, stale pointers are detected |
| Wrappers, `cc_malloc_ldpreload.c`, `cc_malloc_wrapper.c` | resolved symbols | marking and unmarking pointers, forwarding, `memcpy` | glibc, encoding allocator | glibc gets its own pointers back |
| RISC-V model, `riscv_c3_model.h` | `need_fixup`, `exception_fixup_only`, saved register | callbacks before and after an instruction and before an exception | `address_before` of the base model | the program and its fault handlers never see the decoded register |
| REP MOVSB tripwires, `rep_movsb_tripwire.h` | pending ICV copy | emulation callback, instruction-after callback | Integrity: suppress mode, `copyICVs` | tripwires move with the data and neighbours keep their ICVs |
| Memory pipeline, `c3_base_model.h` | last decoded/encoded address, "is encoded" and two page-crossing flags | `address_before`, `modify_data_on_mem_access` | Integrity, CA stack, context | data is encrypted iff the access used a CA, with the tweak of its address |
| CA stack, `castack.h` | saved stack pointer | decode before FXSAVE/FXRSTOR, restore after | memory pipeline | the program's stack pointer is its own between instructions |
| Pointer encoding, `ca.h`, `try_box.h`, `ptrencdec_isa.h`, `sw_encoder.h` | none | box, encode, decode | everything | decode inverts encode; a box covers the allocation; software and instructions agree |
| Context, `context.h`, `x86_context.h` | the guest's view, the keys in use, the cipher's cached schedule | save, load, attributes | `ctx_loaded_cb` reaches Integrity | each task runs with its keys and lock; derived state follows |
| Shadow RIP, `shadow_rip.h` | gsrip, patched pointers, pending fix-ups | instruction, exception and SMM callbacks | context, integrity, data encryption | code runs with the gsrip it was reached through; pointers are put back |
| LIM model, `lim_model/`, `lim_ptr_encoding.h` | in-slot metadata; what one callback leaves for the next | encoding, address and data callbacks | CPU, paging | metadata survives, loads see the last store, faults hit what is out of bounds |
| Simics connection, `simics_connection.h`, `simics_module.h` and subclasses | connections, options, callback handles | connect, configure, attributes, delete | creates the models | options reach what they are about; no callback into nothing |
| Ciphers, `crypto/`, `data_encryption.h` | key schedule | BipBip-24, ASCON, counter-mode masks | pointer encoding, memory pipeline | inverse; independent of how accesses are split |

Build and demo scripts and the tests are listed with reasons in `PROJECT.json`.

The behaviours that are hard here: callbacks that leave state behind for a later
callback, which an exception may skip; accesses over several granules or pages that
fault half way, after side effects; read-modify-write of a context while an
operating system switches tasks; long sequences of legal calls (page counts, the
wrapping quarantine and version); flags switched along several paths.  The
simulation of one CPU is sequential: a handler runs to its end, or leaves by a long
jump.  There are no messages and nothing is persisted (the context's attribute is meant
for checkpoints, but setting it stops the simulator, see section 5).

## 2. Modules

| Module | Models | State and actions |
|---|---|---|
| `ICVTable` | what an ICV store promises | `table`; `Set`, `Clear` |
| `ICVMap` | `icv_map.h` | `icv_map`, the `std::map` with its pages; `set` is `SetInPage` or `SetNewPage`; `Clear`; `get` is an operator |
| `Integrity` | `integrity.h`, `integrity_isa.h`, the switching in `c3_model.h` and `c3_simics_connection.h` | the ICVs (as the table `ICVMap` implements), whether the map exists, the connection's option, the context flags, the suppress mode; one action per kind of access (locked, unlocked, disabled), instruction and switch |
| `CcMalloc` | `cc_malloc.c`, `try_box.h`, the helpers of `icv.h` | allocator state by its source names plus blocks in use, pointers held and ICVs; `Malloc` (and calloc), `Realloc`, `Free` |
| `Wrappers` | `cc_malloc_ldpreload.c`, `cc_malloc_wrapper.c` | operators on pointers |
| `RiscvC3` | `riscv_c3_model.h` | registers and the four fix-up variables; `Start`, `Complete`, `Fault`, `Interrupt` around the three callbacks |
| `RepMovs` | `rep_movsb_tripwire.h`, `copyICVs`, `cc_icv_memcpy/memmove` | ICVs and data of a small memory, suppress mode, pending fix-up, the copy in execution; `Copy`, `MoveByte`, `IcvFault`, `Interrupt`, `Complete`, `Other` (an unrelated instruction), `Resume` |
| `PtrEncoding` | `ca.h`, `try_box.h`, `ptrencdec_isa.h`, `pointer_encoding.h`, `sw_encoder.h` | operators, with a symbolic cipher |
| `Pipeline` | `c3_base_model.h`, `c3_model.h`, `castack.h`; extends `PtrEncoding` | the flags and addresses of the model, memory, the instruction in execution; `Start`, `StartFx`, `AddressBefore`, `Data`, `PageFault`, `Unannounced`, `LoadContext`, `SetStackHardening` |
| `Context` | `context.h`, `x86_context.h`, the flag routines of c3lib, `ctx_loaded_cb`, the schedule cache of `bipbip.cpp` | the context twice, the cipher's cache, per task the struct on its stack and the kernel's copy; `UserSave`, `UserLoad`, `UserLoadFaults` (cut short by a #GP, then retried or given up), `Switch`, `SetIcvs`, `UsePointer`, `SetIntegrityAttr`, `GetAttr` |
| `ShadowRip` | `shadow_rip.h` | gsrip, stack, code pointers, pending fix-ups; `StartBranch`/`CompleteBranch`, `StartRet`/`CompleteRet`, `StartMem`/`CompleteMem`, `Exception`, `SmmEnter`/`SmmLeave`, `Lea`, `LoadIcvFlag` |
| `Lim` | `lim_model/model.cpp`, `lim_ptr_encoding.h` | raw memory, mapped pages, objects, what `address_before` leaves; `Encode`, `Start`, one action per way through the callbacks, `Remap` |
| `Connection` | `simics_module.h`, `simics_connection.h`, its subclasses and the C3 connections | connections, options, callbacks as the CPU sees them; `Create`, `configure`, one action per attribute, `LoadContext`, `Disconnect` |
| `Isa` | the three decoders and disassemblers, the bytes of c3lib, the recognition in `castack.h` | operators |
| `Words`, `BipBip`, `Ascon`, `DataEncryption` | `crypto/`, `data_encryption.h`, the encryption of `sw_encoder.h` | operators and recursive functions on words as functions from bit numbers |
| `MC*` | | constants and symmetry for TLC |
| `*Proofs` | | theorems and proofs; `IntegrityProofs` is also about `ICVMap`, `CcMallocProofs` about `Wrappers`, `RiscvC3Proofs` about the ciphers and `Isa`, `ContextProofs` about `Connection` |

How they compose: `Pipeline` extends `PtrEncoding`; `DataEncryption` extends `Ascon`;
`ICVMap` implements `ICVTable`, which is the form in which `Integrity`, `CcMalloc` and
`RepMovs` use the ICVs.  `Pipeline` sees encryption as pads that cancel, which is
`TwiceIsIdentity` and `ByAddress`; `PtrEncoding` sees the pointer cipher as a
bijection, which is `PointerCipherInverse`.  `Context` assumes of the cipher only
what its cache is keyed by.

History variables, which the code does not have, say what happened; they guard
nothing.  `content` and `since` in `Integrity`; `born`, `dangling` and `age` in
`CcMalloc`; `before`, `arch` and `overlap` in `RiscvC3`; `job`, `interrupted` and
`icv_fault` in `RepMovs`; `owner`, `crossing_lost`, `cross_failed`, `misread` and
`rsp_lost` in `Pipeline`; `own`, `lost`, `closed` and `cut` in `Context`; `ghost` in
`ShadowRip`; `content` and `uninit` in `Lim`.

Abstractions:

* The encrypted bits of a CA are a tag, or symbolic cipher text.  Two CAs to one
  granule differ exactly in their tags, and data decrypts to the tripwire's magic
  value only under the CA that encrypted it.  An ICV is a tag with the INIT and
  PREINIT bits; `~0` has the tag `Ones`, which no pointer has, and both bits set.
* `Integrity` numbers granules by their physical index, as
  `kUsePhysicalMapForICVs` does.  An access covers one or two granules, which is
  what an 8-byte access does.
* Options that only print, stop the simulation or repair pointers are off.
* `gp_fault` is a long jump out of the handler, as `lim_model/model.cpp:272` says of the
  same `GP_fault`: what the handler has written stays, and the rest of it is not done, even
  where the code after the call is written to be reached (`Context`, `ShadowRip`).
* The heap of `CcMalloc` is a set of equal blocks; the external allocator returns
  any free one.  Callers free only what they hold.
* `CcMalloc` is used by one thread.  Opening the ICV lock, rewriting the range and
  closing the lock is one step there; in `Context` the three are separate.
* An instruction of `RiscvC3` that is not a load or store has an arbitrary result.
* `Pipeline`: memory holds bytes under sets of pads; a pointer outside its slot decodes
  to noise, one region that is not mapped.  A transaction without an address callback
  of its own happens in the base model only.
* `Context`: the three data keys are one; flags, data keys and address key are the
  three pieces after which a load can be cut short.  There is no action for setting the
  `c3_context` attribute.
* `ShadowRip`: a code address is its slot and whether it is encoded; recognising an
  instruction's operands (XED) is given.
* `Isa`: XED's registers are modelled for the bytes the instructions use and for those on
  which two decoders meet; for other second bytes they are a parameter, `XedOther`.
* `RepMovs`: of two encoded pointers to different buffers either may be the greater one, as
  their encrypted bits decide.
* `Lim`: data never looks like metadata (the code relies on the tag for that).
* `Connection`: forwarding to Simics interfaces is left out.

## 3. Runs

| Run | Checks | Result |
|---|---|---|
| `icvmap` | `CountExact`, `ImplementsTable` (refinement of `ICVTable`) | pass |
| `integrity` | `TaggedDataIsOwners`, `InvalidStays`, `InitNeedsStore` | pass |
| `init_written` | `InitMeansWritten` | violated: a write over two granules that faults on the second has already marked the first initialised |
| `malloc` | `QuarantineExact`, `IcvsMatchHolder`, `DanglingDetected`, `QuarantineDelays` | pass |
| `realloc_1b` | `ReallocSurvives` | violated: with `CC_DETECT_1B_OVF` and read faults, realloc copies by usable size from a block tagged by requested size |
| `riscv` | `TransparentWithoutOverlap`, `FaultSeesPointer` | pass |
| `riscv_transparent` | `Transparent` | violated: a load into its own base register leaves a fix-up for a later exception; a store whose immediate bits equal its base register leaves that register decoded |
| `pipeline` | `EncryptedByPointer`, `CrossFailNeedsFault`, `SlotConfines`, `RspKept`, `BoxRoundTrip` (over all blocks of the address space), `TypeOK` | pass |
| `repmovs` | `IcvFaultNeedsInterrupt`, `NeighboursKept`, `TripwiresCopied`, `FixupApplied` (liveness), `TypeOK` | pass |
| `context` | `KeysFollowTask`, `ScheduleCurrent`, `LockStaysClosed`, `EnabledNeedsMap`, `ResetOnlyOnRequest`, `TypeOK`; evaluates the assumptions of the ciphers' tables | pass |
| `shadowrip` | `GsripFollowsControl`, `PointersRestored`, `IntegrityRestored`, `BranchGoesThrough`, `DataThroughGsrip`, `TypeOK` | pass |
| `lim` | `MetadataKept`, `ReadsLastWrite`, `OwnObjectOnly`, `FaultsJustified`, `PlacesApart`, `TypeOK` | pass |

The `TypeOK` of `ICVMap` (`MapTypeOK`), `Integrity`, `CcMalloc` and `RiscvC3` is proved and not run.

Several of these properties are conditional ("unless a fault ended ...").  The
condition is part of the result: it names the event after which the code does not
keep the property, and section 5 says what the code does then.

Bounds, and why they are enough:

* `icvmap`: two full pages of three entries and values 0, 1, 2.  Pages are
  independent; three entries let a page grow, shrink, overwrite and die.
* `integrity`: two adjacent granules (the accesses that fault on either one), two
  tags besides LA (owner and stranger), both fault options on.
* `malloc`: a quarantine of two buffers of two slots wraps twice; five blocks (one
  not boxable) let one be held while the four slots are full; two
  versions come round within a few allocations; sizes 1 and 4 of blocks of two
  2-byte granules give a shifted pointer with an untagged granule and a full
  block.  With and without quarantine (chosen in `Init`).  Deadlock checking is
  off: a process that took a #GP ends.
* `riscv`: x0 and two more registers, one CA, its LA, and another value.
* `pipeline`: pages of two bytes, two of them, so that a two-byte access can cross; an
  address space of 16 bytes for `BoxRoundTrip`; one block over the page boundary, one
  that is a single byte and also the stack; accesses at every byte of the second page
  and the last of the first; three warnings, as in the code (1.9 million states).
* `repmovs`: two buffers of two 2-byte granules with a free granule on each side,
  copies of 0 to 4 bytes at every alignment and in both directions, interrupted at
  every byte.  One copy per behaviour: once its fix-up is applied, only data and ICVs
  outlive it, and `Init` puts tripwires into any of the granules (173 000 states).
* `context`: two tasks, one of which keeps its struct behind an encoded address (for
  which save and load behave differently), two keys, two tweaks, the option off so
  that the first enabling happens while running (3 million states).
* `shadowrip`: two protected slots and plain code, two frames: a call within an
  exception within protected code.  Deadlock checking is off because a branch whose
  target cannot be fetched needs an exception frame, and the bound may leave none (2.6
  million states).
* `lim`: pages of 8 bytes, slots of 4 to 32 with the three metadata sizes, four
  allocations (in one page; over four pages with metadata and displaced bytes across
  page boundaries; with less room behind the metadata than that takes; the smallest),
  loads, stores and prefetches of 2 and 5 bytes around bounds, metadata and page ends,
  two stores, two pages that come and go, both modes (1.8 million states).  Deadlock
  checking is off: an assertion of the simulator really ends it.

Fairness is assumed in `RepMovs` only: weak fairness of "the CPU executes on", the
disjunction of moving a byte, taking an ICV fault, completing, and an unrelated
instruction that leaves the options alone.  Simics runs the CPU until it is stopped, so
one of these happens.  Nothing is assumed about interrupts, about the resumption of
an interrupted copy, or about starting copies.  `FixupApplied` holds because the
after-callback belongs to whichever instruction completes next.  Elsewhere handlers run
to their end and nothing waits, so no liveness is claimed.

## 4. Proofs

The proofs hold for every value of the constants that satisfies the named assumption
of the module.  Most of these say only that sets are what they are meant to be (sizes
positive, tags distinct from LA and `~0`, buffers inside the memory).  Those of `BipBip`
and `Ascon` are facts about the tables in the source (S-boxes and permutations against
their inverses or specified forms) that TLC evaluates in the `context` run.
`PtrEncoding` assumes what the provers do not know of powers of two (they are positive,
the smaller divides the larger); `Pipeline` assumes that the program's memory lies in one
region of the address space and its boxes below the sign bit, and that the noise that a
forged CA decodes to is another region.  `Lim` assumes that the slots around memory are
memory, and that the half of the largest metadata that lies behind the middle of its slot
(8 of 16 bytes in the code) fits into one granule of the bounds (8 bytes).

Every theorem about a behaviour is of the form `Spec => []Inv` or `Spec => [][A]_vars`, by
an inductive invariant `IInv` that TLC checked on the run's instance before it was proved.
The properties are seldom inductive alone: they speak of the moment when an instruction is
over, and the strengthening says what each callback has left for the next one.

* `IntegrityProofs`, the ICV store and the checks.  `PageCountsExact` and
  `MapImplementsTable`: `CountExact` with `MapTypeOK` is inductive and is what the
  refinement needs: a page is erased when its count is 0, which loses nothing only if the
  count is exact.  The lemmas split a granule number into page and slot, injectively.
  `IntegritySafe` (the conjunction of `TypeOK`, `MapBeforeUse` and the run's invariants,
  which is inductive), `InitialisedByStore` and `InvalidGranulesStay`.  The argument for
  the data: a locked write stores only where tags match or, suppressed, where the data was
  the writer's before; an open write tags what it stores.  For the last theorem: no
  pointer has the tag `Ones`, so a write to an invalidated granule faults before the
  PREINIT logic, and a suppressed one never gets there.
* `CcMallocProofs`: `MallocSafe`, the conjunction of `TypeOK`, `QuarantineExact` and
  `IcvsMatchHolder`, which is inductive, and `IcvsAlwaysMatchHolder`.  The crux is `Free`:
  first the pointer joins the pending slots, then, if its buffer is full, every slot is
  pending and one whole row leaves, so what is freed is exactly what was pending in that
  row.  Stale pointers in slots are never freed, even with a single buffer.
  `UseAfterFreeDetected`: `VersionsCount` says that a pointer's tag follows from the number
  of versions given out since, modulo their number, so that fewer than all of them make a
  dangling pointer's tag differ from the holder's.  `QuarantineAlwaysDelays`: `Ages` says
  that a pending block is as old as the number of slots filled after its own, in the order
  in which rows and columns come round; when a row leaves, its blocks have waited for all
  the other rows.  About `Wrappers`: `WrapperGivesBack` (after any chain of calls glibc gets
  its own pointer back), `WrapperHidesFailure` (a small allocation that fails does not come
  back as NULL) and `WrapperMemcpyTruncates` (the wrapper's memcpy copies everything only
  below 4 GiB).
* `RiscvC3Proofs`: `FixupTransparent` and `FaultTransparent`.  The run's invariant
  speaks of the moments between instructions; the strengthening (`Mid`, `Clean`)
  says what the fix-up holds during one and that none lingers without an overlap.
  About the ciphers, `PointerCipherInverse`: each layer of BipBip has its inverse (the S-box
  and the permutations by `TableAssumption`, the linear layers bit by bit over XOR), each
  round therefore has, and decryption takes the rounds and round keys backwards.
  `RoundMeetsSpec` (the optimised round of the code is the round of the ASCON
  specification), `MaskFits` (no access of up to 64 bytes overruns the mask buffer),
  `ByAddress` (each byte is masked by the keystream of its own address, however an access is
  cut into chunks) and, from it, `TwiceIsIdentity`, `WordTwiceIsIdentity` and
  `SwTwiceIsIdentity`.  About `Isa`, `DecodersBounded`, `DecodersStable`, `ClaimsDisjoint`,
  `DisassemblersAgree`, `LibraryReachesDecoder` and `JmpRdxNotRecognised`, by cases on the
  bytes: the decoders of three classes look at the same illegal instructions, and what they
  promise each other is the absence of a second meaning.  They hold for any `XedOther`.
* `PipelineProofs`: `PipelineTypes`, `DataEncryptedByPointer`, `CrossFailOnlyAfterFault`,
  `CaConfinedToSlot`, `StackPointerKept` and `BoxesRoundTrip`.  In the invariant, `Access`
  says that an instruction accesses one or two bytes through a pointer of the program, and
  a second page only if they are on two; `Handover`, what `address_before` and the first
  chunk leave for the data callback (whether the pointer is encoded, the CA and the LA
  they belong to); `Crossing`, that the two flags belong to the current instruction unless
  an access was cut short; `Stack`, that RSP is the program's or decoded for the
  instruction that saved it.  Below that is the arithmetic of the format: a number in
  nested blocks (the slot in the clear bits), what the bit above which the two ends of a
  block agree says about its box, and what changes when the address moves inside or
  outside its slot.
* `RepMovsProofs`: `RepMovsTypes`, `FaultOnlyAfterInterrupt`, `NeighboursAlwaysKept` and
  `TripwiresAlwaysCopied`.  What the loop of `copyICVs` computes for every length is proved
  from its passes: the states of a loop exist, and what holds of the first and is kept by
  each pass holds of the last.  An upward range of bytes touches exactly the granules the
  entry counts say, and areas at the same offset in their granules keep their distance.
  The invariant: what runs or waits is the rest of one job inside the job's buffers
  (`Progress`); a copy that was not interrupted finds its destination's ICVs as they were
  checked (`Undisturbed`); once the handler has applied a fix-up, all the job's ICVs are
  copied, and copying those of the rest again changes nothing (`Fixed`).
* `ContextProofs`: `ContextTypes`, `TaskKeepsItsKeys`, `ScheduleNeverStale`, `LockNeverLeaks`,
  `MapWheneverEnabled` and `ResetNeverRepeats`, for any number of tasks and keys.  What has
  to be known is what the struct on a task's stack holds between save and load (`Due`), that
  the guest's copy of the keys is the keys in use as long as the task that runs has lost
  none (`Copy`), how far a request may have got into the guest's view without being served
  (`Behind`), and that only the contexts of tasks whose request was cut short ask for a reset
  (`NoRequest`).
  About `Connection`, `ConnectionTypes`, `OptionsAlwaysInForce` and `CallbacksNeverStray`, for
  any number of connections; the strengthening says how far the connection made last has
  come, and for each stage which handles exist.
* `ShadowRipProofs`: `ShadowRipTypes`, `GsripNeverLost`, `PointersAlwaysRestored`,
  `IntegrityAlwaysRestored`, `BranchesGoThrough` and `DataAlwaysThroughGsrip`, for any number
  of slots and any depth of frames.  As long as no exception has come between the
  callbacks of a branch, every variable is determined by what the program would see
  without C3 and by the branch under way: gsrip (`Control`), the marks on return addresses
  (`Frames`), the patched pointers and what restores them (`Patches`), the integrity switch
  (`Suspended`).
* `LimProofs`: `LimTypes`, `MetadataAlwaysKept`, `LoadsReadLastWrite`, `AccessesStayInObject`,
  `FaultsAlwaysJustified` and `PlacesAlwaysApart`, for every memory, set of slot sizes and
  allocations, and any number of accesses and page faults.  The arithmetic first: the
  bounds that `lim_compute_bounded_data_size` lets pass are granules around the middle of
  the slot that hold the object and the metadata and stay in the slot (`WellPlaced`), for
  each of the three metadata sizes; decoding a pointer anywhere in a slot finds the same
  middle.  From this, that both modes give every byte a place of its own.  The invariant:
  objects lie apart (`ObjsOK`), so a tag that is found in memory is that of the object whose
  slot it is in (`TagsInMetadata`), and the tag check of `address_before` passes for the
  pointer's own object only; the bounds and the crossing it leaves for the data callback are
  that object's while the instruction lasts, and those of some object when a page fault
  has left them behind, which the next `address_before` replaces (`AccOK`); a second
  transaction continues a first one that was let through (`HalfWay`); and each byte that the
  program stored last is at the place its mode gives it (`Homes`).  A store is followed
  byte by byte: those before the metadata, those that the callback moves, and the metadata
  it writes back, which the CPU's own write would otherwise have hit.

Where a proof needs induction over numbers (the bits of a block's ends, the passes of
`copyICVs`) it goes by contradiction through the least number for which the claim fails
(`Least`, from the library's theorem that the order of the naturals is well founded).

Only model-checked: `FixupApplied`, which is liveness and out of the prover's reach; every
other property of the passing runs is also proved.  Only proved, with no run: `Connection`,
`Isa`, `Wrappers` and the ciphers.

## 5. What modelling the code showed

Besides the three findings of the violated runs (in `PROJECT.json`), these are
behaviours of the code that a reader of it may not expect.  The models have them; the
properties are stated around them.

* Pipeline.  Decoding overwrites the upper bits, so a corrupted CA decodes to a
  canonical address almost always; what confines it is that the address is noise.  The
  slot is checked for the first byte only.  A fault that ends a page-crossing CA access
  leaves its flags, and a later access with a linear address gets a "Cross-page
  handling fail" #GP (`CrossFailNeedsFault` shows that only this can cause it;
  `c3_base_model.h:382` expects it not to happen).  In `C3Model`, `integrity.h:511`
  overwrites `la_decoded_` just before the base model compares with it, so that the
  mismatch test never fails there.  The result of `check_memory_access` is ignored.  A
  faulting FXSAVE or FXRSTOR leaves RSP decoded (`castack.h:42-76`), and the JMP RDX of
  `castack.h:118` is never recognised.  `save_and_decode` does not ask whether C3 is
  enabled.  The comment on slot sizes in `try_box.h` ("0x1 = 8B slot") is stale.
* REP MOVSB.  `cc_icv_memmove` compares encoded pointers (`icv.h:217`), so that its
  direction is by chance when the buffers differ, and right when they are one.  A backward move takes `[la - n, la)` for its range although it writes
  `[la - n + 1, la]`, and so retags the granule below the destination.  When the
  destination touches one granule more than the source, the extra one gets the ICV of
  the granule before the source.  A copy of no bytes at an unaligned address still sets
  an entry.  An interrupted copy has all its ICVs copied by the handler's first
  instruction, so that the resumed copy may fault at a tripwire; the test
  `icv_rep_movs_modes.cpp:47` runs without interrupts.
* Context.  A load through an encoded address loads nothing (`x86_context.h:176`) and a
  save through one writes plaintext.  A load that a page fault cuts short has written part
  of the struct into `cc_context_` and leaves out the keys and `ctx_loaded_cb`
  (`x86_context.h:183-193`).  Integrity can then be on without a map, so that the next
  access ends in the ASSERT at `integrity.h:578`; a reset request stays in the context, is
  saved with it and empties the map when the saved context is loaded, once more than was
  asked for.  `EnabledNeedsMap`, `ResetOnlyOnRequest` and
  `KeysFollowTask` say that this befalls only the task whose own request was cut short, and
  that a completed load ends it.  `set_from_attr_data` asserts the opposite of what it means
  (`context.h:173`), so that a `c3_context` of the right size never gets past it; behind
  it, the routine would set the keys in use and not the guest's copy, and enable integrity
  without a map.  A task that enables integrity second finds the lock open.  Setting the
  integrity attribute between a task's save and load is undone by the load.
* Shadow RIP.  An exception between the two callbacks of a branch loses its fix-ups.
  An exception with an error code is taken to have pushed a return address
  (`shadow_rip.h:502`), which disables gsrip and raises #GP from within the delivery of
  the first exception.  An address that escapes its slot ends the callback at once: pointers
  patched for the branch stay decoded, and gsrip is disabled but not cleared.
  `mem_call_integrity_hack_` is never reset.  With data encryption disabled, a branch
  through heap memory writes 0 for the target (`825-831`).  `read_ra_at_rsp` does not
  decode RSP (`340-351`).
* LIM.  An out-of-bounds second half of a page-crossing access meets an `assert(0)` in
  `print_access_info`, which stops the simulator instead of raising #GP.  The
  lower-bound check (`model.cpp:428-445`) only warns; `OwnObjectOnly` shows that it is
  never needed.  A prefetch whose metadata is on a page that is not mapped goes on
  with uninitialised metadata.  The assertion on two page faults in a row and the
  "Bad LIM metadata configuration" fault are unreachable.
* Instructions.  Two decoders ignore byte 1 before they ask XED, and end the simulator when
  it finds no two 64-bit registers (`ptrencdec_isa.h:119`, `integrity_isa.h:119`): for a
  REX prefix without W, and for a context instruction that the opcode of an ADD, AND or SUB
  of registers follows.  There `X86Context` has to be asked first; `ClaimsDisjoint` says that
  these are the only bytes on which the order of registration matters.
* Integrity.  `integrity.h:716` passes `do_icv_correction` its arguments in the wrong
  order (a debugging option).  `integrity_suppress_mode_` is not initialised: the
  models start in every mode.
* Connection.  `trace_exceptions` or `break_on_exception` given at creation would use an
  interface that is not fetched yet.  LIM redeclares `break_on_exception`
  (`lim_simics_module.h:11`), so that its attribute never switches the callback.  The
  `c3_context`, integrity and `cc_isa_ptrenc` attributes dereference null before
  `configure`.  The RISC-V connection inherits an `exception_before` that quits the
  simulator.  `get_exception_error_code` of the x86 connection returns the source.
* Allocator libraries.  A small malloc that fails returns a marked NULL, which calloc
  then clears; `dlsym` may call calloc again.  `cc_free` of `cclib.c` does not initialise
  on first use, and the memalign family aborts.
* Software encoder.  `get_tweak_mask` takes a `uint8_t` and gets a CA (`sw_encoder.h:144`);
  more than 64 bytes overrun the mask buffer (the bound in `SwTwiceIsIdentity`).

## 6. Not modelled

* Threads in the allocator: `cc_malloc.c` has no locks and the code makes no promise
  for them.
* Debugging options that stop the simulation, repair pointers or print
  (`break_on_*`, `correct_on_fail`, `disable_data_encryption` of the pipeline,
  `trace_only` and `disable_meta_check` of LIM); LIM accesses to address 0.
* RIP-relative branches of code that is not protected, and XED's decoding.
* The translation of linear to physical granules; RISC-V's data in memory (the data
  path it inherits is in `Pipeline`).
* Forwarding to Simics interfaces, symbol loading in the wrappers, scripts and tests.
