------------------------------- MODULE Context -------------------------------
(***************************************************************************)
(* The C3 context of one CPU: Context and X86Context of                    *)
(* modules/common/ccsimics (context.h, x86_context.h), the ctx_loaded_cb   *)
(* of the C3 connection, and the users of both: the read-modify-write      *)
(* routines of c3lib (cc_set_icv and its like), an operating system that   *)
(* switches tasks, and scripts that use the integrity attribute or read    *)
(* c3_context.  Nothing sets c3_context: the assertion at context.h:173    *)
(* ends the simulator on every attribute of the right size.                *)
(*                                                                         *)
(* The module keeps the context twice: cc_context_, the guest's view, and  *)
(* the keys in use.  A load refreshes the second from the first.           *)
(*                                                                         *)
(* The three data keys are one, since they are treated alike.  gp_fault    *)
(* does not return: the same GP_fault "does long jump"                     *)
(* (lim_model/model.cpp:272), so a load that meets an unmapped page stops  *)
(* there, with part of the struct in cc_context_ and the rest undone.      *)
(***************************************************************************)
EXTENDS Naturals

CONSTANTS Tasks,
          CaBuf,     \* tasks whose struct cc_context lies behind an encoded address
          Keys,
          DefKey,    \* DEF_DATA_KEY_BYTES, DEF_ADDR_KEY_BYTES
          Option,    \* the integrity option the module is started with
          First,     \* the task that runs first
          Tweaks     \* of the pointers that the tasks use

ASSUME ContextAssumption ==
  /\ CaBuf \subseteq Tasks /\ First \in Tasks
  /\ DefKey \in Keys /\ Option \in BOOLEAN /\ 0 \in Tweaks

VARIABLES
  ctx,        \* cc_context_
  key,        \* dp_key_ (with ds_key_ and c_key_) and addr_key_
  cipher,     \* PointerCipher24b: its key and tweak, and those its cached schedules are for
  has_map,    \* icv_map_ != nullptr
  icvs,       \* the ICV map has entries
  cur,        \* the task that runs
  kbuf,       \* the OS's saved context of each task that does not run
  ubuf,       \* the struct cc_context on a task's stack, while a load of it is due
  op,         \* what each task is about to load its struct for
  inside,     \* the task is between the lock calls of cc_set_icv, or gave up there
  own,        \* history: the keys each task last loaded
  lost,       \* history: tasks whose load of keys was cut short, until they load keys
  closed,     \* history: tasks whose own loads have closed the lock
  cut         \* history: tasks whose request to turn integrity on, or to reset the ICVs, was
              \* cut short, until a load of theirs completes

vars == <<ctx, key, cipher, has_map, icvs, cur, kbuf, ubuf, op, inside, own, lost, closed, cut>>

None == [f |-> "none", v |-> FALSE]

Ops == {None} \cup [f : {"lock", "enabled"}, v : BOOLEAN] \cup [f : {"reset"}, v : {TRUE}]
       \cup [f : {"keys"}, v : Keys]

Contexts == [lock : BOOLEAN, enabled : BOOLEAN, reset : BOOLEAN, data : Keys, addr : Keys]

\* What Context's constructor and configure make of the option.
Configured == [lock |-> Option, enabled |-> Option, reset |-> FALSE,
               data |-> DefKey, addr |-> DefKey]

KeyPair == [data : Keys, addr : Keys]

KeysOf(c) == [data |-> c.data, addr |-> c.addr]

-----------------------------------------------------------------------------
(***************************************************************************)
(* read_mem copies byte by byte and raises #GP at the first page that is   *)
(* not mapped: the flags, the data keys and the address key arrive in      *)
(* order.  A key arrives whole or not at all.                              *)
(***************************************************************************)
Groups == 0 .. 3

All == 3

read_mem(c, buf, n) ==
  [lock    |-> IF n > 0 THEN buf.lock ELSE c.lock,
   enabled |-> IF n > 0 THEN buf.enabled ELSE c.enabled,
   reset   |-> IF n > 0 THEN buf.reset ELSE c.reset,
   data    |-> IF n > 1 THEN buf.data ELSE c.data,
   addr    |-> IF n > 2 THEN buf.addr ELSE c.addr]

\* A bug: the schedule of the old key stays.
init_key_keeps(k) == [cipher EXCEPT !.key = k, !.tweak = 0]

init_key(k) == [key |-> k, tweak |-> 0, sched |-> <<k, 0>>]

\* The tweak schedule is kept from one pointer to the next, while the tweak stays.
regenerate_tweak_schedule_for_new_tweak(t) ==
  IF t = cipher.tweak THEN cipher ELSE [cipher EXCEPT !.tweak = t, !.sched = <<cipher.key, t>>]

\* A key that does not change keeps its schedule.
set_addr_key(k) ==
  /\ key'.addr = k
  /\ cipher' = IF k = key.addr THEN cipher ELSE init_key(k)

\* C3Model::set_integrity on context c: the first enabling allocates the map and closes the
\* lock.
set_integrity(c, val) ==
  [c EXCEPT !.enabled = val, !.lock = IF val /\ ~has_map THEN TRUE ELSE @]

\* A bug: the reset request is acted on and kept.
ctx_loaded_cb_keeps_reset(c) ==
  /\ ctx' = set_integrity(c, c.enabled)
  /\ has_map' = (has_map \/ c.enabled)
  /\ icvs' = (icvs /\ ~c.reset)

\* A bug: the map is only allocated at start-up.
ctx_loaded_cb_no_map(c) ==
  /\ ctx' = [c EXCEPT !.reset = FALSE]
  /\ icvs' = (icvs /\ ~c.reset)
  /\ UNCHANGED has_map

ctx_loaded_cb(c) ==
  /\ ctx' = [set_integrity(c, c.enabled) EXCEPT !.reset = FALSE]
  /\ has_map' = (has_map \/ c.enabled)
  /\ icvs' = (icvs /\ ~c.reset)

\* A bug: the address key schedule is not set up again.
load_context_no_addr_key(buf, n, ca) ==
  LET c == IF ca THEN ctx ELSE read_mem(ctx, buf, n)
  IN  \/ /\ n < All
         /\ ctx' = c
         /\ UNCHANGED <<key, cipher, has_map, icvs>>
      \/ /\ n = All
         /\ key' = [key EXCEPT !.data = c.data]
         /\ UNCHANGED cipher
         /\ ctx_loaded_cb(c)

\* n groups of the struct are mapped.  Through an encoded address the struct is read into a
\* temporary, which the next call then overwrites with the encryption of cc_context_: nothing
\* is loaded, but the rest is done.
load_context(buf, n, ca) ==
  LET c == IF ca THEN ctx ELSE read_mem(ctx, buf, n)
  IN  \/ /\ n < All
         /\ ctx' = c
         /\ UNCHANGED <<key, cipher, has_map, icvs>>
      \/ /\ n = All
         /\ key' = KeysOf(c)
         /\ set_addr_key(c.addr)
         /\ ctx_loaded_cb(c)

\* What a save writes, through an encoded address too: cc_context_ as it is.
save_context == ctx

-----------------------------------------------------------------------------
(***************************************************************************)
(* The routines of c3lib save the context to a local struct, change a      *)
(* field of it and load it back.  The task may be switched away between    *)
(* the save and the load.  A struct behind an encoded address is never     *)
(* looked at; buffers that are no longer read count as fresh.  A save that *)
(* meets an unmapped page changes nothing here.                            *)
(***************************************************************************)
\* A bug: the lock bit is only ever cleared.
Edited_lock_and(c, o) ==
  CASE o.f = "lock"    -> [c EXCEPT !.lock = @ /\ o.v]
    [] o.f = "enabled" -> [c EXCEPT !.enabled = o.v]
    [] o.f = "reset"   -> [c EXCEPT !.reset = o.v]
    [] o.f = "keys"    -> [c EXCEPT !.data = o.v, !.addr = o.v]

Edited(c, o) ==
  CASE o.f = "lock"    -> [c EXCEPT !.lock = o.v]
    [] o.f = "enabled" -> [c EXCEPT !.enabled = o.v]
    [] o.f = "reset"   -> [c EXCEPT !.reset = o.v]
    [] o.f = "keys"    -> [c EXCEPT !.data = o.v, !.addr = o.v]

\* cc_set_icv closes the lock after it has opened it; a task that gave up in between may turn
\* to anything else.
Allowed(o) == o = [f |-> "lock", v |-> TRUE] => inside[cur]

UserSave(o) ==
  /\ op[cur] = None /\ o # None /\ Allowed(o)
  /\ ubuf' = IF cur \in CaBuf THEN ubuf ELSE [ubuf EXCEPT ![cur] = Edited(save_context, o)]
  /\ op' = [op EXCEPT ![cur] = o]
  /\ inside' = [inside EXCEPT ![cur] = inside[cur] \/ o.f = "lock"]
  /\ UNCHANGED <<ctx, key, cipher, has_map, icvs, cur, kbuf, own, lost, closed, cut>>

\* The struct is mapped.
UserLoad ==
  LET o    == op[cur]
      keys == o.f = "keys" /\ cur \notin CaBuf
  IN  /\ o # None
      /\ load_context(ubuf[cur], All, cur \in CaBuf)
      /\ op' = [op EXCEPT ![cur] = None]
      /\ ubuf' = [ubuf EXCEPT ![cur] = Configured]
      /\ inside' = [inside EXCEPT ![cur] = @ /\ o # [f |-> "lock", v |-> TRUE]]
      /\ own' = IF keys THEN [own EXCEPT ![cur] = [data |-> o.v, addr |-> o.v]] ELSE own
      /\ lost' = IF keys THEN lost \ {cur} ELSE lost
      /\ closed' = [closed EXCEPT ![cur] = @ \/ ctx'.lock]
      /\ cut' = cut \ {cur}
      /\ UNCHANGED <<cur, kbuf>>

\* Only the first n groups of it are.  After the #GP the task either retries the instruction
\* or gives up.
UserLoadFaults(n, retry) ==
  LET o    == op[cur]
      read == IF cur \in CaBuf THEN 0 ELSE n
      asks == o.f \in {"enabled", "reset"} /\ o.v = TRUE
  IN  /\ o # None /\ n < All
      /\ load_context(ubuf[cur], n, cur \in CaBuf)
      /\ \/ retry /\ UNCHANGED <<op, ubuf, inside>>
         \/ /\ ~retry
            /\ op' = [op EXCEPT ![cur] = None]
            /\ ubuf' = [ubuf EXCEPT ![cur] = Configured]
            /\ inside' = [inside EXCEPT ![cur] = @ /\ ~ctx'.lock]
      /\ lost' = IF read > 1 /\ o.f = "keys" THEN lost \cup {cur} ELSE lost
      /\ closed' = [closed EXCEPT ![cur] = @ \/ (read > 0 /\ ctx'.lock)]
      /\ cut' = IF read > 0 /\ asks THEN cut \cup {cur} ELSE cut
      /\ UNCHANGED <<cur, kbuf, own>>

\* A bug: the writes set ICVs although integrity is off.
SetIcvs_disabled ==
  /\ inside[cur] /\ op[cur] = None
  /\ ~ctx.lock
  /\ icvs' = TRUE
  /\ UNCHANGED <<ctx, key, cipher, has_map, cur, kbuf, ubuf, op, inside, own, lost, closed, cut>>

\* The writes of cc_set_icv set ICVs while the lock is open.
SetIcvs ==
  /\ inside[cur] /\ op[cur] = None
  /\ ctx.enabled /\ has_map /\ ~ctx.lock
  /\ icvs' = TRUE
  /\ UNCHANGED <<ctx, key, cipher, has_map, cur, kbuf, ubuf, op, inside, own, lost, closed, cut>>

\* An access through an encoded pointer, or the encoding of one.
UsePointer(t) ==
  /\ cipher' = regenerate_tweak_schedule_for_new_tweak(t)
  /\ UNCHANGED <<ctx, key, has_map, icvs, cur, kbuf, ubuf, op, inside, own, lost, closed, cut>>

\* The OS saves the context of one task and loads that of the next; its buffers are mapped
\* and not encoded.
Switch(t) ==
  /\ t # cur
  /\ cur' = t
  /\ kbuf' = [kbuf EXCEPT ![cur] = save_context, ![t] = Configured]
  /\ load_context(kbuf[t], All, FALSE)
  /\ UNCHANGED <<ubuf, op, inside, own, lost, closed, cut>>

-----------------------------------------------------------------------------
\* C3SimicsConnection::set_integrity, the attribute.  A task that has saved its context and
\* not yet loaded it back undoes this.
SetIntegrityAttr(val) ==
  /\ ctx' = set_integrity(ctx, val)
  /\ has_map' = (has_map \/ val)
  /\ UNCHANGED <<key, cipher, icvs, cur, kbuf, ubuf, op, inside, own, lost, closed, cut>>

get_attr_data(c) == [c EXCEPT !.data = key.data, !.addr = key.addr]

\* A script reads the attribute, which copies the keys in use into the context.
GetAttr ==
  /\ ctx' = get_attr_data(ctx)
  /\ UNCHANGED <<key, cipher, has_map, icvs, cur, kbuf, ubuf, op, inside, own, lost, closed, cut>>

-----------------------------------------------------------------------------
Init ==
  /\ ctx = Configured /\ key = KeysOf(Configured)
  /\ cipher = [key |-> DefKey, tweak |-> 0, sched |-> <<DefKey, 0>>]
  /\ has_map = Option /\ icvs = FALSE
  /\ cur = First
  /\ kbuf = [t \in Tasks |-> Configured] /\ ubuf = [t \in Tasks |-> Configured]
  /\ op = [t \in Tasks |-> None] /\ inside = [t \in Tasks |-> FALSE]
  /\ own = [t \in Tasks |-> KeysOf(Configured)]
  /\ lost = {} /\ closed = [t \in Tasks |-> Option] /\ cut = {}

Next ==
  \/ \E o \in Ops : UserSave(o)
  \/ UserLoad
  \/ \E n \in Groups, retry \in BOOLEAN : UserLoadFaults(n, retry)
  \/ SetIcvs
  \/ \E t \in Tweaks : UsePointer(t)
  \/ \E t \in Tasks : Switch(t)
  \/ \E val \in BOOLEAN : SetIntegrityAttr(val)
  \/ GetAttr

Spec == Init /\ [][Next]_vars

-----------------------------------------------------------------------------
\* The context of a task, wherever it is kept at the moment.
ContextOf(t) == IF t = cur THEN ctx ELSE kbuf[t]

\* The types of the state; there are only ICVs while there is a map.
TypeOK ==
  /\ ctx \in Contexts /\ key \in KeyPair
  /\ cipher \in [key : Keys, tweak : Tweaks, sched : Keys \X Tweaks]
  /\ has_map \in BOOLEAN /\ icvs \in BOOLEAN /\ (icvs => has_map)
  /\ cur \in Tasks
  /\ kbuf \in [Tasks -> Contexts] /\ ubuf \in [Tasks -> Contexts]
  /\ op \in [Tasks -> Ops] /\ inside \in [Tasks -> BOOLEAN]
  /\ own \in [Tasks -> KeyPair] /\ lost \subseteq Tasks
  /\ closed \in [Tasks -> BOOLEAN] /\ cut \subseteq Tasks

\* However tasks are switched between the save and the load of their own updates, and wherever
\* a page fault stops their loads (x86_context.h:172), each runs with the keys it last loaded
\* and its saved context names them.  Only a load of new keys that stops after the data keys
\* leaves a mixture in the context that is saved next, until the task loads keys again.
KeysFollowTask ==
  \A t \in Tasks \ lost : own[t] = IF t = cur THEN key ELSE KeysOf(kbuf[t])

\* Whatever loads, faults and task switches come between two pointers, the schedule that the
\* pointer cipher keeps (bipbip.cpp:340) is the one of the address key in use and of its tweak.
ScheduleCurrent == cipher.sched = <<key.addr, cipher.tweak>>

\* A task that has itself closed the ICV lock finds it closed whenever it is not itself between
\* the lock calls of cc_set_icv (icv.h:185): an opening or closing that a task switch or a
\* fault interrupts is neither seen by other tasks nor lost or left over for this one.
LockStaysClosed ==
  \A t \in Tasks : closed[t] /\ ~inside[t] => ContextOf(t).lock

\* Integrity is on without an ICV map only while the task runs whose own request a page fault
\* stopped after the flags: there the next access ends in the assertion at integrity.h:578.  A
\* task switch or a completed load always brings the map, and no other task meets this.
EnabledNeedsMap == ctx.enabled /\ ~has_map => cur \in cut

\* The ICV map is only emptied by the load of the task that asked for it
\* (c3_simics_connection.h:137): the request does not come back with a saved context, except
\* with a context of a task whose own request was stopped by a page fault, which leaves the
\* request in cc_context_, until a load of that task completes.
ResetOnlyOnRequest ==
  [][icvs /\ ~icvs' => (cur' = cur /\ op[cur].f = "reset") \/ cur' \in cut]_vars
=============================================================================
