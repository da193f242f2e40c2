---------------------------- MODULE ContextProofs ----------------------------
(***************************************************************************)
(* The context for any number of tasks, keys and tweaks, and the life of   *)
(* the connections that own it (module Connection, which has no run of     *)
(* TLC), for any number of them.                                           *)
(*                                                                         *)
(* The invariants of Context speak of the context in use and of the saved  *)
(* ones; what makes them inductive is what the struct on a task's stack    *)
(* holds while its load is due (Due), and how the guest's copy of the keys *)
(* relates to the keys in use (Copy).                                      *)
(***************************************************************************)
EXTENDS Context, Connection, TLAPS

\* The guest's copy of the keys is the keys in use, unless a load of new keys was cut short.
Copy == cur \notin lost => KeysOf(ctx) = key

\* A struct that is about to be loaded holds the keys its task will then have loaded last.
DueKeys ==
  \A t \in Tasks \ CaBuf : op[t] # None =>
    /\ op[t].f = "keys" => KeysOf(ubuf[t]) = [data |-> op[t].v, addr |-> op[t].v]
    /\ op[t].f # "keys" /\ t \notin lost => KeysOf(ubuf[t]) = own[t]

\* It keeps a lock that the task has closed, and asks for a reset of the ICVs, or for integrity
\* that has no map yet, only if the task does or did when it was cut short.
DueFlags ==
  \A t \in Tasks \ CaBuf : op[t] # None =>
    /\ op[t].f # "lock" /\ closed[t] /\ ~inside[t] => ubuf[t].lock
    /\ op[t].f = "lock" => ubuf[t].lock = op[t].v
    /\ ubuf[t].reset => op[t].f = "reset" \/ t \in cut
    /\ ubuf[t].enabled /\ ~has_map => (op[t].f = "enabled" /\ op[t].v = TRUE) \/ t \in cut

Due == DueKeys /\ DueFlags /\ \A t \in Tasks : op[t].f = "lock" => inside[t]

\* A load through an encoded address changes nothing, so a task that only has such structs is
\* never cut short, and its own loads do not change its lock.
Behind ==
  \A t \in CaBuf : t \notin lost /\ t \notin cut /\ (closed[t] => ContextOf(t).lock)

\* No context that is in use or saved by the OS has a request to reset the ICVs, but that of a
\* task that was cut short.
NoRequest == \A t \in Tasks : ContextOf(t).reset => t \in cut

KeyInv    == TypeOK /\ Copy /\ Due /\ Behind /\ NoRequest /\ KeysFollowTask /\ LockStaysClosed
CipherInv == TypeOK /\ cipher.key = key.addr /\ ScheduleCurrent
IInv      == KeyInv /\ CipherInv /\ EnabledNeedsMap

-----------------------------------------------------------------------------
\* What is read from a struct is a context.
LEMMA ReadType ==
  ASSUME NEW c \in Contexts, NEW buf \in Contexts, NEW n \in Groups
  PROVE  read_mem(c, buf, n) \in Contexts
BY DEF read_mem, Contexts

\* What of a struct is read before an unmapped page: the flags first, then the data keys.
LEMMA ReadIs ==
  ASSUME NEW c \in Contexts, NEW buf \in Contexts, NEW n \in Groups
  PROVE  LET r == read_mem(c, buf, n)
         IN  /\ n > 0 => r.lock = buf.lock /\ r.reset = buf.reset /\ r.enabled = buf.enabled
             /\ ~(n > 0) => r = c
             /\ ~(n > 1) => KeysOf(r) = KeysOf(c)
             /\ KeysOf(buf) = KeysOf(c) => KeysOf(r) = KeysOf(c)
             /\ n = All => r = buf
<1> DEFINE r == read_mem(c, buf, n)
<1>1. n > 0 => r.lock = buf.lock /\ r.reset = buf.reset /\ r.enabled = buf.enabled
  BY DEF read_mem
<1>2. r.data \in {c.data, buf.data} /\ r.addr \in {c.addr, buf.addr}
  BY DEF read_mem
<1>3. ~(n > 0) => r = c
  BY DEF read_mem, Contexts, Groups
<1>4. ~(n > 1) => r.data = c.data /\ r.addr = c.addr
  BY DEF read_mem, Groups
<1>5. n = All => r = buf
  BY DEF read_mem, Contexts, All
<1> HIDE DEF r
<1>6. ~(n > 1) => KeysOf(r) = KeysOf(c)
  BY <1>4 DEF KeysOf
<1>7. KeysOf(buf) = KeysOf(c) => KeysOf(r) = KeysOf(c)
  BY <1>2 DEF KeysOf
<1> QED BY <1>1, <1>3, <1>5, <1>6, <1>7 DEF r

LEMMA ConfiguredType == Configured \in Contexts /\ KeysOf(Configured) \in KeyPair
BY ContextAssumption DEF Configured, Contexts, KeysOf, KeyPair

LEMMA OpsType ==
  ASSUME NEW o \in Ops
  PROVE  /\ o = None \/ o.f \in {"lock", "enabled", "reset", "keys"}
         /\ o.f \in {"lock", "enabled"} => o.v \in BOOLEAN
         /\ o.f = "reset" => o.v = TRUE
         /\ o.f = "keys" => o.v \in Keys
         /\ o.f = "none" => o = None
<1>1. CASE o = None
  BY <1>1 DEF None
<1>2. CASE o \in [f : {"lock", "enabled"}, v : BOOLEAN]
  BY <1>2
<1>3. CASE o \in [f : {"reset"}, v : {TRUE}]
  BY <1>3
<1>4. CASE o \in [f : {"keys"}, v : Keys]
  BY <1>4
<1> QED BY <1>1, <1>2, <1>3, <1>4 DEF Ops

\* What c3lib makes of a context: one field changes, or both keys.
LEMMA EditedIs ==
  ASSUME NEW c \in Contexts, NEW o \in Ops, o # None
  PROVE  /\ Edited(c, o) \in Contexts
         /\ Edited(c, o).lock = IF o.f = "lock" THEN o.v ELSE c.lock
         /\ Edited(c, o).reset = (c.reset \/ o.f = "reset")
         /\ Edited(c, o).enabled = IF o.f = "enabled" THEN o.v ELSE c.enabled
         /\ KeysOf(Edited(c, o)) = IF o.f = "keys" THEN [data |-> o.v, addr |-> o.v] ELSE KeysOf(c)
<1>1. CASE o.f = "lock"
  <2>1. Edited(c, o) = [c EXCEPT !.lock = o.v] /\ o.v \in BOOLEAN
    BY <1>1, OpsType DEF Edited
  <2> QED BY <1>1, <2>1 DEF Contexts, KeysOf
<1>2. CASE o.f = "enabled"
  <2>1. Edited(c, o) = [c EXCEPT !.enabled = o.v] /\ o.v \in BOOLEAN
    BY <1>2, OpsType DEF Edited
  <2> QED BY <1>2, <2>1 DEF Contexts, KeysOf
<1>3. CASE o.f = "reset"
  <2>1. Edited(c, o) = [c EXCEPT !.reset = o.v] /\ o.v = TRUE
    BY <1>3, OpsType DEF Edited
  <2> QED BY <1>3, <2>1 DEF Contexts, KeysOf
<1>4. CASE o.f = "keys"
  <2>1. Edited(c, o) = [c EXCEPT !.data = o.v, !.addr = o.v] /\ o.v \in Keys
    BY <1>4, OpsType DEF Edited
  <2> QED BY <1>4, <2>1 DEF Contexts, KeysOf
<1> QED BY <1>1, <1>2, <1>3, <1>4, OpsType

\* A load of c: the keys follow, the lock is kept or closed, and nothing is requested any more.
LEMMA LoadIs ==
  ASSUME TypeOK, NEW c \in Contexts, ctx_loaded_cb(c)
  PROVE  /\ ctx' \in Contexts /\ has_map' \in BOOLEAN /\ icvs' \in BOOLEAN
         /\ (icvs' => has_map')
         /\ KeysOf(ctx') = KeysOf(c)
         /\ (c.lock => ctx'.lock) /\ ~ctx'.reset
         /\ (ctx'.enabled => has_map')
         /\ (icvs /\ ~icvs' => c.reset)
         /\ (has_map => has_map')
<1>1. /\ ctx' = [[c EXCEPT !.enabled = c.enabled, !.lock = IF c.enabled /\ ~has_map THEN TRUE ELSE @]
                   EXCEPT !.reset = FALSE]
      /\ has_map' = (has_map \/ c.enabled) /\ icvs' = (icvs /\ ~c.reset)
  BY DEF ctx_loaded_cb, set_integrity
<1>2. c.enabled \in BOOLEAN /\ c.lock \in BOOLEAN /\ c.reset \in BOOLEAN
  BY DEF Contexts
<1>3. /\ ctx' \in Contexts /\ KeysOf(ctx') = KeysOf(c)
      /\ (c.lock => ctx'.lock) /\ ~ctx'.reset /\ ctx'.enabled = c.enabled
  BY <1>1, <1>2 DEF Contexts, KeysOf, TypeOK
<1>4. has_map' \in BOOLEAN /\ icvs' \in BOOLEAN /\ (icvs' => has_map') /\ (ctx'.enabled => has_map')
      /\ (has_map => has_map')
  BY <1>1, <1>2, <1>3 DEF TypeOK
<1> QED BY <1>1, <1>2, <1>3, <1>4

\* What a load of a whole struct leaves: c is what was read, or the context itself.
LEMMA LoadContextIs ==
  ASSUME IInv, NEW buf \in Contexts, NEW ca \in BOOLEAN,
         load_context(buf, All, ca)
  PROVE  LET c == IF ca THEN ctx ELSE buf
         IN  /\ c \in Contexts /\ ctx_loaded_cb(c)
             /\ key' = KeysOf(c) /\ key' \in KeyPair
             /\ cipher' \in [key : Keys, tweak : Tweaks, sched : Keys \X Tweaks]
             /\ cipher'.key = key'.addr
             /\ cipher'.sched = <<key'.addr, cipher'.tweak>>
<1> DEFINE c == IF ca THEN ctx ELSE buf
<1>1. c \in Contexts /\ All \in Groups /\ ctx \in Contexts
  BY DEF IInv, KeyInv, TypeOK, All, Groups
<1>2. /\ key' = KeysOf(c) /\ ctx_loaded_cb(c)
      /\ cipher' = IF c.addr = key.addr THEN cipher ELSE init_key(c.addr)
  <2>1. c = IF ca THEN ctx ELSE read_mem(ctx, buf, All)
    BY <1>1, ReadIs
  <2>2. ~(All < All)
    BY DEF All
  <2> QED BY <2>1, <2>2 DEF load_context, set_addr_key
<1>3. key' \in KeyPair /\ key'.addr = c.addr /\ c.addr \in Keys
  BY <1>1, <1>2 DEF KeysOf, KeyPair, Contexts
<1> HIDE DEF c
<1>4. /\ cipher' \in [key : Keys, tweak : Tweaks, sched : Keys \X Tweaks]
      /\ cipher'.key = key'.addr
      /\ cipher'.sched = <<key'.addr, cipher'.tweak>>
  <2>1. CASE c.addr = key.addr
    BY <1>2, <1>3, <2>1 DEF IInv, CipherInv, ScheduleCurrent, TypeOK
  <2>2. CASE c.addr # key.addr
    BY <1>2, <1>3, <2>2, ContextAssumption DEF init_key
  <2> QED BY <2>1, <2>2
<1> QED BY <1>1, <1>2, <1>3, <1>4 DEF c

-----------------------------------------------------------------------------
\* A save takes a copy of the context for a later load.
LEMMA UserSaveKeepsIInv ==
  ASSUME IInv, NEW o \in Ops, UserSave(o)
  PROVE  IInv'
<1> USE DEF IInv, KeyInv
<1> DEFINE e == Edited(ctx, o)
<1>1. /\ op[cur] = None /\ o # None /\ cur \in Tasks /\ Allowed(o)
      /\ ubuf' = IF cur \in CaBuf THEN ubuf ELSE [ubuf EXCEPT ![cur] = e]
      /\ op' = [op EXCEPT ![cur] = o]
      /\ inside' = [inside EXCEPT ![cur] = inside[cur] \/ o.f = "lock"]
      /\ UNCHANGED <<ctx, key, cipher, has_map, icvs, cur, kbuf, own, lost, closed, cut>>
  BY DEF UserSave, save_context, TypeOK
<1>2. /\ e \in Contexts /\ e.lock = IF o.f = "lock" THEN o.v ELSE ctx.lock
      /\ e.reset = (ctx.reset \/ o.f = "reset")
      /\ e.enabled = IF o.f = "enabled" THEN o.v ELSE ctx.enabled
      /\ KeysOf(e) = IF o.f = "keys" THEN [data |-> o.v, addr |-> o.v] ELSE KeysOf(ctx)
  BY <1>1, EditedIs DEF TypeOK
<1> HIDE DEF e
<1>3. TypeOK'
  <2>1. ubuf' \in [Tasks -> Contexts] /\ op' \in [Tasks -> Ops]
    BY <1>1, <1>2 DEF TypeOK
  <2>2. inside' \in [Tasks -> BOOLEAN]
    BY <1>1 DEF TypeOK
  <2> QED BY <1>1, <2>1, <2>2 DEF TypeOK
<1>4. o.f = "enabled" => o.v \in BOOLEAN
  BY OpsType
<1>5. /\ closed[cur] /\ ~inside[cur] => ctx.lock
      /\ ctx.reset => cur \in cut
      /\ ctx.enabled /\ ~has_map => cur \in cut
  BY <1>1 DEF LockStaysClosed, ContextOf, NoRequest, EnabledNeedsMap
<1>6. cur \notin lost => KeysOf(ctx) = own[cur]
  BY <1>1 DEF Copy, KeysFollowTask, TypeOK
<1>7. Due'
  <2>1. DueKeys'
    <3> SUFFICES ASSUME NEW t \in Tasks \ CaBuf, op'[t] # None
                 PROVE  /\ op'[t].f = "keys"
                             => KeysOf(ubuf'[t]) = [data |-> op'[t].v, addr |-> op'[t].v]
                        /\ op'[t].f # "keys" /\ t \notin lost' => KeysOf(ubuf'[t]) = own'[t]
      BY DEF DueKeys
    <3> QED BY <1>1, <1>2, <1>6 DEF Due, DueKeys, TypeOK
  <2>2. ASSUME NEW t \in Tasks \ CaBuf, op'[t] # None
        PROVE  /\ op'[t].f # "lock" /\ closed'[t] /\ ~inside'[t] => ubuf'[t].lock
               /\ op'[t].f = "lock" => ubuf'[t].lock = op'[t].v
               /\ ubuf'[t].reset => op'[t].f = "reset" \/ t \in cut'
               /\ ubuf'[t].enabled /\ ~has_map'
                    => (op'[t].f = "enabled" /\ op'[t].v = TRUE) \/ t \in cut'
    <3>1. CASE t # cur
      BY <1>1, <2>2, <3>1 DEF Due, DueFlags, TypeOK
    <3>2. CASE t = cur
      <4>1. op'[t] = o /\ ubuf'[t] = e /\ inside'[t] = (inside[cur] \/ o.f = "lock")
        BY <1>1, <2>2, <3>2 DEF TypeOK
      <4> QED BY <1>1, <1>2, <1>4, <1>5, <3>2, <4>1
    <3> QED BY <3>1, <3>2
  <2>3. ASSUME NEW t \in Tasks PROVE op'[t].f = "lock" => inside'[t]
    BY <1>1, <2>3 DEF Due, TypeOK
  <2> QED BY <2>1, <2>2, <2>3 DEF Due, DueFlags
<1>8. LockStaysClosed'
  BY <1>1 DEF LockStaysClosed, ContextOf, TypeOK
<1>9. KeysFollowTask'
  BY <1>1 DEF KeysFollowTask
<1>10. Copy' /\ Behind' /\ NoRequest' /\ CipherInv' /\ EnabledNeedsMap'
  BY <1>1, <1>3 DEF Copy, Behind, NoRequest, CipherInv, ScheduleCurrent, EnabledNeedsMap, ContextOf
<1> QED BY <1>3, <1>7, <1>8, <1>9, <1>10

\* A load of a struct that the task may have saved long before.
LEMMA UserLoadKeepsIInv ==
  ASSUME IInv, UserLoad
  PROVE  IInv'
<1> USE DEF IInv, KeyInv
<1> DEFINE o    == op[cur]
           ca   == cur \in CaBuf
           keys == o.f = "keys" /\ ~ca
           c    == IF ca THEN ctx ELSE ubuf[cur]
<1>1. /\ o # None /\ cur \in Tasks /\ o \in Ops
      /\ load_context(ubuf[cur], All, ca)
      /\ op' = [op EXCEPT ![cur] = None]
      /\ ubuf' = [ubuf EXCEPT ![cur] = Configured]
      /\ inside' = [inside EXCEPT ![cur] = inside[cur] /\ o # [f |-> "lock", v |-> TRUE]]
      /\ own' = IF keys THEN [own EXCEPT ![cur] = [data |-> o.v, addr |-> o.v]] ELSE own
      /\ lost' = IF keys THEN lost \ {cur} ELSE lost
      /\ closed' = [closed EXCEPT ![cur] = closed[cur] \/ ctx'.lock]
      /\ cut' = cut \ {cur}
      /\ UNCHANGED <<cur, kbuf>>
  BY DEF UserLoad, TypeOK
<1>2. /\ c \in Contexts /\ ctx_loaded_cb(c)
      /\ key' = KeysOf(c) /\ key' \in KeyPair
      /\ cipher' \in [key : Keys, tweak : Tweaks, sched : Keys \X Tweaks]
      /\ cipher'.key = key'.addr
      /\ cipher'.sched = <<key'.addr, cipher'.tweak>>
  <2>1. ubuf[cur] \in Contexts /\ ca \in BOOLEAN
    BY <1>1 DEF TypeOK
  <2> QED BY <1>1, <2>1, LoadContextIs
<1>3. (ca => c = ctx) /\ (~ca => c = ubuf[cur])
  OBVIOUS
<1> HIDE DEF c
<1>4. /\ ctx' \in Contexts /\ has_map' \in BOOLEAN /\ icvs' \in BOOLEAN
      /\ (icvs' => has_map') /\ (has_map => has_map')
      /\ KeysOf(ctx') = KeysOf(c)
      /\ (c.lock => ctx'.lock) /\ ~ctx'.reset
      /\ (ctx'.enabled => has_map')
  BY <1>2, LoadIs
<1>5. TypeOK'
  <2>1. /\ op' \in [Tasks -> Ops] /\ ubuf' \in [Tasks -> Contexts]
        /\ lost' \subseteq Tasks /\ cut' \subseteq Tasks
    BY <1>1, ConfiguredType DEF TypeOK, Ops
  <2>2. inside' \in [Tasks -> BOOLEAN]
    BY <1>1 DEF TypeOK
  <2>3. ctx'.lock \in BOOLEAN
    BY <1>4 DEF Contexts
  <2>4. closed' \in [Tasks -> BOOLEAN]
    BY <1>1, <2>3 DEF TypeOK
  <2>5. own' \in [Tasks -> KeyPair]
    <3>1. o.f = "keys" => [data |-> o.v, addr |-> o.v] \in KeyPair
      BY <1>1, OpsType DEF KeyPair
    <3> QED BY <1>1, <3>1 DEF TypeOK
  <2> QED BY <1>1, <1>2, <1>4, <2>1, <2>2, <2>4, <2>5 DEF TypeOK
<1>6. Copy'
  BY <1>2, <1>4 DEF Copy
<1>7. /\ op'[cur] = None /\ None.f = "none"
      /\ \A t \in Tasks \ {cur} :
           /\ op'[t] = op[t] /\ ubuf'[t] = ubuf[t] /\ inside'[t] = inside[t]
           /\ own'[t] = own[t] /\ closed'[t] = closed[t]
           /\ (t \in lost' <=> t \in lost) /\ (t \in cut' <=> t \in cut)
  BY <1>1 DEF TypeOK, None
<1>8. Due'
  <2>1. DueKeys'
    BY <1>7 DEF Due, DueKeys
  <2>2. DueFlags'
    BY <1>4, <1>7 DEF Due, DueFlags
  <2> QED BY <1>7, <2>1, <2>2 DEF Due
<1>9. NoRequest' /\ EnabledNeedsMap'
  BY <1>1, <1>4, <1>7 DEF NoRequest, EnabledNeedsMap, ContextOf
<1>10. CipherInv'
  BY <1>2, <1>5 DEF CipherInv, ScheduleCurrent
<1>11. KeysFollowTask'
  <2>1. ASSUME cur \notin lost' PROVE own'[cur] = key'
    <3>1. CASE ca
      BY <1>1, <1>2, <1>3, <2>1, <3>1 DEF Copy, KeysFollowTask
    <3>2. CASE keys
      <4>1. own'[cur] = [data |-> o.v, addr |-> o.v]
        BY <1>1, <3>2 DEF TypeOK
      <4>2. KeysOf(ubuf[cur]) = [data |-> o.v, addr |-> o.v]
        BY <1>1, <3>2 DEF Due, DueKeys
      <4> QED BY <1>2, <1>3, <3>2, <4>1, <4>2
    <3>3. CASE ~ca /\ ~keys
      BY <1>1, <1>2, <1>3, <2>1, <3>3 DEF Due, DueKeys
    <3> QED BY <3>1, <3>2, <3>3
  <2> QED BY <1>1, <1>7, <2>1 DEF KeysFollowTask
<1>12. closed'[cur] /\ (ca \/ ~inside'[cur]) => ctx'.lock
  <2>1. ASSUME closed[cur], ca \/ ~inside'[cur] PROVE c.lock
    <3>1. CASE ca
      BY <1>1, <1>3, <2>1, <3>1 DEF Behind, ContextOf
    <3>2. CASE ~ca /\ o.f # "lock"
      <4>1. ~inside[cur]
        BY <1>1, <2>1, <3>2 DEF TypeOK
      <4> QED BY <1>1, <1>3, <2>1, <3>2, <4>1 DEF Due, DueFlags
    <3>3. CASE ~ca /\ o.f = "lock"
      <4>1. inside[cur] /\ ubuf[cur].lock = o.v
        BY <1>1, <3>3 DEF Due, DueFlags
      <4>2. o = [f |-> "lock", v |-> TRUE]
        <5>1. inside'[cur] <=> inside[cur] /\ o # [f |-> "lock", v |-> TRUE]
          BY <1>1 DEF TypeOK
        <5> QED BY <2>1, <3>3, <4>1, <5>1
      <4>3. o.v = TRUE
        BY <4>2
      <4> QED BY <1>3, <3>3, <4>1, <4>3
    <3> QED BY <3>1, <3>2, <3>3
  <2> QED BY <1>1, <1>4, <2>1 DEF TypeOK
<1>13. LockStaysClosed'
  BY <1>1, <1>7, <1>12 DEF LockStaysClosed, ContextOf
<1>14. Behind'
  BY <1>1, <1>7, <1>12, ContextAssumption DEF Behind, ContextOf
<1> QED BY <1>5, <1>6, <1>8, <1>9, <1>10, <1>11, <1>13, <1>14

\* A load that a page fault stops: part of the struct is in the context, and nothing follows.
LEMMA UserLoadFaultsKeepsIInv ==
  ASSUME IInv, NEW n \in Groups, NEW retry \in BOOLEAN, UserLoadFaults(n, retry)
  PROVE  IInv'
<1> USE DEF IInv, KeyInv
<1> DEFINE o    == op[cur]
           ca   == cur \in CaBuf
           read == IF ca THEN 0 ELSE n
           asks == o.f \in {"enabled", "reset"} /\ o.v = TRUE
           r    == read_mem(ctx, ubuf[cur], n)
<1>1. /\ o # None /\ cur \in Tasks /\ o \in Ops
      /\ ctx \in Contexts /\ ubuf[cur] \in Contexts
      /\ ctx' = IF ca THEN ctx ELSE r
      /\ \/ UNCHANGED <<op, ubuf, inside>>
         \/ /\ op' = [op EXCEPT ![cur] = None]
            /\ ubuf' = [ubuf EXCEPT ![cur] = Configured]
            /\ inside' = [inside EXCEPT ![cur] = inside[cur] /\ ~ctx'.lock]
      /\ lost' = IF read > 1 /\ o.f = "keys" THEN lost \cup {cur} ELSE lost
      /\ closed' = [closed EXCEPT ![cur] = closed[cur] \/ (read > 0 /\ ctx'.lock)]
      /\ cut' = IF read > 0 /\ asks THEN cut \cup {cur} ELSE cut
      /\ UNCHANGED <<key, cipher, has_map, icvs, cur, kbuf, own>>
  BY DEF UserLoadFaults, load_context, TypeOK, All, Groups
<1>2. /\ r \in Contexts
      /\ n > 0 => r.lock = ubuf[cur].lock /\ r.reset = ubuf[cur].reset /\ r.enabled = ubuf[cur].enabled
      /\ ~(n > 0) => r = ctx
      /\ ~(n > 1) => KeysOf(r) = KeysOf(ctx)
      /\ KeysOf(ubuf[cur]) = KeysOf(ctx) => KeysOf(r) = KeysOf(ctx)
  <2>1. r \in Contexts
    BY <1>1, ReadType
  <2> QED BY <1>1, <2>1, ReadIs
<1> HIDE DEF r
<1>3. /\ ctx' \in Contexts
      /\ read > 0 => ~ca /\ ctx'.lock = ubuf[cur].lock /\ ctx'.reset = ubuf[cur].reset
                         /\ ctx'.enabled = ubuf[cur].enabled
      /\ ~(read > 0) => ctx' = ctx
      /\ ~(read > 1) => KeysOf(ctx') = KeysOf(ctx)
      /\ KeysOf(ubuf[cur]) = KeysOf(ctx) => KeysOf(ctx') = KeysOf(ctx)
  BY <1>1, <1>2
<1>4. ca => ~(read > 0) /\ ~(read > 1)
  OBVIOUS
<1> HIDE DEF read
<1>5. TypeOK'
  <2>1. /\ op' \in [Tasks -> Ops] /\ ubuf' \in [Tasks -> Contexts]
        /\ lost' \subseteq Tasks /\ cut' \subseteq Tasks
    <3>1. None \in Ops
      BY DEF Ops
    <3> QED BY <1>1, <3>1, ConfiguredType DEF TypeOK
  <2>2. ctx'.lock \in BOOLEAN
    BY <1>3 DEF Contexts
  <2>3. inside' \in [Tasks -> BOOLEAN] /\ closed' \in [Tasks -> BOOLEAN]
    BY <1>1, <2>2 DEF TypeOK
  <2> QED BY <1>1, <1>3, <2>1, <2>3 DEF TypeOK
<1>6. /\ \A t \in Tasks \ {cur} :
           /\ op'[t] = op[t] /\ ubuf'[t] = ubuf[t] /\ inside'[t] = inside[t]
           /\ closed'[t] = closed[t]
           /\ (t \in lost' <=> t \in lost) /\ (t \in cut' <=> t \in cut)
      /\ lost \subseteq lost' /\ cut \subseteq cut'
      /\ op'[cur] # None => op'[cur] = o /\ ubuf'[cur] = ubuf[cur] /\ inside'[cur] = inside[cur]
      /\ op'[cur] = None \/ op'[cur] = o
      /\ inside'[cur] \/ ctx'.lock \/ ~inside[cur]
  BY <1>1 DEF TypeOK
<1>7. Copy'
  <2> SUFFICES ASSUME cur \notin lost' PROVE KeysOf(ctx') = key
    BY <1>1 DEF Copy
  <2>1. KeysOf(ctx) = key /\ key = own[cur] /\ cur \notin lost
    BY <1>1, <1>6 DEF Copy, KeysFollowTask
  <2>2. CASE read > 1
    <3>1. o.f # "keys" /\ ~ca
      BY <1>1, <1>4, <2>2
    <3>2. KeysOf(ubuf[cur]) = own[cur]
      BY <1>1, <2>1, <3>1 DEF Due, DueKeys
    <3> QED BY <1>3, <2>1, <3>2
  <2>3. CASE ~(read > 1)
    BY <1>3, <2>1, <2>3
  <2> QED BY <2>2, <2>3
<1>8. ~ca => /\ ubuf[cur].reset => o.f = "reset" \/ cur \in cut
             /\ ubuf[cur].enabled /\ ~has_map => asks \/ cur \in cut
             /\ closed[cur] /\ ~inside[cur] => ubuf[cur].lock
             /\ o.f = "reset" => asks
  BY <1>1, OpsType DEF Due, DueFlags
<1>9. NoRequest' /\ EnabledNeedsMap'
  <2>1. ctx'.reset => cur \in cut'
    <3>1. CASE read > 0
      BY <1>1, <1>3, <1>8, <3>1
    <3>2. CASE ~(read > 0)
      BY <1>1, <1>3, <3>2 DEF NoRequest, ContextOf
    <3> QED BY <3>1, <3>2
  <2>2. ctx'.enabled /\ ~has_map => cur \in cut'
    <3>1. CASE read > 0
      BY <1>1, <1>3, <1>8, <3>1
    <3>2. CASE ~(read > 0)
      BY <1>1, <1>3, <3>2 DEF EnabledNeedsMap
    <3> QED BY <3>1, <3>2
  <2> QED BY <1>1, <1>6, <2>1, <2>2 DEF NoRequest, EnabledNeedsMap, ContextOf
<1>10. closed'[cur] = (closed[cur] \/ (read > 0 /\ ctx'.lock))
  BY <1>1 DEF TypeOK
<1>11. closed[cur] /\ ~inside[cur] => ctx'.lock
  <2>1. CASE read > 0
    BY <1>3, <1>8, <2>1
  <2>2. CASE ~(read > 0)
    BY <1>1, <1>3, <2>2 DEF LockStaysClosed, ContextOf
  <2> QED BY <2>1, <2>2
<1>12. Due'
  <2>1. DueKeys'
    BY <1>1, <1>6 DEF Due, DueKeys
  <2>2. DueFlags'
    <3> SUFFICES ASSUME NEW t \in Tasks \ CaBuf, op'[t] # None
        PROVE  /\ op'[t].f # "lock" /\ closed'[t] /\ ~inside'[t] => ubuf'[t].lock
               /\ op'[t].f = "lock" => ubuf'[t].lock = op'[t].v
               /\ ubuf'[t].reset => op'[t].f = "reset" \/ t \in cut'
               /\ ubuf'[t].enabled /\ ~has_map'
                    => (op'[t].f = "enabled" /\ op'[t].v = TRUE) \/ t \in cut'
      BY DEF DueFlags
    <3>1. CASE t # cur
      BY <1>1, <1>6, <3>1 DEF Due, DueFlags
    <3>2. CASE t = cur
      <4>1. op'[t] = o /\ ubuf'[t] = ubuf[cur] /\ inside'[t] = inside[cur]
        BY <1>6, <3>2
      <4>2. read > 0 => ctx'.lock = ubuf[cur].lock
        BY <1>3
      <4>3. closed'[t] /\ ~inside'[t] => ubuf'[t].lock
        BY <1>8, <1>10, <3>2, <4>1, <4>2
      <4> QED BY <1>1, <1>6, <3>2, <4>1, <4>3 DEF Due, DueFlags
    <3> QED BY <3>1, <3>2
  <2>3. ASSUME NEW t \in Tasks PROVE op'[t].f = "lock" => inside'[t]
    <3>1. CASE op'[t] = None
      BY <3>1 DEF None
    <3>2. CASE op'[t] # None
      BY <1>6, <2>3, <3>2 DEF Due
    <3> QED BY <3>1, <3>2
  <2> QED BY <2>1, <2>2, <2>3 DEF Due
<1>13. LockStaysClosed'
  <2>1. closed'[cur] /\ ~inside'[cur] => ctx'.lock
    BY <1>6, <1>10, <1>11
  <2> QED BY <1>1, <1>6, <2>1 DEF LockStaysClosed, ContextOf
<1>14. Behind'
  <2>1. ca => ctx' = ctx /\ closed'[cur] = closed[cur] /\ lost' = lost /\ cut' = cut
    BY <1>1, <1>3, <1>4, <1>10 DEF TypeOK
  <2> QED BY <1>1, <1>6, <2>1, ContextAssumption DEF Behind, ContextOf
<1>15. KeysFollowTask'
  BY <1>1, <1>6 DEF KeysFollowTask
<1>16. CipherInv'
  BY <1>1, <1>5 DEF CipherInv, ScheduleCurrent
<1> QED BY <1>5, <1>7, <1>9, <1>12, <1>13, <1>14, <1>15, <1>16

\* A task switch: the keys in use go to one saved context and come from another.
LEMMA SwitchKeepsIInv ==
  ASSUME IInv, NEW t \in Tasks, Switch(t)
  PROVE  IInv'
<1> USE DEF IInv, KeyInv
<1> DEFINE c == kbuf[t]
<1>1. /\ t # cur /\ cur' = t /\ cur \in Tasks
      /\ kbuf' = [kbuf EXCEPT ![cur] = ctx, ![t] = Configured]
      /\ load_context(kbuf[t], All, FALSE)
      /\ UNCHANGED <<ubuf, op, inside, own, lost, closed, cut>>
  BY DEF Switch, save_context, TypeOK
<1>2. c \in Contexts
  BY DEF TypeOK
<1>3. /\ ctx_loaded_cb(c)
      /\ key' = KeysOf(c) /\ key' \in KeyPair
      /\ cipher' \in [key : Keys, tweak : Tweaks, sched : Keys \X Tweaks]
      /\ cipher'.key = key'.addr
      /\ cipher'.sched = <<key'.addr, cipher'.tweak>>
  BY <1>1, <1>2, LoadContextIs
<1>4. /\ ctx' \in Contexts /\ has_map' \in BOOLEAN /\ icvs' \in BOOLEAN
      /\ (icvs' => has_map') /\ (has_map => has_map')
      /\ KeysOf(ctx') = KeysOf(c)
      /\ (c.lock => ctx'.lock) /\ ~ctx'.reset
      /\ (ctx'.enabled => has_map')
  BY <1>2, <1>3, LoadIs
<1>5. kbuf'[cur] = ctx /\ \A u \in Tasks \ {cur, t} : kbuf'[u] = kbuf[u]
  BY <1>1 DEF TypeOK
<1>6. TypeOK'
  <2>1. kbuf' \in [Tasks -> Contexts]
    BY <1>1, ConfiguredType DEF TypeOK
  <2> QED BY <1>1, <1>3, <1>4, <2>1 DEF TypeOK
<1>7. Copy'
  BY <1>1, <1>3, <1>4 DEF Copy
<1>8. Due'
  <2>1. DueKeys'
    BY <1>1 DEF Due, DueKeys
  <2>2. DueFlags'
    BY <1>1, <1>4 DEF Due, DueFlags
  <2> QED BY <1>1, <2>1, <2>2 DEF Due
<1>9. KeysFollowTask'
  <2>1. cur \notin lost => own[cur] = KeysOf(ctx)
    BY <1>1 DEF Copy, KeysFollowTask
  <2> QED BY <1>1, <1>3, <1>5, <2>1 DEF KeysFollowTask
<1>10. Behind'
  BY <1>1, <1>4, <1>5, ContextAssumption DEF Behind, ContextOf
<1>11. LockStaysClosed'
  BY <1>1, <1>4, <1>5 DEF LockStaysClosed, ContextOf
<1>12. NoRequest' /\ EnabledNeedsMap'
  BY <1>1, <1>4, <1>5 DEF NoRequest, EnabledNeedsMap, ContextOf
<1>13. CipherInv'
  BY <1>3, <1>6 DEF CipherInv, ScheduleCurrent
<1> QED BY <1>6, <1>7, <1>8, <1>9, <1>10, <1>11, <1>12, <1>13

\* The attribute: closing or keeping the lock, and no other field but the switch itself.
LEMMA SetIntegrityAttrKeepsIInv ==
  ASSUME IInv, NEW val \in BOOLEAN, SetIntegrityAttr(val)
  PROVE  IInv'
<1> USE DEF IInv, KeyInv
<1>1. /\ ctx' = [ctx EXCEPT !.enabled = val, !.lock = IF val /\ ~has_map THEN TRUE ELSE @]
      /\ has_map' = (has_map \/ val)
      /\ UNCHANGED <<key, cipher, icvs, cur, kbuf, ubuf, op, inside, own, lost, closed, cut>>
  BY DEF SetIntegrityAttr, set_integrity
<1>2. /\ ctx' \in Contexts /\ KeysOf(ctx') = KeysOf(ctx)
      /\ (ctx.lock => ctx'.lock) /\ ctx'.reset = ctx.reset /\ ctx'.enabled = val
  BY <1>1 DEF TypeOK, Contexts, KeysOf
<1>3. has_map' \in BOOLEAN /\ (icvs' => has_map') /\ (val => has_map') /\ (has_map => has_map')
  BY <1>1 DEF TypeOK
<1>4. TypeOK'
  BY <1>1, <1>2, <1>3 DEF TypeOK
<1>5. Copy' /\ Due' /\ KeysFollowTask' /\ EnabledNeedsMap'
  BY <1>1, <1>2, <1>3 DEF Copy, Due, DueKeys, DueFlags, KeysFollowTask, EnabledNeedsMap
<1>6. Behind' /\ NoRequest' /\ LockStaysClosed'
  BY <1>1, <1>2 DEF Behind, NoRequest, LockStaysClosed, ContextOf
<1>7. CipherInv'
  BY <1>1, <1>4 DEF CipherInv, ScheduleCurrent
<1> QED BY <1>4, <1>5, <1>6, <1>7

\* Reading the attribute makes the guest's copy of the keys the keys in use.
LEMMA GetAttrKeepsIInv ==
  ASSUME IInv, GetAttr
  PROVE  IInv'
<1> USE DEF IInv, KeyInv
<1>1. /\ ctx' = [ctx EXCEPT !.data = key.data, !.addr = key.addr]
      /\ UNCHANGED <<key, cipher, has_map, icvs, cur, kbuf, ubuf, op, inside, own, lost, closed, cut>>
  BY DEF GetAttr, get_attr_data
<1>2. /\ ctx' \in Contexts /\ KeysOf(ctx') = key
      /\ ctx'.lock = ctx.lock /\ ctx'.reset = ctx.reset /\ ctx'.enabled = ctx.enabled
  BY <1>1 DEF TypeOK, Contexts, KeysOf, KeyPair
<1>3. TypeOK'
  BY <1>1, <1>2 DEF TypeOK
<1>4. Copy' /\ Due' /\ KeysFollowTask' /\ EnabledNeedsMap'
  BY <1>1, <1>2 DEF Copy, Due, DueKeys, DueFlags, KeysFollowTask, EnabledNeedsMap
<1>5. Behind' /\ NoRequest' /\ LockStaysClosed'
  BY <1>1, <1>2 DEF Behind, NoRequest, LockStaysClosed, ContextOf
<1>6. CipherInv'
  BY <1>1, <1>3 DEF CipherInv, ScheduleCurrent
<1> QED BY <1>3, <1>4, <1>5, <1>6

\* Using a pointer makes the schedule that of its tweak; setting ICVs touches nothing else.
LEMMA UseKeepsIInv ==
  ASSUME IInv, SetIcvs \/ (\E t \in Tweaks : UsePointer(t)) \/ UNCHANGED vars
  PROVE  IInv'
<1> USE DEF IInv, KeyInv
<1>1. UNCHANGED <<ctx, key, has_map, cur, kbuf, ubuf, op, inside, own, lost, closed, cut>>
  BY DEF SetIcvs, UsePointer, vars
<1>2. icvs' \in BOOLEAN /\ (icvs' => has_map)
  <2>1. CASE SetIcvs
    BY <2>1 DEF SetIcvs
  <2>2. CASE icvs' = icvs
    BY <2>2 DEF TypeOK
  <2> QED BY <2>1, <2>2 DEF UsePointer, vars
<1>3. /\ cipher' \in [key : Keys, tweak : Tweaks, sched : Keys \X Tweaks]
      /\ cipher'.key = key.addr /\ cipher'.sched = <<key.addr, cipher'.tweak>>
  <2>1. CASE SetIcvs \/ UNCHANGED vars
    BY <2>1 DEF SetIcvs, vars, TypeOK, CipherInv, ScheduleCurrent
  <2>2. ASSUME NEW t \in Tweaks, UsePointer(t)
        PROVE  /\ cipher' \in [key : Keys, tweak : Tweaks, sched : Keys \X Tweaks]
               /\ cipher'.key = key.addr /\ cipher'.sched = <<key.addr, cipher'.tweak>>
    BY <2>2 DEF UsePointer, regenerate_tweak_schedule_for_new_tweak, TypeOK, CipherInv,
                ScheduleCurrent
  <2> QED BY <2>1, <2>2
<1>4. TypeOK'
  BY <1>1, <1>2, <1>3 DEF TypeOK
<1>5. Copy' /\ Due' /\ Behind' /\ NoRequest' /\ KeysFollowTask' /\ LockStaysClosed'
      /\ EnabledNeedsMap'
  BY <1>1 DEF Copy, Due, DueKeys, DueFlags, Behind, NoRequest, KeysFollowTask, LockStaysClosed, EnabledNeedsMap,
              ContextOf
<1>6. CipherInv'
  BY <1>1, <1>3, <1>4 DEF CipherInv, ScheduleCurrent
<1> QED BY <1>4, <1>5, <1>6

-----------------------------------------------------------------------------
LEMMA InitIInv == Init => IInv
<1> SUFFICES ASSUME Init PROVE IInv
  OBVIOUS
<1>1. /\ Configured \in Contexts /\ KeysOf(Configured) \in KeyPair
      /\ Configured.reset = FALSE /\ Configured.lock = Option /\ Configured.enabled = Option
      /\ KeysOf(Configured).addr = DefKey
  BY ConfiguredType DEF Configured, KeysOf
<1>2. None \in Ops /\ None.f = "none"
  BY DEF None, Ops
<1>3. TypeOK
  <2>1. cipher \in [key : Keys, tweak : Tweaks, sched : Keys \X Tweaks]
    BY ContextAssumption DEF Init
  <2> QED BY <1>1, <1>2, <2>1, ContextAssumption DEF Init, TypeOK
<1>4. Copy /\ NoRequest /\ KeysFollowTask /\ EnabledNeedsMap
  BY <1>1 DEF Init, Copy, NoRequest, KeysFollowTask, EnabledNeedsMap, ContextOf
<1>5. Due
  BY <1>1, <1>2 DEF Init, Due, DueKeys, DueFlags
<1>6. Behind /\ LockStaysClosed
  BY <1>1, ContextAssumption DEF Init, Behind, LockStaysClosed, ContextOf
<1>7. CipherInv
  BY <1>1, <1>3 DEF Init, CipherInv, ScheduleCurrent
<1> QED BY <1>3, <1>4, <1>5, <1>6, <1>7 DEF IInv, KeyInv

LEMMA NextIInv == IInv /\ [Next]_vars => IInv'
<1> SUFFICES ASSUME IInv, [Next]_vars PROVE IInv'
  OBVIOUS
<1>1. ASSUME NEW o \in Ops, UserSave(o) PROVE IInv'
  BY <1>1, UserSaveKeepsIInv
<1>2. CASE UserLoad
  BY <1>2, UserLoadKeepsIInv
<1>3. CASE SetIcvs \/ (\E t \in Tweaks : UsePointer(t)) \/ UNCHANGED vars
  BY <1>3, UseKeepsIInv
<1>4. ASSUME NEW t \in Tasks, Switch(t) PROVE IInv'
  BY <1>4, SwitchKeepsIInv
<1>5. ASSUME NEW val \in BOOLEAN, SetIntegrityAttr(val) PROVE IInv'
  BY <1>5, SetIntegrityAttrKeepsIInv
<1>6. CASE GetAttr
  BY <1>6, GetAttrKeepsIInv
<1>7. ASSUME NEW n \in Groups, NEW retry \in BOOLEAN, UserLoadFaults(n, retry) PROVE IInv'
  BY <1>7, UserLoadFaultsKeepsIInv
<1> QED BY <1>1, <1>2, <1>3, <1>4, <1>5, <1>6, <1>7 DEF Next

LEMMA Inductive == Spec => []IInv
BY InitIInv, NextIInv, PTL DEF Spec

\* The context and the tasks' copies keep their types, whatever is loaded, wholly or in part.
THEOREM ContextTypes == Spec => []TypeOK
<1>1. IInv => TypeOK
  BY DEF IInv, KeyInv
<1> QED BY <1>1, Inductive, PTL

\* Each task runs with, and is saved with, the keys it loaded last (context.h:92-163), however
\* many tasks there are and wherever they are switched away or stopped by a page fault -- but for
\* a load of new keys that stops after the data keys.
THEOREM TaskKeepsItsKeys == Spec => []KeysFollowTask
<1>1. IInv => KeysFollowTask
  BY DEF IInv, KeyInv
<1> QED BY <1>1, Inductive, PTL

\* The pointer cipher never works with the schedule of an old key or tweak (bipbip.cpp:340).
THEOREM ScheduleNeverStale == Spec => []ScheduleCurrent
<1>1. IInv => ScheduleCurrent
  BY DEF IInv, CipherInv
<1> QED BY <1>1, Inductive, PTL

\* Opening the ICV lock (icv.h:185) stays the opener's own affair through task switches.
THEOREM LockNeverLeaks == Spec => []LockStaysClosed
<1>1. IInv => LockStaysClosed
  BY DEF IInv, KeyInv
<1> QED BY <1>1, Inductive, PTL

\* Integrity is on without a map (integrity.h:578) only under the task whose own request a page
\* fault stopped (x86_context.h:172), and until the next load that completes.
THEOREM MapWheneverEnabled == Spec => []EnabledNeedsMap
<1>1. IInv => EnabledNeedsMap
  BY DEF IInv
<1> QED BY <1>1, Inductive, PTL

\* A load that empties the ICV map is the load of a task that asked for it, or brings a context
\* of one that was cut short.
LEMMA ResetAsked ==
  ASSUME IInv, [Next]_vars
  PROVE  icvs /\ ~icvs' => (cur' = cur /\ op[cur].f = "reset") \/ cur' \in cut
<1> SUFFICES ASSUME icvs, ~icvs'
             PROVE  (cur' = cur /\ op[cur].f = "reset") \/ cur' \in cut
  OBVIOUS
<1> USE DEF IInv, KeyInv
<1>1. CASE UserLoad
  <2> DEFINE ca == cur \in CaBuf
             c  == IF ca THEN ctx ELSE ubuf[cur]
  <2>1. /\ cur \in Tasks /\ ubuf[cur] \in Contexts /\ ca \in BOOLEAN /\ op[cur] # None
        /\ load_context(ubuf[cur], All, ca) /\ cur' = cur
    BY <1>1 DEF UserLoad, TypeOK
  <2>2. c \in Contexts /\ ctx_loaded_cb(c)
    BY <2>1, LoadContextIs
  <2>3. ca /\ c.reset => cur \in cut
    BY <2>1 DEF NoRequest, ContextOf
  <2>4. ~ca /\ c.reset => op[cur].f = "reset" \/ cur \in cut
    BY <2>1 DEF Due, DueFlags
  <2> HIDE DEF c
  <2>5. c.reset
    BY <2>2, LoadIs
  <2> QED BY <2>1, <2>3, <2>4, <2>5
<1>2. ASSUME NEW t \in Tasks, Switch(t) PROVE cur' \in cut
  <2>1. kbuf[t] \in Contexts /\ cur' = t /\ t # cur /\ load_context(kbuf[t], All, FALSE)
    BY <1>2 DEF Switch, TypeOK
  <2>2. ctx_loaded_cb(kbuf[t])
    BY <2>1, LoadContextIs
  <2>3. kbuf[t].reset
    BY <2>1, <2>2, LoadIs
  <2> QED BY <2>1, <2>3 DEF NoRequest, ContextOf
<1>3. ASSUME NEW n \in Groups, NEW retry \in BOOLEAN, UserLoadFaults(n, retry) PROVE FALSE
  <2>1. n # All /\ load_context(ubuf[cur], n, cur \in CaBuf)
    BY <1>3 DEF UserLoadFaults, All, Groups
  <2>2. UNCHANGED icvs
    BY <2>1 DEF load_context
  <2> QED BY <2>2
<1>4. CASE \/ \E o \in Ops : UserSave(o)
           \/ SetIcvs \/ (\E t \in Tweaks : UsePointer(t)) \/ UNCHANGED vars
           \/ (\E val \in BOOLEAN : SetIntegrityAttr(val)) \/ GetAttr
  BY <1>4 DEF UserSave, SetIcvs, UsePointer, vars, SetIntegrityAttr, GetAttr
<1> QED BY <1>1, <1>2, <1>3, <1>4 DEF Next

\* The ICV map is only emptied on request (c3_simics_connection.h:137): a request stays in a saved
\* context, to be carried out again, only where a page fault stopped it (x86_context.h:172).
THEOREM ResetNeverRepeats == Spec => ResetOnlyOnRequest
<1>1. IInv /\ [Next]_vars
        => [icvs /\ ~icvs' => (cur' = cur /\ op[cur].f = "reset") \/ cur' \in cut]_vars
  BY ResetAsked
<1> QED BY <1>1, Inductive, PTL DEF Spec, ResetOnlyOnRequest

-----------------------------------------------------------------------------
(***************************************************************************)
(* OptionsInForce and NoStrayCallback of module Connection, for any number *)
(* of connections to any CPUs.                                             *)
(***************************************************************************)
Callbacks == [Kinds -> {"none", "off", "on"}]

\* What holds of a connection's object and its callbacks at every stage.
Good(o, cb) ==
  /\ cb["exception"] = "on" <=> WantsExceptions(o)
  /\ "exception_cb" \in o <=> cb["exception"] # "none"
  /\ "stack" \in o <=> cb["stack"] # "none"
  /\ "c3" \notin o => cb["stack"] = "none" /\ cb["model"] = "none"
  /\ "ci_iface" \notin o => "c3" \notin o /\ cb["exception"] = "none"
  /\ "c3" \in o =>
       /\ cb["model"] = "on"
       /\ cb["stack"] = "on" <=> "stack_hardening" \in o
       /\ ~Riscv => ("m_debug" \in o <=> "debug_on" \in o)
       /\ "loaded" \notin o => ("icv_enabled" \in o <=> "integrity" \in o)
  /\ Riscv => "integrity" \notin o /\ "icv_enabled" \notin o /\ "stack_hardening" \notin o

\* What a change must not do to a connection: move it on, or back.
SameStage(o, p) == /\ "c3" \in o <=> "c3" \in p
                   /\ "ci_iface" \in o <=> "ci_iface" \in p

(***************************************************************************)
(* The inductive invariant.  OptionsInForce alone is not inductive: that a *)
(* callback can be switched off again depends on the handle kept for it,   *)
(* and the connection being made is only good for its stage.               *)
(***************************************************************************)
ConnIInv ==
  /\ ConnTypeOK
  /\ \A n \in connections :
       /\ Good(con[n], cbs[n])
       /\ "c3" \in con[n] <=> (stage = "idle" \/ n # Connecting)
       /\ "ci_iface" \in con[n] <=> (stage # "created" \/ n # Connecting)
  /\ \A n \in (0 .. next_connection_number - 1) \ connections : cbs[n] = NoCallbacks
  /\ stage # "idle" => Connecting \in connections

-----------------------------------------------------------------------------
\* The exception callback follows the options, whichever of them was set last.
LEMMA ExceptionGood ==
  ASSUME NEW o \in SUBSET Flags, NEW cb \in Callbacks, NEW val \in BOOLEAN,
         NEW f \in {"trace_exceptions", "break_on_exception"},
         Good(o, cb), "ci_iface" \in o
  PROVE  LET p == Put(o, f, val)
             q == update_exception_callback(p)
         IN  /\ q \in SUBSET Flags
             /\ ExceptionSwitch(p, cb) \in Callbacks
             /\ Good(q, ExceptionSwitch(p, cb))
             /\ SameStage(o, q)
  <1> DEFINE p == Put(o, f, val)
             q == update_exception_callback(p)
             c == ExceptionSwitch(p, cb)
  <1>1. p \in SUBSET Flags /\ p \ {f} = o \ {f}
    BY DEF Put, Flags
  <1>2. \A x \in Flags : x # f => (x \in p <=> x \in o)
    BY DEF Put
  <1> HIDE DEF p
  <1>3. /\ q \in SUBSET Flags
        /\ \A x \in Flags : x # "exception_cb" => (x \in q <=> x \in p)
        /\ "exception_cb" \in q <=> ("exception_cb" \in o \/ WantsExceptions(p))
        /\ WantsExceptions(q) <=> WantsExceptions(p)
    BY <1>1, <1>2 DEF update_exception_callback, Flags, WantsExceptions
  <1>4. /\ c \in Callbacks /\ c["stack"] = cb["stack"] /\ c["model"] = cb["model"]
        /\ c["exception"] = IF WantsExceptions(p) THEN "on"
                            ELSE IF "exception_cb" \in p THEN "off" ELSE cb["exception"]
    BY DEF ExceptionSwitch, Callbacks, Kinds
  <1> HIDE DEF q, c
  <1>5. \A x \in Flags : x \notin {f, "exception_cb"} => (x \in q <=> x \in o)
    BY <1>2, <1>3
  <1>6. SameStage(o, q)
    BY <1>5 DEF Flags, SameStage
  <1>7. Good(q, c)
    BY <1>1, <1>2, <1>3, <1>4, <1>5 DEF Good, Flags
  <1> QED
    BY <1>3, <1>4, <1>6, <1>7 DEF p, q, c

\* The same of the callbacks of the CA stack.
LEMMA StackGood ==
  ASSUME NEW o \in SUBSET Flags, NEW cb \in Callbacks, NEW val \in BOOLEAN,
         Good(o, cb), "c3" \in o, ~Riscv
  PROVE  LET p == Put(o, "stack_hardening", val)
             q == model_set_stack_hardening(p)
         IN  /\ q \in SUBSET Flags
             /\ StackSwitch(p, cb) \in Callbacks
             /\ Good(q, StackSwitch(p, cb))
             /\ SameStage(o, q)
  <1> DEFINE p == Put(o, "stack_hardening", val)
             q == model_set_stack_hardening(p)
             c == StackSwitch(p, cb)
  <1>1. p \in SUBSET Flags
    BY DEF Put, Flags
  <1>2. \A x \in Flags : x # "stack_hardening" => (x \in p <=> x \in o)
    BY DEF Put
  <1> HIDE DEF p
  <1>3. /\ q \in SUBSET Flags
        /\ \A x \in Flags : x # "stack" => (x \in q <=> x \in p)
        /\ "stack" \in q <=> ("stack" \in o \/ "stack_hardening" \in p)
    BY <1>1, <1>2 DEF model_set_stack_hardening, Flags
  <1>4. /\ c \in Callbacks /\ c["exception"] = cb["exception"] /\ c["model"] = cb["model"]
        /\ c["stack"] = IF "stack_hardening" \in p THEN "on"
                        ELSE IF "stack" \in p THEN "off" ELSE cb["stack"]
    BY DEF StackSwitch, Callbacks, Kinds
  <1> HIDE DEF q, c
  <1>5. \A x \in Flags : x \notin {"stack", "stack_hardening"} => (x \in q <=> x \in o)
    BY <1>2, <1>3
  <1>6. SameStage(o, q)
    BY <1>5 DEF Flags, SameStage
  <1>7. Good(q, c)
    BY <1>1, <1>2, <1>3, <1>4, <1>5 DEF Good, Flags, WantsExceptions
  <1> QED
    BY <1>3, <1>4, <1>6, <1>7 DEF p, q, c

\* The same of the options that have no callback.
LEMMA SettersGood ==
  ASSUME NEW o \in SUBSET Flags, NEW cb \in Callbacks, NEW val \in BOOLEAN,
         Good(o, cb), "c3" \in o, ~Riscv
  PROVE  /\ LET p == set_debug_on(o, val)
            IN  p \in SUBSET Flags /\ Good(p, cb) /\ SameStage(o, p)
         /\ LET p == con_set_integrity(o, val) \ {"loaded"}
            IN  p \in SUBSET Flags /\ Good(p, cb) /\ SameStage(o, p)
         /\ LET p == Put(o, "icv_enabled", val) \cup {"loaded"}
            IN  p \in SUBSET Flags /\ Good(p, cb) /\ SameStage(o, p)
  <1>1. LET p == set_debug_on(o, val)
        IN  p \in SUBSET Flags /\ Good(p, cb) /\ SameStage(o, p)
    BY DEF Good, Flags, set_debug_on, Put, WantsExceptions, SameStage
  <1>2. LET p == con_set_integrity(o, val) \ {"loaded"}
        IN  p \in SUBSET Flags /\ Good(p, cb) /\ SameStage(o, p)
    BY DEF Good, Flags, con_set_integrity, Put, WantsExceptions, SameStage
  <1>3. LET p == Put(o, "icv_enabled", val) \cup {"loaded"}
        IN  p \in SUBSET Flags /\ Good(p, cb) /\ SameStage(o, p)
    BY DEF Good, Flags, Put, WantsExceptions, SameStage
  <1> QED
    BY <1>1, <1>2, <1>3

\* And of the one option that RISC-V has of its own.
LEMMA RiscvSetterGood ==
  ASSUME NEW o \in SUBSET Flags, NEW cb \in Callbacks, NEW val \in BOOLEAN,
         Good(o, cb), Riscv
  PROVE  LET p == riscv_set_debug_on(o, val)
         IN  p \in SUBSET Flags /\ Good(p, cb) /\ SameStage(o, p)
  BY DEF Good, Flags, riscv_set_debug_on, Put, WantsExceptions, SameStage

\* A change of one connection that keeps it good and does not move it on keeps the invariant.
LEMMA ChangeKeeps ==
  ASSUME ConnIInv, NEW n \in connections, NEW o \in SUBSET Flags, NEW cb \in Callbacks,
         Change(n, o, cb), Good(o, cb), SameStage(con[n], o)
  PROVE  ConnIInv'
  <1>1. ConnTypeOK'
    BY DEF ConnIInv, ConnTypeOK, Change, Callbacks
  <1>2. \A k \in connections' :
          /\ Good(con'[k], cbs'[k])
          /\ SameStage(con[k], con'[k])
    BY DEF ConnIInv, ConnTypeOK, Change, SameStage
  <1>3. Connecting' = Connecting /\ stage' = stage /\ connections' = connections
        /\ next_connection_number' = next_connection_number
    BY DEF Change, Connecting
  <1>4. \A k \in (0 .. next_connection_number - 1) \ connections : cbs'[k] = cbs[k]
    BY DEF ConnIInv, ConnTypeOK, Change
  <1> QED
    BY <1>1, <1>2, <1>3, <1>4 DEF ConnIInv, SameStage

-----------------------------------------------------------------------------
LEMMA ConnInitInv == ConnInit => ConnIInv
  BY DEF ConnInit, ConnIInv, ConnTypeOK

LEMMA CreateKeeps ==
  ASSUME ConnIInv, NEW d \in BOOLEAN, NEW i \in BOOLEAN, NEW h \in BOOLEAN, Create(d, i, h)
  PROVE  ConnIInv'
  <1> DEFINE n == next_connection_number
             o == IF Riscv THEN riscv_set_debug_on({}, d)
                  ELSE Put(con_set_integrity(set_debug_on({}, d), i), "stack_hardening", h)
  <1>1. /\ o \in SUBSET Flags /\ "c3" \notin o /\ "ci_iface" \notin o
        /\ Good(o, NoCallbacks)
    <2>1. /\ o \subseteq {"debug_on", "integrity", "stack_hardening"}
          /\ Riscv => o \subseteq {"debug_on"}
      BY DEF con_set_integrity, set_debug_on, riscv_set_debug_on, Put
    <2> HIDE DEF o
    <2> QED
      BY <2>1 DEF Flags, Good, NoCallbacks, Kinds, WantsExceptions
  <1>2. NoCallbacks \in Callbacks
    BY DEF NoCallbacks, Callbacks
  <1>3. /\ n \in Nat /\ n \notin connections /\ Connecting' = n /\ Connecting = n - 1
        /\ (0 .. n' - 1) = (0 .. n - 1) \cup {n}
    BY DEF ConnIInv, ConnTypeOK, Connecting, Create
  <1>4. /\ con' = [k \in connections \cup {n} |-> IF k = n THEN o ELSE con[k]]
        /\ cbs' = [k \in (0 .. n - 1) \cup {n} |-> IF k = n THEN NoCallbacks ELSE cbs[k]]
        /\ connections' = connections \cup {n} /\ n' = n + 1
        /\ stage = "idle" /\ stage' = "created"
    BY DEF ConnIInv, ConnTypeOK, Create
  <1> HIDE DEF o
  <1>5. ConnTypeOK'
    <2>1. con' \in [connections' -> SUBSET Flags]
      BY <1>1, <1>3, <1>4 DEF ConnIInv, ConnTypeOK
    <2>2. cbs' \in [0 .. n' - 1 -> Callbacks]
      BY <1>2, <1>3, <1>4 DEF ConnIInv, ConnTypeOK, Callbacks
    <2> QED
      BY <1>3, <1>4, <2>1, <2>2 DEF ConnIInv, ConnTypeOK, Callbacks
  <1>6. \A k \in connections' :
          /\ Good(con'[k], cbs'[k])
          /\ "c3" \in con'[k] <=> k # n
          /\ "ci_iface" \in con'[k] <=> k # n
    <2> SUFFICES ASSUME NEW k \in connections'
                 PROVE  /\ Good(con'[k], cbs'[k])
                        /\ "c3" \in con'[k] <=> k # n
                        /\ "ci_iface" \in con'[k] <=> k # n
      OBVIOUS
    <2>1. CASE k = n
      BY <2>1, <1>1, <1>3, <1>4
    <2>2. CASE k # n
      <3>1. k \in connections /\ k \in 0 .. n - 1
        BY <2>2, <1>4 DEF ConnIInv, ConnTypeOK
      <3>2. con'[k] = con[k] /\ cbs'[k] = cbs[k]
        BY <2>2, <3>1, <1>4
      <3> QED
        BY <2>2, <3>1, <3>2, <1>4 DEF ConnIInv
    <2> QED
      BY <2>1, <2>2
  <1>7. \A k \in (0 .. n' - 1) \ connections' : cbs'[k] = NoCallbacks
    BY <1>3, <1>4 DEF ConnIInv
  <1> QED
    BY <1>3, <1>4, <1>5, <1>6, <1>7 DEF ConnIInv

LEMMA ModuleConfigureKeeps ==
  ASSUME ConnIInv, module_configure
  PROVE  ConnIInv'
  <1> DEFINE n == Connecting
             o == Interfaces(con[n])
             p == update_exception_callback(o)
             cb == ExceptionSwitch(o, cbs[n])
  <1>1. /\ n \in connections /\ con[n] \in SUBSET Flags /\ cbs[n] \in Callbacks
        /\ Good(con[n], cbs[n]) /\ "c3" \notin con[n] /\ stage = "created"
        /\ "ci_iface" \notin con[n]
    BY DEF ConnIInv, ConnTypeOK, Callbacks, module_configure
  <1>2. ~WantsExceptions(o) /\ "exception_cb" \notin o
    BY <1>1 DEF Good, WantsExceptions, Interfaces
  <1>3. /\ p \in SUBSET Flags /\ cb \in Callbacks /\ Good(p, cb)
        /\ "c3" \notin p /\ "ci_iface" \in p
    <2>1. p = o /\ cb = cbs[n]
      BY <1>2 DEF update_exception_callback, ExceptionSwitch
    <2> QED
      BY <2>1, <1>1 DEF Good, Flags, WantsExceptions, Interfaces
  <1>4. /\ con' = [con EXCEPT ![n] = p] /\ cbs' = [cbs EXCEPT ![n] = cb]
        /\ connections' = connections /\ next_connection_number' = next_connection_number
        /\ stage' = "module_configured" /\ Connecting' = n
    BY DEF module_configure, Connecting
  <1> HIDE DEF n, p, cb
  <1>5. ConnTypeOK'
    BY <1>1, <1>3, <1>4 DEF ConnIInv, ConnTypeOK, Callbacks
  <1>6. \A k \in connections : k # n => con'[k] = con[k] /\ cbs'[k] = cbs[k]
    BY <1>4 DEF ConnIInv, ConnTypeOK
  <1>7. con'[n] = p /\ cbs'[n] = cb
    BY <1>1, <1>4 DEF ConnIInv, ConnTypeOK
  <1>8. \A k \in (0 .. next_connection_number - 1) \ connections : cbs'[k] = cbs[k]
    BY <1>1, <1>4 DEF ConnIInv, ConnTypeOK
  <1> QED
    BY <1>1, <1>3, <1>4, <1>5, <1>6, <1>7, <1>8 DEF ConnIInv, n

LEMMA ConfigureKeeps ==
  ASSUME ConnIInv, configure
  PROVE  ConnIInv'
  <1> DEFINE n == Connecting
             o == model_set_stack_hardening(con[n]) \cup {"c3"}
             p == set_debug_on(con_set_integrity(o, "integrity" \in o), "debug_on" \in o)
             c == StackSwitch(o, cbs[n])
             cb == [c EXCEPT !["model"] = "on"]
  <1>1. /\ n \in connections /\ con[n] \in SUBSET Flags /\ cbs[n] \in Callbacks
        /\ Good(con[n], cbs[n]) /\ "c3" \notin con[n] /\ "ci_iface" \in con[n]
        /\ stage = "module_configured" /\ ~Riscv
    BY DEF ConnIInv, ConnTypeOK, Callbacks, configure
  <1>2. /\ o \in SUBSET Flags /\ "c3" \in o /\ "ci_iface" \in o
        /\ "stack" \in o <=> "stack_hardening" \in o
        /\ WantsExceptions(o) <=> WantsExceptions(con[n])
        /\ "exception_cb" \in o <=> "exception_cb" \in con[n]
    BY <1>1 DEF model_set_stack_hardening, Flags, WantsExceptions, Good
  <1>3. /\ c \in Callbacks /\ c["exception"] = cbs[n]["exception"]
        /\ c["stack"] = IF "stack_hardening" \in o THEN "on" ELSE "none"
    BY <1>1, <1>2 DEF StackSwitch, Callbacks, Kinds, Good
  <1>31. /\ cb \in Callbacks /\ cb["exception"] = cbs[n]["exception"]
         /\ cb["stack"] = IF "stack_hardening" \in o THEN "on" ELSE "none"
         /\ cb["model"] = "on"
    <2> HIDE DEF c
    <2> QED
      BY <1>3 DEF Callbacks, Kinds
  <1>32. /\ p \in SUBSET Flags
         /\ "m_debug" \in p <=> "debug_on" \in p
         /\ "icv_enabled" \in p <=> "integrity" \in p
         /\ \A x \in {"c3", "ci_iface", "stack", "stack_hardening", "exception_cb",
                      "trace_exceptions", "break_on_exception"} : x \in p <=> x \in o
    <2> HIDE DEF o
    <2> QED
      BY <1>2 DEF set_debug_on, con_set_integrity, Put, Flags
  <1>33. Good(p, cb) /\ "c3" \in p /\ "ci_iface" \in p
    <2> HIDE DEF o, p, c, cb
    <2> QED
      BY <1>1, <1>2, <1>31, <1>32 DEF Good, WantsExceptions
  <1>4. /\ con' = [con EXCEPT ![n] = p] /\ cbs' = [cbs EXCEPT ![n] = cb]
        /\ connections' = connections /\ next_connection_number' = next_connection_number
        /\ stage' = "idle" /\ Connecting' = n
    BY DEF configure, Connecting
  <1> HIDE DEF n, p, cb
  <1>5. ConnTypeOK'
    BY <1>1, <1>31, <1>32, <1>4 DEF ConnIInv, ConnTypeOK, Callbacks
  <1>6. \A k \in connections : k # n => con'[k] = con[k] /\ cbs'[k] = cbs[k]
    BY <1>4 DEF ConnIInv, ConnTypeOK
  <1>7. con'[n] = p /\ cbs'[n] = cb
    BY <1>1, <1>4 DEF ConnIInv, ConnTypeOK
  <1>8. \A k \in (0 .. next_connection_number - 1) \ connections : cbs'[k] = cbs[k]
    BY <1>1, <1>4 DEF ConnIInv, ConnTypeOK
  <1> QED
    BY <1>1, <1>33, <1>4, <1>5, <1>6, <1>7, <1>8 DEF ConnIInv, n

LEMMA RiscvConfigureKeeps ==
  ASSUME ConnIInv, riscv_configure
  PROVE  ConnIInv'
  <1> DEFINE n == Connecting
             o == con[n] \cup {"c3"}
             p == riscv_set_debug_on(o, "debug_on" \in o)
             cb == [cbs[n] EXCEPT !["model"] = "on"]
  <1>1. /\ n \in connections /\ con[n] \in SUBSET Flags /\ cbs[n] \in Callbacks
        /\ Good(con[n], cbs[n]) /\ "c3" \notin con[n] /\ "ci_iface" \in con[n]
        /\ stage = "module_configured" /\ Riscv
    BY DEF ConnIInv, ConnTypeOK, Callbacks, riscv_configure
  <1>2. p = o /\ p \in SUBSET Flags /\ "c3" \in p /\ "ci_iface" \in p
    BY <1>1 DEF riscv_set_debug_on, Put, Flags
  <1>3. /\ cb \in Callbacks /\ cb["exception"] = cbs[n]["exception"]
        /\ cb["stack"] = cbs[n]["stack"] /\ cb["model"] = "on"
    BY <1>1 DEF Callbacks, Kinds
  <1>33. Good(p, cb)
    <2> HIDE DEF cb
    <2> QED
      BY <1>1, <1>2, <1>3 DEF Good, WantsExceptions
  <1>4. /\ con' = [con EXCEPT ![n] = p] /\ cbs' = [cbs EXCEPT ![n] = cb]
        /\ connections' = connections /\ next_connection_number' = next_connection_number
        /\ stage' = "idle" /\ Connecting' = n
    BY DEF riscv_configure, Connecting
  <1> HIDE DEF n, p, cb
  <1>5. ConnTypeOK'
    BY <1>1, <1>2, <1>3, <1>4 DEF ConnIInv, ConnTypeOK, Callbacks
  <1>6. \A k \in connections : k # n => con'[k] = con[k] /\ cbs'[k] = cbs[k]
    BY <1>4 DEF ConnIInv, ConnTypeOK
  <1>7. con'[n] = p /\ cbs'[n] = cb
    BY <1>1, <1>4 DEF ConnIInv, ConnTypeOK
  <1>8. \A k \in (0 .. next_connection_number - 1) \ connections : cbs'[k] = cbs[k]
    BY <1>1, <1>4 DEF ConnIInv, ConnTypeOK
  <1> QED
    BY <1>1, <1>2, <1>33, <1>4, <1>5, <1>6, <1>7, <1>8 DEF ConnIInv, n

LEMMA DisconnectKeeps ==
  ASSUME ConnIInv, NEW n \in connections, Disconnect(n)
  PROVE  ConnIInv'
  <1>1. /\ con' = [k \in connections \ {n} |-> con[k]]
        /\ cbs' = [cbs EXCEPT ![n] = NoCallbacks]
        /\ connections' = connections \ {n} /\ stage = "idle" /\ stage' = "idle"
        /\ next_connection_number' = next_connection_number
    BY DEF ConnIInv, ConnTypeOK, Disconnect
  <1>2. NoCallbacks \in Callbacks
    BY DEF NoCallbacks, Callbacks
  <1>3. ConnTypeOK'
    BY <1>1, <1>2 DEF ConnIInv, ConnTypeOK, Callbacks
  <1>4. \A k \in connections' : con'[k] = con[k] /\ cbs'[k] = cbs[k] /\ k \in connections
    BY <1>1 DEF ConnIInv, ConnTypeOK
  <1>5. \A k \in (0 .. next_connection_number' - 1) \ connections' : cbs'[k] = NoCallbacks
    BY <1>1 DEF ConnIInv, ConnTypeOK
  <1> QED
    BY <1>1, <1>3, <1>4, <1>5 DEF ConnIInv

\* Every setter that a script or the guest can reach.
LEMMA SetKeeps ==
  ASSUME ConnIInv, NEW n \in connections, NEW val \in BOOLEAN,
         \/ SetTraceExceptions(n, val) \/ SetBreakOnException(n, val)
         \/ SetDebugOn(n, val) \/ RiscvSetDebugOn(n, val) \/ SetIntegrity(n, val)
         \/ SetStackHardening(n, val) \/ LoadContext(n, val)
  PROVE  ConnIInv'
  <1> DEFINE o == con[n]
             cb == cbs[n]
  <1>1. /\ o \in SUBSET Flags /\ cb \in Callbacks /\ Good(o, cb)
        /\ "c3" \in o /\ "ci_iface" \in o
    BY DEF ConnIInv, ConnTypeOK, Callbacks, SetTraceExceptions, SetBreakOnException, SetDebugOn,
           RiscvSetDebugOn, SetIntegrity, SetStackHardening, LoadContext, Change
  <1>2. CASE SetTraceExceptions(n, val)
    BY <1>1, <1>2, ExceptionGood, ChangeKeeps DEF SetTraceExceptions
  <1>3. CASE SetBreakOnException(n, val)
    BY <1>1, <1>3, ExceptionGood, ChangeKeeps DEF SetBreakOnException
  <1>4. CASE SetDebugOn(n, val)
    <2> DEFINE p == set_debug_on(o, val)
    <2>1. p \in SUBSET Flags /\ Good(p, cb) /\ SameStage(o, p)
      BY <1>1, <1>4, SettersGood DEF SetDebugOn
    <2>2. Change(n, p, cb)
      BY <1>4 DEF SetDebugOn
    <2> HIDE DEF p
    <2> QED
      BY <1>1, <2>1, <2>2, ChangeKeeps
  <1>5. CASE SetIntegrity(n, val)
    <2> DEFINE p == con_set_integrity(o, val) \ {"loaded"}
    <2>1. p \in SUBSET Flags /\ Good(p, cb) /\ SameStage(o, p)
      BY <1>1, <1>5, SettersGood DEF SetIntegrity
    <2>2. Change(n, p, cb)
      BY <1>5 DEF SetIntegrity
    <2> HIDE DEF p
    <2> QED
      BY <1>1, <2>1, <2>2, ChangeKeeps
  <1>6. CASE SetStackHardening(n, val)
    BY <1>1, <1>6, StackGood, ChangeKeeps DEF SetStackHardening
  <1>7. CASE LoadContext(n, val)
    <2> DEFINE p == Put(o, "icv_enabled", val) \cup {"loaded"}
    <2>1. p \in SUBSET Flags /\ Good(p, cb) /\ SameStage(o, p)
      BY <1>1, <1>7, SettersGood DEF LoadContext
    <2>2. Change(n, p, cb)
      BY <1>7 DEF LoadContext
    <2> HIDE DEF p
    <2> QED
      BY <1>1, <2>1, <2>2, ChangeKeeps
  <1>8. CASE RiscvSetDebugOn(n, val)
    <2> DEFINE p == riscv_set_debug_on(o, val)
    <2>1. Riscv /\ Change(n, p, cb)
      BY <1>8 DEF RiscvSetDebugOn
    <2>2. p \in SUBSET Flags /\ Good(p, cb) /\ SameStage(o, p)
      BY <1>1, <2>1, RiscvSetterGood
    <2> HIDE DEF p
    <2> QED
      BY <1>1, <2>1, <2>2, ChangeKeeps
  <1> QED
    BY <1>2, <1>3, <1>4, <1>5, <1>6, <1>7, <1>8

LEMMA ConnNextInv == ConnIInv /\ [ConnNext]_conn_vars => ConnIInv'
  <1> SUFFICES ASSUME ConnIInv, [ConnNext]_conn_vars PROVE ConnIInv'
    OBVIOUS
  <1>1. ASSUME NEW d \in BOOLEAN, NEW i \in BOOLEAN, NEW h \in BOOLEAN, Create(d, i, h)
        PROVE  ConnIInv'
    BY <1>1, CreateKeeps
  <1>2. CASE module_configure
    BY <1>2, ModuleConfigureKeeps
  <1>3. CASE configure
    BY <1>3, ConfigureKeeps
  <1>31. CASE riscv_configure
    BY <1>31, RiscvConfigureKeeps
  <1>4. ASSUME NEW n \in connections, NEW val \in BOOLEAN,
               \/ SetTraceExceptions(n, val) \/ SetBreakOnException(n, val)
               \/ SetDebugOn(n, val) \/ RiscvSetDebugOn(n, val) \/ SetIntegrity(n, val)
               \/ SetStackHardening(n, val) \/ LoadContext(n, val)
        PROVE  ConnIInv'
    BY <1>4, SetKeeps
  <1>5. ASSUME NEW n \in connections, Disconnect(n) PROVE ConnIInv'
    BY <1>5, DisconnectKeeps
  <1>6. CASE UNCHANGED conn_vars
    BY <1>6 DEF conn_vars, ConnIInv, ConnTypeOK, Connecting
  <1> QED
    BY <1>1, <1>2, <1>3, <1>31, <1>4, <1>5, <1>6 DEF ConnNext

\* Types, and with them that module and simulator agree on which connections there are.
THEOREM ConnectionTypes == ConnSpec => []ConnTypeOK
  <1>1. ConnIInv => ConnTypeOK
    BY DEF ConnIInv
  <1> QED
    BY ConnInitInv, ConnNextInv, <1>1, PTL DEF ConnSpec

\* Options given at any time, in any order, are in force on every connection that is ready.
THEOREM OptionsAlwaysInForce == ConnSpec => []OptionsInForce
  <1>1. ConnIInv => OptionsInForce
    <2> SUFFICES ASSUME ConnIInv, NEW n \in connections, Ready(n)
                 PROVE  /\ cbs[n]["exception"] = "on" <=> WantsExceptions(con[n])
                        /\ cbs[n]["stack"] = "on" <=> "stack_hardening" \in con[n]
                        /\ ~Riscv => ("m_debug" \in con[n] <=> "debug_on" \in con[n])
                        /\ "loaded" \notin con[n] =>
                             ("icv_enabled" \in con[n] <=> "integrity" \in con[n])
                        /\ cbs[n]["model"] = "on"
      BY DEF OptionsInForce
    <2>1. "c3" \in con[n] /\ Good(con[n], cbs[n])
      BY DEF ConnIInv, Ready
    <2> QED
      BY <2>1 DEF Good
  <1> QED
    BY ConnInitInv, ConnNextInv, <1>1, PTL DEF ConnSpec

\* No callback into a connection that is gone or not built, or without its interface.
THEOREM CallbacksNeverStray == ConnSpec => []NoStrayCallback
  <1>1. ConnIInv => NoStrayCallback
    <2> SUFFICES ASSUME ConnIInv, NEW n \in DOMAIN cbs
                 PROVE  /\ cbs[n] # NoCallbacks => n \in connections /\ "ci_iface" \in con[n]
                        /\ cbs[n]["model"] = "on" \/ cbs[n]["stack"] = "on" => "c3" \in con[n]
      BY DEF NoStrayCallback
    <2>1. n \in 0 .. next_connection_number - 1 /\ cbs[n] \in Callbacks
      BY DEF ConnIInv, ConnTypeOK, Callbacks
    <2>2. CASE n \notin connections
      BY <2>1, <2>2 DEF ConnIInv, NoCallbacks, Kinds
    <2>3. CASE n \in connections
      <3>1. Good(con[n], cbs[n])
        BY <2>3 DEF ConnIInv
      <3>2. "ci_iface" \notin con[n] => cbs[n] = NoCallbacks
        BY <2>1, <3>1 DEF Good, Callbacks, NoCallbacks, Kinds
      <3> QED
        BY <2>3, <3>1, <3>2 DEF Good
    <2> QED
      BY <2>2, <2>3
  <1> QED
    BY ConnInitInv, ConnNextInv, <1>1, PTL DEF ConnSpec
=============================================================================
