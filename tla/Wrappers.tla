------------------------------ MODULE Wrappers -------------------------------
(***************************************************************************)
(* The libraries that stand between a program and glibc, where they do     *)
(* more than to call cc_malloc.c.                                          *)
(*                                                                         *)
(* cc_malloc_ldpreload.c marks the pointers of small allocations in a bit  *)
(* above the address and takes the mark off again before glibc sees the    *)
(* pointer; what glibc returns is a parameter.  cc_malloc_wrapper.c brings *)
(* a memcpy of its own.                                                    *)
(***************************************************************************)
EXTENDS Naturals

\* A pointer is its upper sixteen bits and the address below them; glibc hands out addresses of
\* user space, or NULL.
RealPointer == {[top |-> 0, address |-> a] : a \in Nat}

NULL == [top |-> 0, address |-> 0]

Small == 11

is_tagged_pointer(p) == p.top = 1

\* XOR with ADDR_MASK.
transform_pointer(p) ==
  [top |-> IF p.top % 2 = 0 THEN p.top + 1 ELSE p.top - 1, address |-> p.address]

-----------------------------------------------------------------------------
malloc(size, real) == IF size < Small THEN transform_pointer(real) ELSE real

\* The size of one element decides; and the pointer returned is written through.
calloc(num, size, real) ==
  LET p == IF size < Small THEN transform_pointer(real) ELSE real
  IN  [returns |-> p, memset |-> [at |-> p, bytes |-> num * size]]

\* What glibc's realloc is called with, and what is made of its answer.
RealOld(p_old) == IF is_tagged_pointer(p_old) THEN transform_pointer(p_old) ELSE p_old

realloc(p_old, real) == IF is_tagged_pointer(p_old) THEN transform_pointer(real) ELSE real

\* What glibc's free is called with.
free(p) ==
  IF p = NULL THEN {}
  ELSE {IF is_tagged_pointer(p) THEN transform_pointer(p) ELSE p}

\* __wrap_memcpy counts its bytes down in an unsigned int.
wrap_memcpy(num) == num % 2^32

-----------------------------------------------------------------------------
\* The two forms in which a program may hold a pointer of glibc.
Handed(real) == {real, transform_pointer(real)}
=============================================================================
