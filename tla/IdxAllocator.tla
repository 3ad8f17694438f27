---------------------------- MODULE IdxAllocator ----------------------------
(***************************************************************************)
(* core/idxallocator.c: a stack of free indices.  An allocator is its      *)
(* free list, the entries of free_list below free_tail_idx; its users      *)
(* (process/process.c and render/render_list.c) hold it in their state.    *)
(***************************************************************************)
EXTENDS Naturals, Sequences

CONSTANT UINT32_MAX   \* what a reserve answers when no index is free

\* kl_alloc_idx_allocator: all of 0 .. num_indices - 1, the smallest on top.
AllFree(num_indices) == [k \in 1 .. num_indices |-> num_indices - k]

\* kl_idx_allocator_reserve: the index it returns, and what stays free.
Reserved(free) == IF free # <<>> THEN free[Len(free)] ELSE UINT32_MAX
AfterReserve(free) == IF free # <<>> THEN SubSeq(free, 1, Len(free) - 1) ELSE free

\* kl_idx_allocator_release: a list that is full already is left as it is.
AfterRelease(free, num_indices, idx) ==
  IF Len(free) < num_indices THEN Append(free, idx) ELSE free
=============================================================================
