--------------------------- MODULE GrowableArray ---------------------------
(***************************************************************************)
(* core/rarray.c: an array that grows as elements are appended.  Memory    *)
(* that nobody has written, or that lies past the allocation, reads as     *)
(* Garbage.                                                                *)
(***************************************************************************)
EXTENDS Naturals, Sequences

CONSTANTS
  ElementSize,    \* element_sz, in bytes
  Garbage         \* what memory that was not written to holds

ASSUME ElementSizeAssumption == ElementSize \in Nat \ {0}

\* kl_rarray_init
Allocated(n) ==
  [num_elements |-> n, max_idx |-> 0, elements |-> [k \in 1 .. n |-> Garbage]]

\* kl_rarray_resize.  What is copied is as many bytes as there were elements
\* (or will be): the rest of the elements is lost.
Resized(array, n) ==
  LET bytes == IF n > array.num_elements THEN array.num_elements ELSE n IN
  [num_elements |-> n,
   max_idx |-> IF array.max_idx >= n THEN n - 1 ELSE array.max_idx,
   elements |-> [k \in 1 .. n |->
     IF k <= bytes \div ElementSize THEN array.elements[k] ELSE Garbage]]

\* kl_rarray_append: the array grows by half when one slot is left.  A store
\* past the allocation changes nothing that belongs to the array.
Appended(array, element) ==
  LET full == array.max_idx + 1 = array.num_elements
      a == IF full THEN Resized(array, array.num_elements + array.num_elements \div 2) ELSE array
      at == a.max_idx + 1
  IN [a EXCEPT !.max_idx = at,
               !.elements = IF at <= Len(@) THEN [@ EXCEPT ![at] = element] ELSE @]

\* What its user reads: the elements below max_idx.
Contents(array) ==
  [k \in 1 .. array.max_idx |-> IF k <= Len(array.elements) THEN array.elements[k] ELSE Garbage]
=============================================================================
