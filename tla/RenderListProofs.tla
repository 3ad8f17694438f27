-------------------------- MODULE RenderListProofs --------------------------
(***************************************************************************)
(* The indices of render lists and the lives of the userdata, for any      *)
(* lists of any size, any instances and resources, and every order in      *)
(* which a careful script and the collector can create, insert, remove,    *)
(* drop and finalise them.                                                 *)
(***************************************************************************)
EXTENDS RenderList, FunctionTheorems, FiniteSetTheorems, SequenceTheorems, TLAPS

\* The ranges that the proofs need.
RangesInv ==
  /\ free \in [List -> Seq(Slot)]
  /\ slots \in [List -> [Slot -> Instance \cup {NoInstance}]]
  /\ maxIdx \in [List -> -1 .. ListSize - 1]
  /\ memory \in [Userdata -> {"none", "live", "finalised", "freed"}]
  /\ inList \in [Instance -> List \cup {NoList}]
  /\ listIndex \in [Instance -> Slot \cup {UINT32_MAX}]
  /\ held \subseteq Userdata

\* Nobody refers to a list that was not created.
MadeInv ==
  /\ \A u \in held : memory[u] # "none"
  /\ \A i \in Instance : inList[i] # NoList => memory[inList[i]] # "none"
  /\ \A l \in List : memory[l] = "none" => slots[l] = EmptyArray

\* Where list l has an instance, the instance has its place and max_idx is not
\* below it; all other places are free, once.
ListInv(l) ==
  /\ \A j, k \in 1 .. Len(free[l]) : free[l][j] = free[l][k] => j = k
  /\ \A idx \in Slot :
       slots[l][idx] = NoInstance <=> \E j \in 1 .. Len(free[l]) : free[l][j] = idx
  /\ \A idx \in Slot : slots[l][idx] # NoInstance =>
       /\ inList[slots[l][idx]] = l /\ listIndex[slots[l][idx]] = idx
       /\ idx <= maxIdx[l]

\* An instance that has an index is at it in its list, while there is a list.
InstanceInv(i) ==
  listIndex[i] # UINT32_MAX =>
    /\ inList[i] \in List
    /\ memory[inList[i]] = "live" => slots[inList[i]][listIndex[i]] = i

PlacesInv ==
  /\ \A l \in List : memory[l] = "live" => ListInv(l)
  /\ \A i \in Instance : InstanceInv(i)

\* The inductive invariant.
IInv == RangesInv /\ MadeInv /\ PlacesInv

-----------------------------------------------------------------------------
(* The free list *)

\* What the assumptions say of indices.
LEMMA Indices ==
  /\ ListSize \in Nat \ {0} /\ Slot = 0 .. ListSize - 1 /\ Slot \subseteq Nat
  /\ UINT32_MAX \notin Slot /\ UINT32_MAX \in Nat
  /\ NoList \notin List /\ NoInstance \notin Instance
  /\ List \cap Instance = {} /\ List \cap Resource = {}
BY SizesAssumption, NullsAssumption DEF Slot

\* What reserving does to a list that is not empty.
LEMMA ReserveTop ==
  ASSUME NEW S, NEW f \in Seq(S), f # <<>>
  PROVE  /\ Reserved(f) = f[Len(f)] /\ Reserved(f) \in S
         /\ AfterReserve(f) \in Seq(S)
         /\ Len(AfterReserve(f)) = Len(f) - 1
         /\ Len(f) \in Nat \ {0}
         /\ \A j \in 1 .. Len(f) - 1 : AfterReserve(f)[j] = f[j]
<1>1. Len(f) \in Nat \ {0} /\ \A j \in 1 .. Len(f) : f[j] \in S
  BY EmptySeq, ElementOfSeq
<1>2. DEFINE g == SubSeq(f, 1, Len(f) - 1)
<1>3. g \in Seq(S) /\ Len(g) = Len(f) - 1 /\ \A j \in 1 .. Len(f) - 1 : g[j] = f[j]
  BY <1>1, SubSeqProperties
<1>4. AfterReserve(f) = g /\ Reserved(f) = f[Len(f)] /\ f[Len(f)] \in S
  BY <1>1 DEF AfterReserve, Reserved
<1> HIDE DEF g
<1> QED
  BY <1>1, <1>3, <1>4

\* A list of free indices, each there once, that lacks one is not full.
LEMMA NotFull ==
  ASSUME NEW f \in Seq(Slot), NEW idx \in Slot,
         \A j, k \in 1 .. Len(f) : f[j] = f[k] => j = k,
         \A j \in 1 .. Len(f) : f[j] # idx
  PROVE  Len(f) \in Nat /\ Len(f) < ListSize
<1> DEFINE Others == Slot \ {idx}
           Index == 1 .. Len(f)
<1>1. Len(f) \in Nat /\ f \in [Index -> Slot]
  BY LenProperties
<1>2. IsFiniteSet(Slot) /\ Cardinality(Slot) = ListSize
  <2>1. 0 \in Int /\ ListSize - 1 \in Int /\ ~(0 > ListSize - 1)
    BY Indices
  <2>2. IsFiniteSet(0 .. ListSize - 1) /\ Cardinality(0 .. ListSize - 1) = (ListSize - 1) - 0 + 1
    BY <2>1, FS_Interval
  <2> QED
    BY <2>2, Indices
<1>3. IsFiniteSet(Others) /\ Cardinality(Others) = ListSize - 1
  BY <1>2, FS_RemoveElement
<1>4. f \in Injection(Index, Others)
  <2>1. f \in [Index -> Others] /\ \A j, k \in Index : f[j] = f[k] => j = k
    BY <1>1
  <2> QED
    BY <2>1, Fun_IsInj
<1>5. Cardinality(Index) <= Cardinality(Others)
  <2> HIDE DEF Index, Others
  <2> QED
    BY <1>3, <1>4, FS_Injection
<1>6. Cardinality(Index) = Len(f)
  <2>1. Cardinality(1 .. Len(f)) = IF 1 > Len(f) THEN 0 ELSE Len(f) - 1 + 1
    BY <1>1, FS_Interval
  <2> QED
    BY <1>1, <2>1
<1> QED
  <2> HIDE DEF Index, Others
  <2> QED
    BY <1>1, <1>3, <1>5, <1>6, Indices

-----------------------------------------------------------------------------
(* The operations of a list *)

\* Before anything is created there is nothing to be wrong.
LEMMA InitIInv == Init => IInv
<1> SUFFICES ASSUME Init PROVE IInv
  OBVIOUS
<1>1. RangesInv
  <2>1. <<>> \in Seq(Slot) /\ EmptyArray \in [Slot -> Instance \cup {NoInstance}]
    BY EmptySeq DEF EmptyArray
  <2> QED
    BY <2>1, Indices DEF Init, RangesInv
<1>2. \A l \in List : memory[l] = "none"
  BY DEF Init, Userdata
<1>3. \A i \in Instance : inList[i] = NoList /\ listIndex[i] = UINT32_MAX
  BY DEF Init
<1> QED
  BY <1>1, <1>2, <1>3 DEF Init, IInv, MadeInv, PlacesInv, InstanceInv

\* A new list is empty, and no instance has been put into it.
LEMMA NewListKeepsIInv == ASSUME IInv, NEW l \in List, NewList(l) PROVE IInv'
<1> USE DEF IInv
<1> DEFINE all == AllFree(ListSize)
<1>1. /\ memory[l] = "none" /\ memory' = [memory EXCEPT ![l] = "live"] /\ held' = held \cup {l}
      /\ free' = [free EXCEPT ![l] = all] /\ UNCHANGED <<slots, maxIdx, inList, listIndex>>
      /\ l \in Userdata /\ slots[l] = EmptyArray
  BY DEF NewList, Create, instances, Userdata, MadeInv
<1>2. all \in [1 .. ListSize -> Slot] /\ \A k \in 1 .. ListSize : all[k] = ListSize - k
  BY Indices DEF AllFree
<1>3. all \in Seq(Slot) /\ Len(all) = ListSize
  <2>1. all \in Seq(Slot)
    BY <1>2, Indices, SeqDef
  <2>2. 1 .. Len(all) = 1 .. ListSize /\ Len(all) \in Nat
    <3>1. DOMAIN all = 1 .. ListSize
      BY DEF AllFree
    <3> QED
      BY <2>1, <3>1, LenProperties
  <2> QED
    BY <2>1, <2>2, Indices
<1> HIDE DEF all
<1>4. RangesInv'
  BY <1>1, <1>3 DEF RangesInv
<1>5. MadeInv'
  BY <1>1 DEF MadeInv, RangesInv, Userdata
<1>6. ListInv(l)'
  <2>1. free'[l] = all /\ slots'[l] = EmptyArray
    BY <1>1 DEF RangesInv
  <2>2. \A j, k \in 1 .. ListSize : all[j] = all[k] => j = k
    BY <1>2, Indices
  <2>3. ASSUME NEW idx \in Slot PROVE \E j \in 1 .. ListSize : all[j] = idx
    <3>1. ListSize - idx \in 1 .. ListSize /\ all[ListSize - idx] = idx
      BY <1>2, Indices
    <3> QED
      BY <3>1
  <2> QED
    BY <1>3, <2>1, <2>2, <2>3 DEF ListInv, EmptyArray
<1>7. ASSUME NEW m \in List, m # l, memory'[m] = "live" PROVE ListInv(m)'
  BY <1>1, <1>7 DEF PlacesInv, ListInv, RangesInv, Userdata
<1>8. ASSUME NEW i \in Instance PROVE InstanceInv(i)'
  <2> SUFFICES ASSUME listIndex[i] # UINT32_MAX PROVE InstanceInv(i)'
    BY <1>1 DEF InstanceInv
  <2>1. inList[i] \in List /\ inList[i] # l
    BY <1>1, Indices DEF PlacesInv, InstanceInv, MadeInv
  <2> QED
    BY <1>1, <2>1 DEF PlacesInv, InstanceInv, RangesInv, Userdata
<1> QED
  BY <1>4, <1>5, <1>6, <1>7, <1>8 DEF PlacesInv

\* An instance without an index takes one, or gets to know the list without one.
LEMMA InsertKeepsIInv ==
  ASSUME IInv, NEW l \in List, NEW i \in Instance, MayInsert(l, i), Insert(l, i)
  PROVE  IInv'
<1> USE DEF IInv
<1> DEFINE idx == Reserved(free[l])
<1>0. /\ l \in held /\ listIndex[i] = UINT32_MAX /\ free[l] \in Seq(Slot)
      /\ free' = [free EXCEPT ![l] = AfterReserve(free[l])]
      /\ listIndex' = [listIndex EXCEPT ![i] = idx]
      /\ inList' = [inList EXCEPT ![i] = l]
      /\ UNCHANGED <<memory, held>>
      /\ l \in Userdata
  BY DEF Insert, MayInsert, lua, RangesInv, Userdata
<1>1. MadeInv'
  <2>1. CASE memory[l] # "none"
    <3>1. \A m \in List : memory[m] = "none" => slots'[m] = slots[m]
      BY <2>1 DEF Insert, RangesInv
    <3> QED
      BY <1>0, <2>1, <3>1 DEF MadeInv, RangesInv
  <2> QED
    BY <1>0, <2>1 DEF MadeInv
<1>2. \A m \in List, x \in Slot : memory[m] = "live" => slots[m][x] # i
  <2> SUFFICES ASSUME NEW m \in List, NEW x \in Slot, memory[m] = "live", slots[m][x] = i
               PROVE  FALSE
    OBVIOUS
  <2>1. ListInv(m) /\ i # NoInstance /\ x # UINT32_MAX
    BY Indices DEF PlacesInv
  <2>2. listIndex[i] = x
    BY <2>1 DEF ListInv
  <2> QED
    BY <1>0, <2>1, <2>2
<1>3. CASE free[l] = <<>>
  <2>1. idx = UINT32_MAX /\ AfterReserve(free[l]) = free[l]
    BY <1>3 DEF Reserved, AfterReserve
  <2>2. UNCHANGED <<free, slots, maxIdx, listIndex>>
    BY <1>0, <2>1, Indices DEF Insert, RangesInv
  <2>3. RangesInv'
    BY <1>0, <2>2 DEF RangesInv
  <2>4. \A m \in List : memory[m] = "live" => ListInv(m)'
    <3> SUFFICES ASSUME NEW m \in List, memory[m] = "live" PROVE ListInv(m)'
      OBVIOUS
    <3>1. ListInv(m)
      BY DEF PlacesInv
    <3>2. \A x \in Slot : slots[m][x] # NoInstance =>
            slots[m][x] \in Instance /\ inList'[slots[m][x]] = inList[slots[m][x]]
      BY <1>0, <1>2 DEF RangesInv
    <3> QED
      BY <2>2, <3>1, <3>2 DEF ListInv
  <2>5. \A j \in Instance : InstanceInv(j)'
    BY <1>0, <2>2 DEF PlacesInv, InstanceInv, RangesInv
  <2> QED
    BY <1>0, <1>1, <2>3, <2>4, <2>5 DEF PlacesInv
<1>4. CASE free[l] # <<>>
  <2> DEFINE f == AfterReserve(free[l])
             n == Len(free[l])
  <2>1. /\ idx = free[l][n] /\ idx \in Slot /\ f \in Seq(Slot) /\ Len(f) = n - 1 /\ n \in Nat \ {0}
        /\ \A j \in 1 .. n - 1 : f[j] = free[l][j]
    BY <1>0, <1>4, ReserveTop
  <2>2. /\ slots' = [slots EXCEPT ![l][idx] = i]
        /\ maxIdx' = IF maxIdx[l] < idx THEN [maxIdx EXCEPT ![l] = idx] ELSE maxIdx
        /\ free'[l] = f
    BY <1>0, <2>1 DEF Insert, RangesInv
  <2> HIDE DEF f, idx
  <2>3. RangesInv'
    <3>1. free' \in [List -> Seq(Slot)]
      BY <1>0, <2>1 DEF RangesInv, f
    <3>2. slots' \in [List -> [Slot -> Instance \cup {NoInstance}]]
      BY <2>1, <2>2 DEF RangesInv
    <3>3. maxIdx' \in [List -> -1 .. ListSize - 1]
      BY <2>1, <2>2, Indices DEF RangesInv
    <3>4. listIndex' \in [Instance -> Slot \cup {UINT32_MAX}]
      BY <1>0, <2>1 DEF RangesInv, idx
    <3> QED
      BY <1>0, <3>1, <3>2, <3>3, <3>4 DEF RangesInv
  <2>4. /\ \A x \in Slot : x # idx => slots'[l][x] = slots[l][x]
        /\ slots'[l][idx] = i
        /\ \A m \in List : m # l => slots'[m] = slots[m] /\ free'[m] = free[m]
                                    /\ maxIdx'[m] = maxIdx[m]
        /\ maxIdx'[l] >= maxIdx[l] /\ maxIdx'[l] >= idx /\ maxIdx'[l] \in Int /\ maxIdx[l] \in Int
    BY <1>0, <2>1, <2>2, Indices DEF RangesInv
  <2>5. /\ \A j \in Instance : j # i => listIndex'[j] = listIndex[j] /\ inList'[j] = inList[j]
        /\ listIndex'[i] = idx /\ inList'[i] = l
    BY <1>0 DEF RangesInv, idx
  <2>6. ASSUME memory[l] = "live" PROVE ListInv(l)' /\ slots[l][idx] = NoInstance
    <3>1. ListInv(l)
      BY <2>6 DEF PlacesInv
    <3>2. slots[l][idx] = NoInstance
      BY <2>1, <3>1 DEF ListInv
    <3>3. \A j, k \in 1 .. Len(free'[l]) : free'[l][j] = free'[l][k] => j = k
      BY <2>1, <2>2, <3>1 DEF ListInv
    <3>4. ASSUME NEW x \in Slot, x # idx
          PROVE  slots'[l][x] = NoInstance <=> \E j \in 1 .. Len(free'[l]) : free'[l][j] = x
      <4>1. slots[l][x] = NoInstance <=> \E j \in 1 .. n : free[l][j] = x
        BY <3>1 DEF ListInv
      <4>2. (\E j \in 1 .. n : free[l][j] = x) <=> \E j \in 1 .. n - 1 : free[l][j] = x
        BY <2>1, <3>4
      <4> QED
        BY <2>1, <2>2, <2>4, <3>4, <4>1, <4>2
    <3>5. slots'[l][idx] # NoInstance /\ ~ \E j \in 1 .. Len(free'[l]) : free'[l][j] = idx
      <4>1. slots'[l][idx] # NoInstance
        BY <2>4, Indices
      <4>2. \A j \in 1 .. n - 1 : free[l][j] # free[l][n]
        BY <2>1, <3>1 DEF ListInv
      <4> QED
        BY <2>1, <2>2, <4>1, <4>2
    <3>6. ASSUME NEW x \in Slot, slots'[l][x] # NoInstance
          PROVE  /\ inList'[slots'[l][x]] = l /\ listIndex'[slots'[l][x]] = x
                 /\ x <= maxIdx'[l]
      <4>1. CASE x = idx
        BY <2>4, <2>5, <4>1
      <4>2. CASE x # idx
        <5>1. slots[l][x] \in Instance /\ slots[l][x] # i /\ x \in Int
          <6>1. slots[l][x] = slots'[l][x] /\ slots[l][x] # i /\ x \in Int
            BY <1>2, <2>4, <2>6, <4>2, Indices
          <6>2. slots[l][x] \in Instance \cup {NoInstance}
            BY DEF RangesInv
          <6> QED
            BY <3>6, <6>1, <6>2
        <5> QED
          BY <2>4, <2>5, <3>1, <3>6, <4>2, <5>1 DEF ListInv
      <4> QED
        BY <4>1, <4>2
    <3> QED
      BY <3>2, <3>3, <3>4, <3>5, <3>6 DEF ListInv
  <2>7. ASSUME NEW m \in List, m # l, memory[m] = "live" PROVE ListInv(m)'
    <3>1. ListInv(m)
      BY <2>7 DEF PlacesInv
    <3>2. \A x \in Slot : slots[m][x] # NoInstance => slots[m][x] \in Instance /\ slots[m][x] # i
      BY <1>2, <2>7 DEF RangesInv
    <3> QED
      BY <2>4, <2>5, <2>7, <3>1, <3>2 DEF ListInv
  <2>8. ASSUME NEW j \in Instance PROVE InstanceInv(j)'
    <3>1. CASE j = i
      BY <1>0, <2>4, <2>5, <3>1 DEF InstanceInv
    <3>2. CASE j # i
      <4> SUFFICES ASSUME listIndex[j] # UINT32_MAX PROVE InstanceInv(j)'
        BY <2>5, <3>2 DEF InstanceInv
      <4>1. inList[j] \in List /\ listIndex[j] \in Slot
            /\ (memory[inList[j]] = "live" => slots[inList[j]][listIndex[j]] = j)
        BY DEF PlacesInv, InstanceInv, RangesInv
      <4>2. memory[inList[j]] = "live" => slots'[inList[j]][listIndex[j]] = j
        BY <2>4, <2>6, <4>1, Indices
      <4> QED
        BY <1>0, <2>5, <3>2, <4>1, <4>2 DEF InstanceInv
    <3> QED
      BY <3>1, <3>2
  <2> QED
    BY <1>0, <1>1, <2>3, <2>6, <2>7, <2>8 DEF PlacesInv
<1> QED
  BY <1>3, <1>4


\* An instance that has an index gives it back.  A list that was taken apart
\* meanwhile is of no interest any more.
LEMMA RemoveInstanceKeeps ==
  ASSUME IInv, NEW l \in List, NEW i \in Instance, inList[i] = l, listIndex[i] # UINT32_MAX,
         RemoveInstance(l, i), \A m \in List : memory'[m] = memory[m]
  PROVE  /\ PlacesInv'
         /\ free' \in [List -> Seq(Slot)]
         /\ slots' \in [List -> [Slot -> Instance \cup {NoInstance}]]
         /\ maxIdx' \in [List -> -1 .. ListSize - 1]
         /\ inList' = [inList EXCEPT ![i] = NoList]
         /\ listIndex' = [listIndex EXCEPT ![i] = UINT32_MAX]
         /\ \A m \in List : memory[m] = "none" => slots'[m] = EmptyArray
<1> USE DEF IInv
<1> DEFINE idx == listIndex[i]
           n == Len(free[l])
<1>0. /\ idx \in Slot /\ l \in List /\ free[l] \in Seq(Slot) /\ n \in Nat
      /\ slots' = [slots EXCEPT ![l][idx] = NoInstance]
      /\ maxIdx' = [maxIdx EXCEPT ![l] = IF @ = idx THEN idx - 1 ELSE @]
      /\ free' = [free EXCEPT ![l] = AfterRelease(free[l], ListSize, idx)]
      /\ listIndex' = [listIndex EXCEPT ![i] = UINT32_MAX]
      /\ inList' = [inList EXCEPT ![i] = NoList]
  BY LenProperties DEF RemoveInstance, RangesInv
<1> HIDE DEF idx
<1>1. AfterRelease(free[l], ListSize, idx) \in Seq(Slot)
  BY <1>0, AppendProperties DEF AfterRelease
<1>2. free' \in [List -> Seq(Slot)]
  BY <1>0, <1>1 DEF RangesInv
<1>3. slots' \in [List -> [Slot -> Instance \cup {NoInstance}]]
  BY <1>0 DEF RangesInv
<1>4. maxIdx' \in [List -> -1 .. ListSize - 1]
  BY <1>0, Indices DEF RangesInv
<1>5. /\ \A x \in Slot : x # idx => slots'[l][x] = slots[l][x]
      /\ slots'[l][idx] = NoInstance
      /\ \A m \in List : m # l => slots'[m] = slots[m] /\ free'[m] = free[m]
                                  /\ maxIdx'[m] = maxIdx[m]
      /\ maxIdx'[l] = IF maxIdx[l] = idx THEN idx - 1 ELSE maxIdx[l]
      /\ free'[l] = AfterRelease(free[l], ListSize, idx)
      /\ \A j \in Instance : j # i => listIndex'[j] = listIndex[j] /\ inList'[j] = inList[j]
      /\ listIndex'[i] = UINT32_MAX /\ maxIdx[l] \in Int
  BY <1>0 DEF RangesInv
<1>6. \A m \in List : memory[m] = "none" => slots'[m] = EmptyArray
  <2>1. memory[l] # "none"
    BY Indices DEF MadeInv
  <2> QED
    BY <1>5, <2>1 DEF MadeInv
<1>7. ASSUME memory[l] = "live" PROVE ListInv(l)'
  <2>1. ListInv(l) /\ slots[l][idx] = i
    BY <1>7 DEF PlacesInv, InstanceInv, idx
  <2>2. \A j \in 1 .. n : free[l][j] # idx
    BY <1>0, <2>1, Indices DEF ListInv
  <2>3. n < ListSize
    BY <1>0, <2>1, <2>2, NotFull DEF ListInv
  <2>4. /\ Len(free'[l]) = n + 1 /\ free'[l][n + 1] = idx
        /\ \A j \in 1 .. n : free'[l][j] = free[l][j]
    BY <1>0, <1>5, <2>3, AppendProperties DEF AfterRelease
  <2>5. \A j \in 1 .. n + 1 : j \in 1 .. n \/ j = n + 1
    BY <1>0
  <2>6. \A j, k \in 1 .. Len(free'[l]) : free'[l][j] = free'[l][k] => j = k
    BY <2>1, <2>2, <2>4, <2>5 DEF ListInv
  <2>7. ASSUME NEW x \in Slot
        PROVE  slots'[l][x] = NoInstance <=> \E j \in 1 .. Len(free'[l]) : free'[l][j] = x
    <3>1. CASE x = idx
      <4>1. n + 1 \in 1 .. n + 1
        BY <1>0
      <4> QED
        BY <1>5, <2>4, <3>1, <4>1
    <3>2. CASE x # idx
      <4>1. (\E j \in 1 .. n + 1 : free'[l][j] = x) <=> \E j \in 1 .. n : free[l][j] = x
        <5>1. \A j \in 1 .. n : j \in 1 .. n + 1
          BY <1>0
        <5> QED
          BY <2>4, <2>5, <3>2, <5>1
      <4>2. slots[l][x] = NoInstance <=> \E j \in 1 .. n : free[l][j] = x
        BY <2>1 DEF ListInv
      <4> QED
        BY <1>5, <2>4, <3>2, <4>1, <4>2
    <3> QED
      BY <3>1, <3>2
  <2>8. ASSUME NEW x \in Slot, slots'[l][x] # NoInstance
        PROVE  /\ inList'[slots'[l][x]] = l /\ listIndex'[slots'[l][x]] = x
               /\ x <= maxIdx'[l]
    <3>1. x # idx /\ slots'[l][x] = slots[l][x]
      BY <1>5, <2>8
    <3>2. /\ inList[slots[l][x]] = l /\ listIndex[slots[l][x]] = x /\ x <= maxIdx[l]
          /\ slots[l][x] \in Instance
      BY <2>1, <2>8, <3>1 DEF ListInv, RangesInv
    <3>3. slots[l][x] # i
      BY <3>1, <3>2 DEF idx
    <3>4. x <= maxIdx'[l]
      BY <1>0, <1>5, <3>1, <3>2, Indices
    <3> QED
      BY <1>5, <3>1, <3>2, <3>3, <3>4
  <2> QED
    BY <2>6, <2>7, <2>8 DEF ListInv
<1>8. ASSUME NEW m \in List, m # l, memory[m] = "live" PROVE ListInv(m)'
  <2>1. ListInv(m)
    BY <1>8 DEF PlacesInv
  <2>2. \A x \in Slot : slots[m][x] # NoInstance => slots[m][x] \in Instance /\ slots[m][x] # i
    BY <1>8, <2>1 DEF ListInv, RangesInv
  <2> QED
    BY <1>5, <1>8, <2>1, <2>2 DEF ListInv
<1>9. ASSUME NEW j \in Instance PROVE InstanceInv(j)'
  <2>1. CASE j = i
    BY <1>5, <2>1 DEF InstanceInv
  <2>2. CASE j # i
    <3> SUFFICES ASSUME listIndex[j] # UINT32_MAX PROVE InstanceInv(j)'
      BY <1>5, <2>2 DEF InstanceInv
    <3>1. /\ inList[j] \in List /\ listIndex[j] \in Slot
          /\ memory[inList[j]] = "live" => slots[inList[j]][listIndex[j]] = j
      BY DEF PlacesInv, InstanceInv, RangesInv
    <3>2. memory[inList[j]] = "live" => slots'[inList[j]][listIndex[j]] = j
      <4> SUFFICES ASSUME memory[inList[j]] = "live" PROVE slots'[inList[j]][listIndex[j]] = j
        OBVIOUS
      <4>1. CASE inList[j] = l
        <5>1. slots[l][idx] = i
          BY <4>1 DEF PlacesInv, InstanceInv, idx
        <5> QED
          BY <1>5, <2>2, <3>1, <4>1, <5>1
      <4>2. CASE inList[j] # l
        BY <1>5, <3>1, <4>2
      <4> QED
        BY <4>1, <4>2
    <3> QED
      BY <1>5, <2>2, <3>1, <3>2 DEF InstanceInv
  <2> QED
    BY <2>1, <2>2
<1>10. PlacesInv'
  BY <1>7, <1>8, <1>9 DEF PlacesInv
<1> QED
  BY <1>0, <1>2, <1>3, <1>4, <1>6, <1>10

\* list:remove, also of an instance that has no index.
LEMMA RemoveFromKeepsIInv ==
  ASSUME IInv, NEW l \in List, NEW i \in Instance, MayRemove(l, i), RemoveFrom(l, i)
  PROVE  IInv'
<1> USE DEF IInv
<1>1. UNCHANGED <<memory, held>> /\ RemoveInstance(l, i)
  BY DEF RemoveFrom, lua
<1>2. CASE listIndex[i] = UINT32_MAX
  <2>1. UNCHANGED <<free, slots, maxIdx, inList, listIndex>>
    BY <1>1, <1>2 DEF RemoveInstance, lists, instances
  <2> QED
    BY <1>1, <2>1 DEF RangesInv, MadeInv, PlacesInv, ListInv, InstanceInv
<1>3. CASE listIndex[i] # UINT32_MAX
  <2>1. inList[i] = l
    BY <1>3 DEF MayRemove
  <2>2. /\ PlacesInv' /\ free' \in [List -> Seq(Slot)]
        /\ slots' \in [List -> [Slot -> Instance \cup {NoInstance}]]
        /\ maxIdx' \in [List -> -1 .. ListSize - 1]
        /\ inList' = [inList EXCEPT ![i] = NoList]
        /\ listIndex' = [listIndex EXCEPT ![i] = UINT32_MAX]
        /\ \A m \in List : memory[m] = "none" => slots'[m] = EmptyArray
    BY <1>1, <1>3, <2>1, RemoveInstanceKeeps
  <2> QED
    BY <1>1, <2>2 DEF RangesInv, MadeInv
<1> QED
  BY <1>2, <1>3

-----------------------------------------------------------------------------
(* The collector *)

\* A list that no step touches stays in order, alive or not.
LEMMA PlacesKept ==
  ASSUME IInv, UNCHANGED <<lists, instances>>,
         \A m \in List : memory'[m] = "live" => memory[m] = "live"
  PROVE  PlacesInv'
BY DEF IInv, lists, instances, PlacesInv, ListInv, InstanceInv, RangesInv

\* RenderInstance_gc, in the list's lifetime or after it.
LEMMA FinaliseInstanceKeepsIInv ==
  ASSUME IInv, NEW i \in Instance, FinaliseInstance(i) PROVE IInv'
<1> USE DEF IInv
<1>1. /\ held' = held /\ memory' = [memory EXCEPT ![i] = "freed"]
      /\ IF inList[i] # NoList THEN RemoveInstance(inList[i], i) ELSE UNCHANGED <<lists, instances>>
  BY DEF FinaliseInstance, Finalise
<1>2. /\ \A m \in List : memory'[m] = memory[m]
      /\ memory' \in [Userdata -> {"none", "live", "finalised", "freed"}]
      /\ \A u \in Userdata : memory[u] # "none" => memory'[u] # "none"
  BY <1>1, Indices DEF RangesInv, Userdata
<1>3. CASE inList[i] = NoList \/ listIndex[i] = UINT32_MAX
  <2>1. UNCHANGED <<lists, instances>>
    BY <1>1, <1>3 DEF RemoveInstance
  <2>2. PlacesInv'
    BY <1>2, <2>1, PlacesKept
  <2>3. RangesInv'
    BY <1>1, <1>2, <2>1 DEF RangesInv, lists, instances
  <2>4. MadeInv'
    BY <1>1, <1>2, <2>1 DEF MadeInv, RangesInv, lists, instances, Userdata
  <2> QED
    BY <2>2, <2>3, <2>4
<1>4. CASE inList[i] # NoList /\ listIndex[i] # UINT32_MAX
  <2>1. inList[i] \in List /\ RemoveInstance(inList[i], i)
    BY <1>1, <1>4 DEF RangesInv
  <2>2. /\ PlacesInv' /\ free' \in [List -> Seq(Slot)]
        /\ slots' \in [List -> [Slot -> Instance \cup {NoInstance}]]
        /\ maxIdx' \in [List -> -1 .. ListSize - 1]
        /\ inList' = [inList EXCEPT ![i] = NoList]
        /\ listIndex' = [listIndex EXCEPT ![i] = UINT32_MAX]
        /\ \A m \in List : memory[m] = "none" => slots'[m] = EmptyArray
    BY <1>1, <1>2, <1>4, <2>1, RemoveInstanceKeeps
  <2>3. RangesInv'
    BY <1>1, <1>2, <2>2 DEF RangesInv
  <2>4. MadeInv'
    BY <1>1, <1>2, <2>2 DEF MadeInv, RangesInv, Userdata
  <2> QED
    BY <2>2, <2>3, <2>4
<1> QED
  BY <1>3, <1>4

\* RenderList_gc: the list is not live any more.
LEMMA FinaliseListKeepsIInv ==
  ASSUME IInv, NEW l \in List, FinaliseList(l) PROVE IInv'
<1> USE DEF IInv
<1>1. /\ memory' = [memory EXCEPT ![l] = "finalised"]
      /\ slots' = [slots EXCEPT ![l] = EmptyArray]
      /\ maxIdx' = [maxIdx EXCEPT ![l] = -1]
      /\ free' = [free EXCEPT ![l] = <<>>]
      /\ UNCHANGED <<inList, listIndex, held>>
  BY DEF FinaliseList, Finalise, instances
<1>2. RangesInv'
  <2>1. <<>> \in Seq(Slot) /\ EmptyArray \in [Slot -> Instance \cup {NoInstance}]
    BY EmptySeq DEF EmptyArray
  <2>2. free' \in [List -> Seq(Slot)] /\ slots' \in [List -> [Slot -> Instance \cup {NoInstance}]]
    BY <1>1, <2>1 DEF RangesInv
  <2>3. maxIdx' \in [List -> -1 .. ListSize - 1]
    <3>1. -1 \in -1 .. ListSize - 1
      BY Indices
    <3> QED
      BY <1>1, <3>1 DEF RangesInv
  <2>4. memory' \in [Userdata -> {"none", "live", "finalised", "freed"}]
    BY <1>1 DEF RangesInv
  <2> QED
    BY <1>1, <2>2, <2>3, <2>4 DEF RangesInv
<1>3. MadeInv'
  BY <1>1 DEF MadeInv, RangesInv, Userdata
<1>4. ASSUME NEW m \in List, memory'[m] = "live" PROVE ListInv(m)'
  <2>1. m # l /\ memory[m] = "live"
    BY <1>1, <1>4 DEF RangesInv, Userdata
  <2> QED
    BY <1>1, <2>1 DEF PlacesInv, ListInv, RangesInv
<1>5. ASSUME NEW i \in Instance PROVE InstanceInv(i)'
  BY <1>1 DEF PlacesInv, InstanceInv, RangesInv, Userdata
<1> QED
  BY <1>2, <1>3, <1>4, <1>5 DEF PlacesInv

\* Any other step leaves lists and instances alone.
LEMMA OthersKeepIInv ==
  ASSUME IInv, UNCHANGED <<lists, instances>>, held' \subseteq Userdata,
         memory' \in [Userdata -> {"none", "live", "finalised", "freed"}],
         \A m \in List : memory'[m] = "live" => memory[m] = "live",
         \A u \in Userdata : memory'[u] = "none" => memory[u] = "none",
         \A u \in held' : u \in held \/ memory'[u] # "none"
  PROVE  IInv'
<1>1. PlacesInv'
  BY PlacesKept
<1>2. RangesInv'
  BY DEF IInv, RangesInv, lists, instances
<1>3. MadeInv'
  BY DEF IInv, MadeInv, RangesInv, lists, instances, Userdata
<1> QED
  BY <1>1, <1>2, <1>3 DEF IInv

-----------------------------------------------------------------------------
\* Whatever script and collector do keeps the lists in order.
LEMMA NextKeepsIInv == IInv /\ [Next]_vars => IInv'
<1> SUFFICES ASSUME IInv, [Next]_vars PROVE IInv'
  OBVIOUS
<1>0. /\ memory \in [Userdata -> {"none", "live", "finalised", "freed"}] /\ held \subseteq Userdata
      /\ List \subseteq Userdata /\ Instance \subseteq Userdata /\ Resource \subseteq Userdata
      /\ List \cap Instance = {} /\ List \cap Resource = {}
  BY Indices DEF IInv, RangesInv, Userdata
<1>1. ASSUME NEW u \in Instance \cup Resource, Create(u), UNCHANGED <<lists, instances>> PROVE IInv'
  BY <1>0, <1>1, OthersKeepIInv DEF Create
<1>2. CASE UNCHANGED vars
  BY <1>0, <1>2, OthersKeepIInv DEF vars, lists, instances
<1>3. ASSUME NEW l \in List, NEW i \in Instance, MayInsert(l, i), Insert(l, i) PROVE IInv'
  BY <1>3, InsertKeepsIInv
<1>4. ASSUME NEW l \in List, NEW i \in Instance, MayRemove(l, i), RemoveFrom(l, i) PROVE IInv'
  BY <1>4, RemoveFromKeepsIInv
<1>5. ASSUME NEW l \in List \cup {NoList}, NEW k \in -1 .. NumLists - 1, SetRenderList(l, k) PROVE IInv'
  BY <1>0, <1>5, OthersKeepIInv DEF SetRenderList, lua
<1>6. ASSUME NEW u \in Userdata, Drop(u) PROVE IInv'
  BY <1>0, <1>6, OthersKeepIInv DEF Drop
<1>7. CASE Script
  BY <1>1, <1>3, <1>4, <1>5, <1>6, <1>7, NewListKeepsIInv DEF Script, NewInstance
<1>8. CASE Resources
  <2>1. ASSUME NEW u \in Instance \cup List, NEW r \in Resource, SetResource(u, r) PROVE IInv'
    BY <1>0, <2>1, OthersKeepIInv DEF SetResource, lua
  <2>2. ASSUME NEW u \in Instance \cup List, ClearTarget(u) PROVE IInv'
    BY <1>0, <2>2, OthersKeepIInv DEF ClearTarget, lua
  <2>3. ASSUME NEW t \in Target, NEW x \in Texture, BindTexture(t, x) PROVE IInv'
    BY <1>0, <2>3, OthersKeepIInv DEF BindTexture, lua
  <2> QED
    BY <1>1, <1>8, <2>1, <2>2, <2>3 DEF Resources, NewResource
<1>9. CASE Collect
  <2>1. /\ UNCHANGED <<lists, instances, held>>
        /\ memory' = [u \in Userdata |-> IF memory[u] = "finalised" THEN "freed" ELSE memory[u]]
    BY <1>0, <1>9 DEF Collect
  <2> QED
    BY <1>0, <2>1, OthersKeepIInv
<1>10. ASSUME NEW r \in Resource, FinaliseResource(r) PROVE IInv'
  <2>1. /\ UNCHANGED <<lists, instances, held>>
        /\ memory' = [memory EXCEPT ![r] = IF KindOf[r] = "mesh" THEN "freed" ELSE "finalised"]
    BY <1>10 DEF FinaliseResource, Finalise
  <2> QED
    BY <1>0, <2>1, OthersKeepIInv
<1>11. CASE Close
  BY <1>0, <1>11, OthersKeepIInv DEF Close
<1>12. CASE Closed
  BY <1>2, <1>12 DEF Closed
<1> QED
  BY <1>2, <1>7, <1>8, <1>9, <1>10, <1>11, <1>12, FinaliseInstanceKeepsIInv, FinaliseListKeepsIInv
  DEF Next, Collector

\* The inductive invariant holds in every reachable state.
THEOREM Invariance == Spec => []IInv
<1> QED
  BY InitIInv, NextKeepsIInv, PTL DEF Spec

\* The indices of a list are never lost, nor given twice, however instances come
\* and go: the assertion of idxallocator.c:93 holds.
THEOREM IndicesKept == Spec => []IndicesInv
<1>1. IInv => IndicesInv
  <2> SUFFICES ASSUME IInv, NEW l \in List, memory[l] = "live"
               PROVE  /\ \A j, k \in DOMAIN free[l] : free[l][j] = free[l][k] => j = k
                      /\ \A idx \in Slot : (slots[l][idx] = NoInstance)
                                             = (\E j \in DOMAIN free[l] : free[l][j] = idx)
                      /\ \A idx \in Slot : slots[l][idx] # NoInstance =>
                           inList[slots[l][idx]] = l /\ listIndex[slots[l][idx]] = idx
    BY DEF IndicesInv
  <2>1. DOMAIN free[l] = 1 .. Len(free[l])
    BY LenProperties DEF IInv, RangesInv
  <2>2. ListInv(l)
    BY DEF IInv, PlacesInv
  <2>3. \A j, k \in DOMAIN free[l] : free[l][j] = free[l][k] => j = k
    BY <2>1, <2>2 DEF ListInv
  <2>4. ASSUME NEW idx \in Slot
        PROVE  /\ (slots[l][idx] = NoInstance) = (\E j \in DOMAIN free[l] : free[l][j] = idx)
               /\ slots[l][idx] # NoInstance =>
                    inList[slots[l][idx]] = l /\ listIndex[slots[l][idx]] = idx
    BY <2>1, <2>2 DEF ListInv
  <2> QED
    BY <2>3, <2>4
<1> QED
  BY <1>1, Invariance, PTL

\* A frame of kl_render_frame comes past every instance that has an index.
THEOREM EveryInstanceIsDrawn == Spec => []DrawsEveryInstance
<1>1. IInv => DrawsEveryInstance
  <2> SUFFICES ASSUME IInv, NEW l \in List, NEW i \in Instance, memory[l] = "live", inList[i] = l,
                      listIndex[i] # UINT32_MAX
               PROVE  i \in Drawn(l)
    BY DEF DrawsEveryInstance
  <2>1. listIndex[i] \in Slot /\ slots[l][listIndex[i]] = i /\ i # NoInstance
    BY Indices DEF IInv, RangesInv, PlacesInv, InstanceInv
  <2>2. listIndex[i] <= maxIdx[l] /\ maxIdx[l] \in Int
    BY <2>1 DEF IInv, RangesInv, PlacesInv, ListInv
  <2>3. listIndex[i] \in 0 .. maxIdx[l]
    BY <2>1, <2>2, Indices
  <2> QED
    BY <2>1, <2>3 DEF Drawn
<1> QED
  BY <1>1, Invariance, PTL

-----------------------------------------------------------------------------
(* The lives of userdata: pointers, references, and the order in which they *)
(* are finalised                                                            *)

\* Whether userdata v is used with a plain pointer to n: to the list in which it
\* has an index, or to what it is drawn with.
PointsAt(v, n) ==
  \/ v \in Instance /\ listIndex[v] # UINT32_MAX /\ n = inList[v]
  \/ v \in User /\ n \in uses[v]

\* What the script holds and what the collector has found is alive, and never both.
LuaInv ==
  /\ uses \in [User -> SUBSET Resource]
  /\ renderList \in [Shown -> List \cup {NoList}]
  /\ elders \in [Userdata -> SUBSET Userdata]
  /\ held \subseteq Live /\ pending \subseteq Live \ held
  /\ closed \in BOOLEAN /\ (closed => held = {})

\* The script holds the lists that the renderer shows.
ShownInv == ~closed => \A k \in Shown : renderList[k] # NoList => renderList[k] \in held

\* Only an instance that is alive has an index, and what was not created yet
\* uses nothing.
BareInv ==
  /\ \A i \in Instance : listIndex[i] # UINT32_MAX => i \in Live
  /\ \A v \in User : memory[v] = "none" => uses[v] = {}

\* What v points at lives while v does: it is held while v is, found no sooner
\* than v, and the older one while both are in the same list of Lua's.
Outlives(n, v) ==
  /\ n \in Live
  /\ v \in held => n \in held
  /\ n \in pending => v \in pending
  /\ (v \in pending => n \in pending) => n \in elders[v]

PointersInv == \A v \in Live, n \in Userdata : PointsAt(v, n) => Outlives(n, v)

\* The inductive invariant of the userdata's lives.
LifeInv == LuaInv /\ ShownInv /\ BareInv /\ PointersInv

\* Before anything is created nothing points at anything.
LEMMA InitLifeInv == Init => LifeInv
<1> SUFFICES ASSUME Init PROVE LifeInv
  OBVIOUS
<1>1. Live = {}
  BY DEF Init, Live
<1>2. LuaInv
  BY <1>1 DEF Init, LuaInv
<1>3. ShownInv /\ BareInv
  BY DEF Init, ShownInv, BareInv
<1>4. PointersInv
  BY <1>1 DEF PointersInv
<1> QED
  BY <1>2, <1>3, <1>4 DEF LifeInv

\* A pointer that the script stores goes from what it holds to something older
\* that it holds.
LEMMA StoresKeepLifeInv ==
  ASSUME IInv, LifeInv, UNCHANGED <<memory, lua>>,
         uses' \in [User -> SUBSET Resource],
         renderList' \in [Shown -> List \cup {NoList}],
         closed \/ \A k \in Shown :
           renderList'[k] = renderList[k] \/ renderList'[k] \in held \cup {NoList},
         \A i \in Instance : listIndex'[i] # UINT32_MAX => listIndex[i] # UINT32_MAX \/ i \in held,
         \A v \in User : uses'[v] \subseteq uses[v] \/ v \in held,
         \A v, n \in Userdata : PointsAt(v, n)' =>
           PointsAt(v, n) \/ (v \in held /\ n \in held /\ Older(n, v))
  PROVE  LifeInv'
<1> USE DEF LifeInv
<1>1. Live' = Live /\ UNCHANGED <<memory, elders, held, pending, closed>>
  BY DEF Live, lua
<1>2. LuaInv'
  BY <1>1 DEF LuaInv
<1>3. ShownInv'
  BY <1>1 DEF ShownInv
<1>4. BareInv'
  <2>1. \A v \in held : v \in Live /\ memory[v] # "none"
    BY DEF LuaInv, Live
  <2>2. \A i \in Instance : listIndex'[i] # UINT32_MAX => i \in Live
    BY <2>1 DEF BareInv
  <2>3. \A v \in User : memory[v] = "none" => uses'[v] = {}
    BY <2>1 DEF BareInv
  <2> QED
    BY <1>1, <2>2, <2>3 DEF BareInv
<1>5. PointersInv'
  <2> SUFFICES ASSUME NEW v \in Live, NEW n \in Userdata, PointsAt(v, n)'
               PROVE  Outlives(n, v)
    BY <1>1 DEF PointersInv, Outlives
  <2>1. CASE PointsAt(v, n)
    BY <2>1 DEF PointersInv
  <2>2. CASE v \in held /\ n \in held /\ n \in elders[v]
    BY <2>2 DEF LuaInv, Outlives
  <2> QED
    BY <2>1, <2>2 DEF Older, Live
<1> QED
  BY <1>2, <1>3, <1>4, <1>5

\* A new userdata points at nothing, and nothing at it.
LEMMA CreateKeepsLifeInv ==
  ASSUME IInv, LifeInv, NEW u \in Userdata, Create(u), UNCHANGED instances
  PROVE  LifeInv'
<1> USE DEF LifeInv
<1>1. /\ ~closed /\ memory[u] = "none" /\ memory' = [memory EXCEPT ![u] = "live"]
      /\ elders' = [elders EXCEPT ![u] = Live \ pending] /\ held' = held \cup {u}
      /\ UNCHANGED <<inList, listIndex, uses, renderList, pending, closed>>
  BY DEF Create, instances
<1>2. Live' = Live \cup {u} /\ u \notin Live /\ Live \subseteq Userdata
  BY <1>1 DEF Live, IInv, RangesInv
<1>3. u \notin held /\ u \notin pending
  BY <1>2 DEF LuaInv
<1>4. LuaInv'
  BY <1>1, <1>2, <1>3 DEF LuaInv
<1>5. ShownInv'
  BY <1>1 DEF ShownInv
<1>6. BareInv'
  BY <1>1, <1>2 DEF BareInv, IInv, RangesInv, Userdata, User, Target
<1>7. PointersInv'
  <2> SUFFICES ASSUME NEW v \in Live', NEW n \in Userdata, PointsAt(v, n)'
               PROVE  Outlives(n, v)'
    BY DEF PointersInv
  <2>1. PointsAt(v, n)
    BY <1>1 DEF PointsAt
  <2>2. v # u
    BY <1>1, <1>2, <2>1 DEF PointsAt, BareInv
  <2>3. v \in Live /\ v \in Userdata /\ Outlives(n, v)
    BY <1>2, <2>1, <2>2 DEF PointersInv
  <2>4. elders'[v] = elders[v]
    BY <1>1, <2>2, <2>3 DEF LuaInv
  <2> QED
    BY <1>1, <1>2, <2>2, <2>3, <2>4 DEF Outlives
<1> QED
  BY <1>4, <1>5, <1>6, <1>7

\* The script may let go of what neither the renderer nor anything that it
\* holds points at.
LEMMA DropKeepsLifeInv ==
  ASSUME LifeInv, NEW u \in Userdata, MayDrop(u), Drop(u)
  PROVE  LifeInv'
<1> USE DEF LifeInv
<1>1. /\ held' = held \ {u} /\ Live' = Live
      /\ UNCHANGED <<memory, inList, listIndex, uses, renderList, elders, pending, closed>>
  BY DEF Drop, instances, Live
<1>2. LuaInv'
  BY <1>1 DEF LuaInv
<1>3. ShownInv'
  BY <1>1 DEF ShownInv, MayDrop
<1>4. BareInv'
  BY <1>1 DEF BareInv
<1>5. PointersInv'
  <2> SUFFICES ASSUME NEW v \in Live, NEW n \in Userdata, PointsAt(v, n)
               PROVE  Outlives(n, v)'
    BY <1>1 DEF PointersInv, PointsAt
  <2>1. Outlives(n, v)
    BY DEF PointersInv
  <2>2. v \in held => n # u
    BY DEF PointsAt, MayDrop, LuaInv
  <2> QED
    BY <1>1, <2>1, <2>2 DEF Outlives
<1> QED
  BY <1>2, <1>3, <1>4, <1>5

\* The collector finds no userdata sooner than what points at it.
LEMMA CollectKeepsLifeInv == ASSUME LifeInv, Collect PROVE LifeInv'
<1> USE DEF LifeInv
<1>1. /\ pending = {} /\ pending' = Live \ held
      /\ memory' = [u \in Userdata |-> IF memory[u] = "finalised" THEN "freed" ELSE memory[u]]
      /\ elders' = [u \in Userdata |-> elders[u] \cap (IF u \in held THEN held ELSE pending')]
      /\ UNCHANGED <<inList, listIndex, uses, renderList, held, closed>>
  BY DEF Collect, instances
<1>2. Live' = Live /\ Live \subseteq Userdata
  BY <1>1 DEF Live
<1>3. LuaInv'
  BY <1>1, <1>2 DEF LuaInv
<1>4. ShownInv'
  BY <1>1 DEF ShownInv
<1>5. BareInv'
  BY <1>1, <1>2 DEF BareInv, Userdata, User, Target
<1>6. PointersInv'
  <2> SUFFICES ASSUME NEW v \in Live, NEW n \in Userdata, PointsAt(v, n)
               PROVE  Outlives(n, v)'
    BY <1>1, <1>2 DEF PointersInv, PointsAt
  <2>1. n \in Live /\ (v \in held => n \in held) /\ n \in elders[v]
    BY <1>1 DEF PointersInv, Outlives
  <2>2. elders'[v] = elders[v] \cap (IF v \in held THEN held ELSE pending')
    BY <1>1, <1>2
  <2> QED
    BY <1>1, <1>2, <2>1, <2>2 DEF Outlives
<1> QED
  BY <1>3, <1>4, <1>5, <1>6

\* lua_close leaves nothing held.
LEMMA CloseKeepsLifeInv == ASSUME LifeInv, Close PROVE LifeInv'
<1> USE DEF LifeInv
<1>1. /\ closed' = TRUE /\ held' = {} /\ Live' = Live
      /\ UNCHANGED <<memory, inList, listIndex, uses, renderList, elders, pending>>
  BY DEF Close, instances, Live
<1>2. LuaInv'
  BY <1>1 DEF LuaInv
<1>3. ShownInv' /\ BareInv'
  BY <1>1 DEF ShownInv, BareInv
<1>4. PointersInv'
  BY <1>1 DEF PointersInv, Outlives, PointsAt
<1> QED
  BY <1>2, <1>3, <1>4

-----------------------------------------------------------------------------
(* Finalising the youngest first *)

\* What is finalised next is not held, and nothing that lives points at it.
LEMMA NothingPointsAtDue ==
  ASSUME LifeInv, NEW u \in Due
  PROVE  /\ u \in Live /\ u \notin held /\ u \in Userdata
         /\ \A v \in Live : ~PointsAt(v, u)
<1> USE DEF LifeInv
<1>1. CASE closed /\ pending = {}
  <2>1. u \in Live /\ u \in Userdata /\ held = {} /\ \A v \in Live : u \notin elders[v]
    BY <1>1 DEF Due, LuaInv, Live
  <2> QED
    BY <1>1, <2>1 DEF PointersInv, Outlives
<1>2. CASE ~(closed /\ pending = {})
  <2>1. u \in pending /\ \A v \in pending : u \notin elders[v]
    BY <1>2 DEF Due
  <2>2. u \in Live /\ u \in Userdata /\ u \notin held
    BY <2>1 DEF LuaInv, Live
  <2> QED
    BY <2>1, <2>2 DEF PointersInv, Outlives
<1> QED
  BY <1>1, <1>2

\* A finaliser leaves all other pointers, and an instance's leaves it in no list.
LEMMA FinaliseKeepsLifeInv ==
  ASSUME IInv, LifeInv, NEW u \in Userdata, NEW fate \in {"finalised", "freed"},
         Finalise(u, fate),
         \A i \in Instance : i # u => inList'[i] = inList[i] /\ listIndex'[i] = listIndex[i],
         u \in Instance => listIndex'[u] = UINT32_MAX
  PROVE  LifeInv'
<1> USE DEF LifeInv
<1>1. /\ u \in Due /\ memory' = [memory EXCEPT ![u] = fate] /\ pending' = pending \ {u}
      /\ elders' = [v \in Userdata |-> IF v = u THEN {} ELSE elders[v] \ {u}]
      /\ UNCHANGED <<uses, renderList, held, closed>>
  BY DEF Finalise
<1>2. Live' = Live \ {u} /\ Live \subseteq Userdata
  BY <1>1 DEF Live, IInv, RangesInv
<1>3. u \in Live /\ u \notin held /\ \A v \in Live : ~PointsAt(v, u)
  BY <1>1, NothingPointsAtDue
<1>4. LuaInv'
  BY <1>1, <1>2, <1>3 DEF LuaInv
<1>5. ShownInv'
  BY <1>1 DEF ShownInv
<1>6. BareInv'
  BY <1>1, <1>2 DEF BareInv, IInv, RangesInv, Userdata, User, Target
<1>7. PointersInv'
  <2> SUFFICES ASSUME NEW v \in Live', NEW n \in Userdata, PointsAt(v, n)'
               PROVE  Outlives(n, v)'
    BY DEF PointersInv
  <2>1. v # u /\ v \in Live /\ PointsAt(v, n)
    BY <1>1, <1>2 DEF PointsAt
  <2>2. Outlives(n, v) /\ n # u
    BY <1>3, <2>1 DEF PointersInv
  <2>3. elders'[v] = elders[v] \ {u}
    BY <1>1, <1>2, <2>1
  <2> QED
    BY <1>1, <1>2, <2>1, <2>2, <2>3 DEF Outlives
<1> QED
  BY <1>4, <1>5, <1>6, <1>7

\* What RenderInstance_gc frees is in no list.
LEMMA FinaliseInstanceKeepsLifeInv ==
  ASSUME IInv, LifeInv, NEW i \in Instance, FinaliseInstance(i)
  PROVE  LifeInv'
<1>1. /\ Finalise(i, "freed") /\ i \in Userdata
      /\ IF inList[i] # NoList THEN RemoveInstance(inList[i], i) ELSE UNCHANGED <<lists, instances>>
  BY DEF FinaliseInstance, Userdata
<1>2. listIndex[i] # UINT32_MAX => inList[i] # NoList
  BY Indices DEF IInv, PlacesInv, InstanceInv
<1>3. /\ \A j \in Instance : j # i => inList'[j] = inList[j] /\ listIndex'[j] = listIndex[j]
      /\ listIndex'[i] = UINT32_MAX
  BY <1>1, <1>2 DEF RemoveInstance, lists, instances, IInv, RangesInv
<1> QED
  BY <1>1, <1>3, FinaliseKeepsLifeInv

\* Whatever script and collector do, pointers lead to what lives.
LEMMA NextKeepsLifeInv == IInv /\ LifeInv /\ [Next]_vars => LifeInv'
<1> SUFFICES ASSUME IInv, LifeInv, [Next]_vars PROVE LifeInv'
  OBVIOUS
<1>0. /\ List \cup Instance \cup Resource = Userdata /\ Target \subseteq Resource
      /\ Texture \subseteq Resource /\ Instance \cap Resource = {} /\ List \cap Instance = {}
      /\ listIndex \in [Instance -> Slot \cup {UINT32_MAX}] /\ inList \in [Instance -> List \cup {NoList}]
      /\ uses \in [User -> SUBSET Resource] /\ Instance \cup List \subseteq User /\ Target \subseteq User
      /\ renderList \in [Shown -> List \cup {NoList}]
  BY NullsAssumption DEF Userdata, User, Target, Texture, IInv, RangesInv, LifeInv, LuaInv
<1>1. ASSUME NEW u \in Userdata, Create(u), UNCHANGED instances PROVE LifeInv'
  BY <1>1, CreateKeepsLifeInv
<1>2. CASE UNCHANGED vars
  <2>1. UNCHANGED <<memory, renderList, uses, inList, listIndex, lua>>
    BY <1>2 DEF vars, lua
  <2>2. \A v, n \in Userdata : PointsAt(v, n)' => PointsAt(v, n)
    BY <2>1 DEF PointsAt
  <2> QED
    BY <1>0, <2>1, <2>2, StoresKeepLifeInv
<1>3. ASSUME NEW l \in List, NEW i \in Instance, MayInsert(l, i), Insert(l, i) PROVE LifeInv'
  <2>1. /\ UNCHANGED <<memory, uses, renderList, lua>> /\ {l, i} \subseteq held /\ Older(l, i)
        /\ \A j \in Instance : j # i => listIndex'[j] = listIndex[j] /\ inList'[j] = inList[j]
        /\ inList'[i] = l
    BY <1>0, <1>3 DEF Insert, MayInsert
  <2>2. \A v, n \in Userdata : PointsAt(v, n)' =>
          PointsAt(v, n) \/ (v \in held /\ n \in held /\ Older(n, v))
    BY <2>1 DEF PointsAt
  <2> QED
    BY <1>0, <2>1, <2>2, StoresKeepLifeInv
<1>4. ASSUME NEW l \in List, NEW i \in Instance, RemoveFrom(l, i) PROVE LifeInv'
  <2>1. /\ UNCHANGED <<memory, uses, renderList, lua>>
        /\ \A j \in Instance : listIndex'[j] # UINT32_MAX =>
             listIndex'[j] = listIndex[j] /\ inList'[j] = inList[j]
    BY <1>0, <1>4 DEF RemoveFrom, RemoveInstance, instances
  <2>2. \A v, n \in Userdata : PointsAt(v, n)' => PointsAt(v, n)
    BY <2>1 DEF PointsAt
  <2> QED
    BY <1>0, <2>1, <2>2, StoresKeepLifeInv
<1>5. ASSUME NEW l \in List \cup {NoList}, NEW k \in -1 .. NumLists - 1, SetRenderList(l, k)
      PROVE  LifeInv'
  <2>1. /\ UNCHANGED <<memory, uses, inList, listIndex, lua>>
        /\ l \in held \cup {NoList}
        /\ renderList' = IF k < 0 THEN renderList ELSE [renderList EXCEPT ![k] = l]
    BY <1>5 DEF SetRenderList, instances
  <2>2. \A v, n \in Userdata : PointsAt(v, n)' => PointsAt(v, n)
    BY <2>1 DEF PointsAt
  <2> QED
    BY <1>0, <2>1, <2>2, StoresKeepLifeInv
<1>6. CASE Script
  BY <1>0, <1>1, <1>3, <1>4, <1>5, <1>6, DropKeepsLifeInv DEF Script, NewList, NewInstance
<1>7. ASSUME NEW u \in Instance \cup List, NEW r \in Resource, MayUse(u, r), SetResource(u, r)
      PROVE  LifeInv'
  <2>1. /\ UNCHANGED <<memory, renderList, inList, listIndex, lua>> /\ {u, r} \subseteq held
        /\ uses' = [uses EXCEPT ![u] = (@ \ OfKind(KindOf[r])) \cup {r}] /\ Older(r, u)
    BY <1>7 DEF SetResource, MayUse, instances
  <2>2. \A v, n \in Userdata : PointsAt(v, n)' =>
          PointsAt(v, n) \/ (v \in held /\ n \in held /\ Older(n, v))
    BY <1>0, <2>1 DEF PointsAt
  <2> QED
    BY <1>0, <2>1, <2>2, StoresKeepLifeInv
<1>8. ASSUME NEW u \in Instance \cup List, ClearTarget(u) PROVE LifeInv'
  <2>1. /\ UNCHANGED <<memory, renderList, inList, listIndex, lua>>
        /\ uses' = [uses EXCEPT ![u] = @ \ Target]
    BY <1>8 DEF ClearTarget, instances
  <2>2. \A v, n \in Userdata : PointsAt(v, n)' => PointsAt(v, n)
    BY <1>0, <2>1 DEF PointsAt
  <2> QED
    BY <1>0, <2>1, <2>2, StoresKeepLifeInv
<1>9. ASSUME NEW t \in Target, NEW x \in Texture, MayUse(t, x), BindTexture(t, x) PROVE LifeInv'
  <2>1. PICK old \in SUBSET uses[t] : uses' = [uses EXCEPT ![t] = (@ \ old) \cup {x}]
    BY <1>9 DEF BindTexture
  <2>2. /\ UNCHANGED <<memory, renderList, inList, listIndex, lua>> /\ {t, x} \subseteq held
        /\ Older(x, t)
    BY <1>9 DEF BindTexture, MayUse, instances
  <2>3. \A v, n \in Userdata : PointsAt(v, n)' =>
          PointsAt(v, n) \/ (v \in held /\ n \in held /\ Older(n, v))
    BY <1>0, <2>1, <2>2 DEF PointsAt
  <2> QED
    BY <1>0, <2>1, <2>2, <2>3, StoresKeepLifeInv
<1>10. CASE Resources
  BY <1>0, <1>1, <1>7, <1>8, <1>9, <1>10 DEF Resources, NewResource
<1>11. ASSUME NEW l \in List, FinaliseList(l) PROVE LifeInv'
  BY <1>0, <1>11, FinaliseKeepsLifeInv DEF FinaliseList, instances
<1>12. ASSUME NEW r \in Resource, FinaliseResource(r) PROVE LifeInv'
  BY <1>0, <1>12, FinaliseKeepsLifeInv DEF FinaliseResource, instances
<1>13. CASE Collector
  BY <1>11, <1>12, <1>13, CollectKeepsLifeInv, FinaliseInstanceKeepsLifeInv DEF Collector
<1>14. CASE Closed
  BY <1>2, <1>14 DEF Closed
<1> QED
  BY <1>2, <1>6, <1>10, <1>13, <1>14, CloseKeepsLifeInv DEF Next

\* Pointers lead to what lives, and lives end in the right order, in every
\* reachable state.
THEOREM LivesInvariance == Spec => []LifeInv
<1> QED
  BY InitIInv, NextKeepsIInv, InitLifeInv, NextKeepsLifeInv, PTL DEF Spec

\* Every variable keeps to its type.
THEOREM TypeCorrectness == Spec => []TypeOK
<1>1. IInv /\ LifeInv => TypeOK
  BY DEF IInv, RangesInv, LifeInv, LuaInv, TypeOK, Live
<1> QED
  BY <1>1, Invariance, LivesInvariance, PTL

\* A frame drawn at any moment reads no list and no instance that was freed, and
\* uses nothing that was finalised (render.c:213-290): what is shown is held,
\* every instance in it lives, and with it what it is drawn with.
THEOREM FramesDrawWhatLives == Spec => []DrawsOnlyLive
<1>1. IInv /\ LifeInv => DrawsOnlyLive
  <2> SUFFICES ASSUME IInv, LifeInv, ~closed, NEW k \in Shown, renderList[k] # NoList
               PROVE  /\ memory[renderList[k]] # "freed"
                      /\ \A i \in Drawn(renderList[k]) : memory[i] = "live"
                      /\ \A u \in {renderList[k]} \cup Drawn(renderList[k]) :
                           \A r \in DrawnWith(u) : memory[r] = "live"
    BY DEF DrawsOnlyLive
  <2> DEFINE l == renderList[k]
  <2>1. l \in List /\ memory[l] = "live"
    BY DEF LifeInv, LuaInv, ShownInv, Live
  <2> HIDE DEF l
  <2>2. ASSUME NEW v \in User, memory[v] = "live", NEW r \in uses[v]
        PROVE  memory[r] = "live"
    <3>1. PointsAt(v, r) /\ v \in Live /\ r \in Userdata
      BY <2>2 DEF PointsAt, Live, Userdata, User, Target, LifeInv, LuaInv
    <3> QED
      BY <3>1 DEF LifeInv, PointersInv, Outlives, Live
  <2>3. ASSUME NEW u \in Instance \cup List, memory[u] = "live"
        PROVE  \A r \in DrawnWith(u) : memory[r] = "live"
    <3>1. \A r \in uses[u] : memory[r] = "live"
      BY <2>2, <2>3 DEF User
    <3>2. \A t \in uses[u] \cap Target : \A r \in uses[t] : memory[r] = "live"
      BY <2>2, <3>1 DEF User
    <3> QED
      BY <3>1, <3>2 DEF DrawnWith
  <2>4. ASSUME NEW i \in Drawn(l) PROVE i \in Instance /\ memory[i] = "live"
    <3>1. PICK idx \in 0 .. maxIdx[l] : i = slots[l][idx] /\ i # NoInstance
      BY DEF Drawn
    <3>2. idx \in Slot /\ i \in Instance
      BY <2>1, <3>1, Indices DEF IInv, RangesInv
    <3>3. listIndex[i] = idx
      BY <2>1, <3>1, <3>2 DEF IInv, PlacesInv, ListInv
    <3> QED
      BY <3>2, <3>3, Indices DEF LifeInv, BareInv, Live
  <2> QED
    BY <2>1, <2>3, <2>4 DEF l
<1> QED
  BY <1>1, Invariance, LivesInvariance, PTL
=============================================================================
