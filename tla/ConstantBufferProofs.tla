------------------------ MODULE ConstantBufferProofs ------------------------
(***************************************************************************)
(* The memory of the constants, the texture units and the table of data    *)
(* sources, for every effect (any constants, of any kind and size), any    *)
(* number of sources and any size of their table, and a script that sets   *)
(* any constant to anything, until memory that is not a constant's is      *)
(* touched.                                                                *)
(***************************************************************************)
EXTENDS ConstantBuffer, FiniteSetTheorems, SequenceTheorems, TLAPS

\* The sources that were given an id.
WithId == {s \in registered : sourceId[s] \in Id}

\* The ranges that the proofs need.
RangesInv ==
  /\ buffer \in {"none", "live"}
  /\ type \in [Constant -> {"SCREEN", "MATRIX", "FLOAT", "INT", "TEX", "DATA"}]
  /\ DOMAIN union = Constant /\ undefined \in BOOLEAN
  /\ dealloc \in [Constant -> BOOLEAN] /\ block \in [Constant -> Nat]
  /\ DOMAIN source = Id /\ DOMAIN context = Id
  /\ registered \subseteq Source /\ sourceId \in [Source -> Id \union {UINT32_MAX}]
  /\ bound \in -1 .. NumConstants /\ numTex \in Nat
  /\ DOMAIN units = Constant /\ DOMAIN unitOf = Constant

\* The flag of a constant says whether memory of it was allocated, and is set
\* before a pointer to memory is stored.
MemoryInv ==
  /\ buffer = "none" => \A c \in Constant : block[c] = 0
  /\ buffer = "live" => \A c \in Constant :
       (block[c] # 0 <=> dealloc[c]) /\ (union[c] = Memory => dealloc[c])

\* The samplers that the loop has passed were told different units, below the
\* next one.
UnitsInv ==
  /\ bound # -1 => numTex <= bound
  /\ \A c \in Sampler : c < bound =>
       /\ unitOf[c] \in 0 .. numTex - 1
       /\ \A d \in Sampler : d < bound /\ c # d => unitOf[c] # unitOf[d]
       /\ (type[c] = "DATA" => source[union[c]] # NoSource) => units[unitOf[c]] = c

\* Ids are free, once, or given to one source.
IdsInv ==
  /\ free \in Seq(Id) /\ IsFiniteSet(WithId)
  /\ SourcesInv

\* The inductive invariant.
IInv == RangesInv /\ MemoryInv /\ UnitsInv /\ IdsInv

\* What is stored: in the union, in the tables and for the units.
KindsInv ==
  /\ union \in [Constant -> {0, UINT16_MAX, Memory} \union Texture \union Id]
  /\ source \in [Id -> Source \union {NoSource}] /\ context \in [Id -> Source \union {NoSource}]
  /\ numTex <= NumConstants
  /\ units \in [Constant -> Constant] /\ unitOf \in [Constant -> Constant]

-----------------------------------------------------------------------------
\* What is known of an id and of the answer of a full table.
LEMMA Ids == /\ MaxSources \in Nat \ {0} /\ UINT32_MAX \notin Id
             /\ \A k \in Id \union {UINT32_MAX} : k < MaxSources <=> k \in Id
             /\ NoSource \notin Source
BY ConstantsAssumption DEF Id

\* What reserving does to a list that is not empty.
LEMMA ReserveTop ==
  ASSUME NEW S, NEW f \in Seq(S), f # <<>>
  PROVE  /\ Reserved(f) = f[Len(f)] /\ Reserved(f) \in S
         /\ AfterReserve(f) \in Seq(S) /\ Len(AfterReserve(f)) = Len(f) - 1
         /\ Len(f) \in Nat \ {0}
         /\ \A j \in 1 .. Len(f) - 1 : AfterReserve(f)[j] = f[j]
<1>1. Len(f) \in Nat \ {0} /\ \A j \in 1 .. Len(f) : f[j] \in S
  BY EmptySeq, ElementOfSeq
<1>2. DEFINE g == SubSeq(f, 1, Len(f) - 1)
<1>3. g \in Seq(S) /\ Len(g) = Len(f) - 1 /\ \A j \in 1 .. Len(f) - 1 : g[j] = f[j]
  BY <1>1, SubSeqProperties
<1>4. AfterReserve(f) = g /\ Reserved(f) = f[Len(f)] /\ f[Len(f)] \in S
  BY <1>1 DEF AfterReserve, Reserved
<1> HIDE DEF g
<1> QED
  BY <1>1, <1>3, <1>4

\* The places of a list of ids are those up to its length.
LEMMA Places == ASSUME NEW f \in Seq(Id) PROVE DOMAIN f = 1 .. Len(f) /\ Len(f) \in Nat
BY LenProperties

\* Nothing is set, registered or bound at first.
LEMMA InitIInv == Init => IInv
<1> SUFFICES ASSUME Init PROVE IInv
  OBVIOUS
<1> USE DEF Init
<1>1. RangesInv
  <2>1. type \in [Constant -> {"SCREEN", "MATRIX", "FLOAT", "INT", "TEX", "DATA"}]
    BY ConstantsAssumption
  <2>2. bound \in -1 .. NumConstants /\ numTex \in Nat
    BY ConstantsAssumption
  <2>3. undefined \in BOOLEAN
    BY Zenon
  <2>4. registered \subseteq Source /\ sourceId \in [Source -> Id \union {UINT32_MAX}]
    BY Ids DEF Id
  <2> QED
    BY <2>1, <2>2, <2>3, <2>4 DEF RangesInv
<1>2. MemoryInv /\ UnitsInv
  <2>1. MemoryInv
    BY DEF MemoryInv
  <2>2. \A c \in Sampler : ~(c < bound)
    BY ConstantsAssumption DEF Sampler, Constant
  <2> QED
    BY <2>1, <2>2 DEF UnitsInv
<1>3. free \in [1 .. MaxSources -> Id] /\ free = [k \in 1 .. MaxSources |-> MaxSources - k]
  BY Ids DEF AllFree, Id
<1>4. free \in Seq(Id)
  BY <1>3, Ids, SeqDef
<1>5. Len(free) = MaxSources
  <2>1. 1 .. Len(free) = 1 .. MaxSources /\ Len(free) \in Nat
    BY <1>3, <1>4, LenProperties
  <2> QED
    BY <2>1, Ids
<1>6. WithId = {} /\ IsFiniteSet({}) /\ Cardinality({}) = 0
  BY FS_EmptySet DEF WithId
<1>7. \A j, k \in DOMAIN free : j # k => free[j] # free[k]
  BY <1>3, Ids
<1>8. SourcesInv
  BY <1>3, <1>4, <1>5, <1>6, <1>7, Ids DEF SourcesInv, WithId
<1> QED
  BY <1>1, <1>2, <1>4, <1>6, <1>8 DEF IInv, IdsInv

-----------------------------------------------------------------------------
\* A step that ends in undefined changes nothing else.
LEMMA UndefinedKeepsIInv == IInv /\ Undefined => IInv'
BY DEF Undefined, IInv, constants, manager, binding, RangesInv, MemoryInv, UnitsInv, Sampler, IdsInv,
       SourcesInv, WithId

\* A script that sets a constant, makes a buffer or lets go of it touches
\* neither the table of sources nor a binding.
LEMMA ScriptKeepsIInv == IInv /\ Script => IInv'
<1> SUFFICES ASSUME IInv, Script PROVE IInv'
  OBVIOUS
<1>a. CASE Undefined
  BY <1>a, UndefinedKeepsIInv
<1> USE DEF IInv
<1>b. CASE ~Undefined
  <2>0. bound = -1 /\ UNCHANGED <<manager, binding, undefined>>
    BY <1>b DEF Script, NewBuffer, FinaliseBuffer, SetNumber, SetTable, WriteFloats, SetTexture,
                SetDataTexture, vars
  <2> USE DEF manager, binding
  <2>1. IdsInv'
    BY <2>0 DEF IdsInv, SourcesInv, WithId
  <2>2. UnitsInv'
    BY <2>0, ConstantsAssumption DEF UnitsInv, Sampler, Constant
  <2>3. CASE NewBuffer
    BY <2>0, <2>1, <2>2, <2>3, ConstantsAssumption DEF NewBuffer, RangesInv, MemoryInv
  <2>4. CASE FinaliseBuffer
    <3>0. /\ block' = [c \in Constant |-> IF dealloc[c] THEN 0 ELSE block[c]]
          /\ buffer = "live" /\ buffer' = "none" /\ UNCHANGED <<type, union, dealloc>>
      BY <1>b, <2>4 DEF FinaliseBuffer
    <3>1. RangesInv'
      BY <2>0, <3>0 DEF RangesInv
    <3>2. \A c \in Constant : block'[c] = 0
      BY <3>0 DEF MemoryInv, RangesInv
    <3> QED
      BY <2>1, <2>2, <3>0, <3>1, <3>2 DEF MemoryInv
  <2>5. ASSUME NEW c \in Constant, NEW n \in Nat \ {0}, NEW m, buffer = "live", WriteFloats(c, n, m)
        PROVE  IInv'
    <3>1. CASE UNCHANGED vars
      BY <3>1 DEF vars, constants, RangesInv, MemoryInv, UnitsInv, Sampler, IdsInv, SourcesInv, WithId
    <3>2. CASE ~(UNCHANGED vars)
      <4>1. /\ union' = [union EXCEPT ![c] = Memory] /\ dealloc' = [dealloc EXCEPT ![c] = TRUE]
            /\ block' = [block EXCEPT ![c] = n] /\ UNCHANGED <<buffer, type>>
        BY <1>b, <2>5, <3>2 DEF WriteFloats
      <4>2. RangesInv'
        BY <2>0, <4>1 DEF RangesInv
      <4>3. MemoryInv'
        BY <2>5, <4>1 DEF MemoryInv, RangesInv
      <4> QED
        BY <2>1, <2>2, <4>2, <4>3
    <3> QED
      BY <3>1, <3>2
  <2>6. ASSUME NEW c \in Constant, NEW n, SetNumber(c) \/ SetTable(c, n) PROVE IInv'
    <3>1. SizeOf[c] \in Nat \ {0}
      BY ConstantsAssumption
    <3> QED
      BY <2>5, <2>6, <3>1 DEF SetNumber, SetTable
  <2>7. ASSUME NEW c \in Constant, NEW name, name # Memory, buffer = "live",
               union' = [union EXCEPT ![c] = name], UNCHANGED <<buffer, dealloc, block>>,
               type' = type \/ type' = [type EXCEPT ![c] = "DATA"]
        PROVE  IInv'
    <3>1. RangesInv'
      BY <2>0, <2>7 DEF RangesInv
    <3>2. MemoryInv'
      BY <2>7 DEF MemoryInv, RangesInv
    <3> QED
      BY <2>1, <2>2, <3>1, <3>2
  <2>8. ASSUME NEW c \in Constant, NEW t \in Texture, SetTexture(c, t) PROVE IInv'
    BY <2>7, <2>8, ConstantsAssumption DEF SetTexture
  <2>9. ASSUME NEW c \in Constant, NEW id \in Id \union {UINT16_MAX}, SetDataTexture(c, id) PROVE IInv'
    <3>1. id # Memory
      BY ConstantsAssumption DEF Id
    <3> QED
      BY <2>7, <2>9, <3>1 DEF SetDataTexture
  <2> QED
    BY <2>3, <2>4, <2>6, <2>8, <2>9 DEF Script
<1> QED
  BY <1>a, <1>b

\* A source takes a free id, if there is one.
LEMMA RegisterKeepsIds == ASSUME IInv, NEW s \in Source, Register(s) PROVE IdsInv'
<1> DEFINE id == Reserved(free)
<1> USE DEF IInv
<1>0. /\ s \notin registered /\ registered' = registered \union {s}
      /\ sourceId' = [sourceId EXCEPT ![s] = id] /\ free' = AfterReserve(free)
      /\ \A r \in registered : sourceId'[r] = sourceId[r]
      /\ sourceId'[s] = id
  BY DEF Register, RangesInv
<1>1. CASE free = <<>>
  <2>1. id = UINT32_MAX /\ free' = free /\ ~(id < MaxSources)
    BY <1>0, <1>1, Ids DEF Reserved, AfterReserve
  <2>2. WithId' = WithId
    <3>1. sourceId'[s] \notin Id
      BY <1>0, <2>1, Ids
    <3> QED
      BY <1>0, <3>1 DEF WithId
  <2>3. UNCHANGED <<source, context>>
    BY <2>1 DEF Register
  <2> QED
    BY <1>0, <2>1, <2>2, <2>3 DEF IdsInv, SourcesInv, WithId
<1>2. CASE free # <<>>
  <2>0. free \in Seq(Id)
    BY DEF IdsInv
  <2>1. /\ id = free[Len(free)] /\ id \in Id /\ free' \in Seq(Id)
        /\ Len(free') = Len(free) - 1 /\ Len(free) \in Nat \ {0}
        /\ \A j \in 1 .. Len(free) - 1 : free'[j] = free[j]
    BY <1>0, <1>2, <2>0, ReserveTop
  <2>2. DOMAIN free = 1 .. Len(free) /\ DOMAIN free' = 1 .. Len(free) - 1
    BY <2>0, <2>1, Places
  <2> HIDE DEF id
  <2>3. source' = [source EXCEPT ![id] = s] /\ context' = [context EXCEPT ![id] = s]
    BY <2>1, Ids DEF Register, id
  <2>4. WithId' = WithId \union {s} /\ s \notin WithId
    <3>1. sourceId'[s] \in Id
      BY <1>0, <2>1
    <3> QED
      BY <1>0, <3>1 DEF WithId
  <2>5. IsFiniteSet(WithId') /\ Cardinality(WithId') = Cardinality(WithId) + 1
    BY <2>4, FS_AddElement DEF IdsInv
  <2>6. Cardinality(WithId) \in Nat
    BY FS_CardinalityType DEF IdsInv
  <2>7. Len(free) + Cardinality(WithId) = MaxSources
    BY DEF IdsInv, SourcesInv, WithId
  <2>8. Len(free') + Cardinality(WithId') = MaxSources
    BY <2>1, <2>5, <2>6, <2>7
  <2>9. \A j, k \in DOMAIN free' : j # k => free'[j] # free'[k]
    BY <2>1, <2>2 DEF IdsInv, SourcesInv
  <2>10. source[id] = NoSource
    BY <2>1, <2>2 DEF IdsInv, SourcesInv
  <2>11. \A r \in WithId' : source'[sourceId'[r]] = r /\ context'[sourceId'[r]] = r
    <3>1. \A r \in WithId : source[sourceId[r]] = r /\ context[sourceId[r]] = r
                            /\ sourceId[r] # id /\ sourceId[r] \in Id
      BY <2>10, Ids DEF IdsInv, SourcesInv, WithId, RangesInv
    <3> QED
      BY <1>0, <2>1, <2>3, <2>4, <3>1 DEF RangesInv, WithId
  <2>12. \A k \in DOMAIN free' : source'[free'[k]] = NoSource /\ context'[free'[k]] = NoSource
    <3>1. \A k \in DOMAIN free' : free'[k] = free[k] /\ free[k] # id /\ k \in DOMAIN free
                                  /\ free[k] \in Id
      BY <2>0, <2>1, <2>2, ElementOfSeq DEF IdsInv, SourcesInv
    <3> QED
      BY <2>3, <3>1 DEF RangesInv, IdsInv, SourcesInv
  <2> QED
    BY <2>1, <2>5, <2>8, <2>9, <2>11, <2>12 DEF IdsInv, SourcesInv, WithId
<1> QED
  BY <1>1, <1>2

\* A source that had an id gives it back; the list of free ids cannot be full.
LEMMA UnregisterKeepsIds == ASSUME IInv, NEW s \in Source, Unregister(s) PROVE IdsInv'
<1> DEFINE id == sourceId[s]
<1> USE DEF IInv
<1>0. s \in registered /\ registered' = registered \ {s} /\ sourceId' = sourceId
      /\ id \in Id \union {UINT32_MAX} /\ free \in Seq(Id)
  BY DEF Unregister, RangesInv, IdsInv
<1>1. CASE id \notin Id
  <2>1. UNCHANGED <<source, context, free>>
    BY <1>0, <1>1, Ids DEF Unregister
  <2>2. WithId' = WithId
    BY <1>0, <1>1 DEF WithId
  <2> QED
    BY <1>0, <2>1, <2>2 DEF IdsInv, SourcesInv, WithId
<1>2. CASE id \in Id
  <2>1. s \in WithId /\ WithId' = WithId \ {s}
    BY <1>0, <1>2 DEF WithId
  <2>2. IsFiniteSet(WithId') /\ Cardinality(WithId') = Cardinality(WithId) - 1
    BY <2>1, FS_RemoveElement DEF IdsInv
  <2>3. Cardinality(WithId) \in Nat /\ Cardinality(WithId') \in Nat
    BY <2>2, FS_CardinalityType DEF IdsInv
  <2>4. Len(free) + Cardinality(WithId) = MaxSources /\ Len(free) \in Nat
    BY <1>0, Places DEF IdsInv, SourcesInv, WithId
  <2>5. Len(free) < MaxSources
    BY <2>2, <2>3, <2>4, Ids
  <2>6. /\ source' = [source EXCEPT ![id] = NoSource] /\ context' = [context EXCEPT ![id] = NoSource]
        /\ free' = Append(free, id)
    BY <1>0, <1>2, <2>5, Ids DEF Unregister, AfterRelease
  <2>7. /\ free' \in Seq(Id) /\ Len(free') = Len(free) + 1
        /\ \A j \in 1 .. Len(free) : free'[j] = free[j]
        /\ free'[Len(free) + 1] = id
    BY <1>0, <1>2, <2>6, AppendProperties
  <2>8. DOMAIN free = 1 .. Len(free) /\ DOMAIN free' = 1 .. Len(free) + 1
    BY <1>0, <2>7, Places
  <2> HIDE DEF id
  <2>9. Len(free') + Cardinality(WithId') = MaxSources
    BY <2>2, <2>3, <2>4, <2>7
  <2>10. source[id] = s
    BY <2>1 DEF IdsInv, SourcesInv, WithId, id
  <2>11. \A j \in DOMAIN free : free[j] # id /\ free[j] \in Id
    BY <1>0, <2>8, <2>10, Ids, ElementOfSeq DEF IdsInv, SourcesInv
  <2>12. \A j, k \in DOMAIN free' : j # k => free'[j] # free'[k]
    <3>1. \A j \in DOMAIN free' : j \in DOMAIN free \/ j = Len(free) + 1
      BY <2>4, <2>8
    <3>2. \A j \in DOMAIN free : free'[j] = free[j]
      BY <2>7, <2>8
    <3> QED
      BY <2>7, <2>11, <3>1, <3>2 DEF IdsInv, SourcesInv
  <2>13. \A r \in WithId' : source'[sourceId'[r]] = r /\ context'[sourceId'[r]] = r
    <3>1. \A r \in WithId' : source[sourceId[r]] = r /\ context[sourceId[r]] = r
                             /\ sourceId[r] # id /\ sourceId[r] \in Id
      BY <2>1, <2>10 DEF IdsInv, SourcesInv, WithId
    <3> QED
      BY <1>0, <2>6, <3>1 DEF RangesInv
  <2>14. \A k \in DOMAIN free' : source'[free'[k]] = NoSource /\ context'[free'[k]] = NoSource
    <3>1. \A j \in DOMAIN free' : j \in DOMAIN free \/ j = Len(free) + 1
      BY <2>4, <2>8
    <3>2. \A j \in DOMAIN free : free'[j] = free[j]
      BY <2>7, <2>8
    <3>3. id \in Id
      BY <1>2 DEF id
    <3> QED
      BY <2>6, <2>7, <2>11, <3>1, <3>2, <3>3 DEF IdsInv, SourcesInv, RangesInv
  <2> QED
    BY <2>2, <2>7, <2>9, <2>12, <2>13, <2>14 DEF IdsInv, SourcesInv, WithId
<1> QED
  BY <1>1, <1>2

\* Between two frames an application registers and unregisters its sources.
LEMMA ApplicationKeepsIInv == IInv /\ Application => IInv'
<1> SUFFICES ASSUME IInv, Application PROVE IInv'
  OBVIOUS
<1> PICK s \in Source : Register(s) \/ Unregister(s)
  BY DEF Application
<1>0. bound = -1 /\ UNCHANGED <<constants, binding, undefined>>
  BY DEF Application, Register, Unregister
<1>1. IdsInv'
  BY RegisterKeepsIds, UnregisterKeepsIds
<1>2. MemoryInv' /\ UnitsInv'
  BY <1>0, ConstantsAssumption
  DEF IInv, constants, binding, MemoryInv, UnitsInv, Sampler, Constant
<1>3. Reserved(free) \in Id \union {UINT32_MAX}
  BY ReserveTop DEF Reserved, IInv, IdsInv
<1>4. RangesInv'
  BY <1>0, <1>3 DEF IInv, RangesInv, Register, Unregister, constants, binding
<1> QED
  BY <1>1, <1>2, <1>4 DEF IInv

\* The loop of kl_effect_manager_bind_effect writes to units at and above the
\* next one only.
LEMMA BindKeepsIInv == IInv /\ Bind => IInv'
<1> SUFFICES ASSUME IInv, Bind PROVE IInv'
  OBVIOUS
<1>a. CASE Undefined
  BY <1>a, UndefinedKeepsIInv
<1> SUFFICES ASSUME ~Undefined PROVE IInv'
  BY <1>a
<1> USE DEF IInv, constants, manager
<1>0. UNCHANGED <<constants, manager, undefined>>
  BY DEF Bind, BeginBind, AssignUniform, AssignTexture, AssignData, EndBind
<1>1. MemoryInv' /\ IdsInv' /\ Sampler' = Sampler
  BY <1>0 DEF MemoryInv, IdsInv, SourcesInv, WithId, Sampler
<1>2. NumConstants \in Nat /\ Constant = 0 .. NumConstants - 1 /\ Sampler \subseteq Constant
  BY ConstantsAssumption DEF Constant, Sampler
<1>3. CASE BeginBind
  BY <1>0, <1>1, <1>2, <1>3 DEF BeginBind, RangesInv, UnitsInv
<1>4. CASE AssignUniform
  <2>1. bound \notin Sampler /\ bound \in Constant /\ bound' = bound + 1
        /\ UNCHANGED <<numTex, units, unitOf>>
    BY <1>4 DEF AssignUniform, Sampler
  <2>2. \A c \in Sampler : c < bound' => c < bound
    BY <1>2, <2>1
  <2>3. UnitsInv'
    <3>1. UNCHANGED <<type, union, source, numTex, units, unitOf>> /\ Sampler' = Sampler
      BY <1>0, <1>1, <2>1
    <3>2. numTex' <= bound'
      BY <1>2, <2>1 DEF UnitsInv, RangesInv
    <3> QED
      BY <2>2, <3>1, <3>2 DEF UnitsInv
  <2> QED
    BY <1>0, <1>1, <1>2, <2>1, <2>3 DEF RangesInv
<1>5. CASE AssignTexture \/ AssignData
  <2>1. /\ bound \in Constant /\ bound' = bound + 1 /\ numTex' = numTex + 1
        /\ unitOf' = [unitOf EXCEPT ![bound] = numTex] /\ numTex \in Constant
        /\ \/ units' = [units EXCEPT ![numTex] = bound]
           \/ units' = units /\ type[bound] = "DATA" /\ source[union[bound]] = NoSource
    BY <1>2, <1>5 DEF AssignTexture, AssignData, RangesInv, UnitsInv
  <2>2. RangesInv'
    BY <1>0, <1>2, <2>1 DEF RangesInv
  <2>3. numTex' <= bound'
    BY <1>2, <2>1 DEF UnitsInv
  <2>4. ASSUME NEW c \in Sampler, c < bound
        PROVE  /\ unitOf'[c] = unitOf[c] /\ unitOf[c] \in 0 .. numTex - 1 /\ unitOf[c] # numTex
               /\ (type[c] = "DATA" => source[union[c]] # NoSource) => units'[unitOf[c]] = c
    BY <1>2, <2>1, <2>4 DEF RangesInv, UnitsInv
  <2>5. unitOf'[bound] = numTex
    BY <2>1 DEF RangesInv
  <2>6. (type[bound] = "DATA" => source[union[bound]] # NoSource) => units'[numTex] = bound
    BY <2>1 DEF RangesInv
  <2>7. \A c \in Sampler : c < bound' => c < bound \/ c = bound
    BY <1>2, <2>1
  <2>8. ASSUME NEW c \in Sampler, c < bound'
        PROVE  /\ unitOf'[c] \in 0 .. numTex' - 1
               /\ (type[c] = "DATA" => source[union[c]] # NoSource) => units'[unitOf'[c]] = c
    BY <1>2, <2>1, <2>4, <2>5, <2>6, <2>7, <2>8 DEF RangesInv
  <2>9. ASSUME NEW c \in Sampler, NEW d \in Sampler, c < bound', d < bound', c # d
        PROVE  unitOf'[c] # unitOf'[d]
    BY <2>4, <2>5, <2>7, <2>9 DEF UnitsInv
  <2>10. UnitsInv'
    BY <1>0, <1>1, <2>3, <2>8, <2>9 DEF UnitsInv
  <2> QED
    BY <1>1, <2>2, <2>10
<1>6. CASE EndBind
  <2>1. bound' = -1 /\ \A c \in Sampler : ~(c < bound')
    BY <1>2, <1>6 DEF EndBind
  <2>2. UnitsInv'
    BY <1>1, <2>1 DEF UnitsInv
  <2> QED
    BY <1>0, <1>1, <1>2, <1>6, <2>1, <2>2 DEF EndBind, RangesInv
<1> QED
  BY <1>3, <1>4, <1>5, <1>6 DEF Bind

\* The script and the application store what the types allow.
LEMMA KindsKept == KindsInv /\ (Script \/ Application) => KindsInv'
<1> SUFFICES ASSUME KindsInv, Script \/ Application PROVE KindsInv'
  OBVIOUS
<1> USE DEF KindsInv
<1>1. CASE Script
  <2>0. UNCHANGED <<manager, binding>>
    BY <1>1 DEF Script, NewBuffer, FinaliseBuffer, SetNumber, SetTable, WriteFloats, SetTexture,
                SetDataTexture, Undefined, vars
  <2>1. union' \in [Constant -> {0, UINT16_MAX, Memory} \union Texture \union Id]
    <3>1. CASE NewBuffer
      BY <3>1 DEF NewBuffer
    <3>2. CASE FinaliseBuffer
      BY <3>2 DEF FinaliseBuffer, Undefined, constants
    <3>3. ASSUME NEW c \in Constant, NEW n, SetNumber(c) \/ SetTable(c, n)
          PROVE  union' = union \/ union' = [union EXCEPT ![c] = Memory]
      BY <3>3 DEF SetNumber, SetTable, WriteFloats, Undefined, constants, vars
    <3>4. ASSUME NEW c \in Constant, NEW t \in Texture, SetTexture(c, t)
          PROVE  union' = [union EXCEPT ![c] = t]
      BY <3>4 DEF SetTexture
    <3>5. ASSUME NEW c \in Constant, NEW id \in Id \union {UINT16_MAX}, SetDataTexture(c, id)
          PROVE  union' = [union EXCEPT ![c] = id]
      BY <3>5 DEF SetDataTexture
    <3> QED
      BY <1>1, <3>1, <3>2, <3>3, <3>4, <3>5 DEF Script
  <2> QED
    BY <2>0, <2>1 DEF manager, binding
<1>2. CASE Application
  <2>1. UNCHANGED <<constants, binding>>
    BY <1>2 DEF Application, Register, Unregister
  <2>2. /\ source' \in [Id -> Source \union {NoSource}]
        /\ context' \in [Id -> Source \union {NoSource}]
    BY <1>2 DEF Application, Register, Unregister
  <2> QED
    BY <2>1, <2>2 DEF constants, binding
<1> QED
  BY <1>1, <1>2

\* A binding has no more units than constants.
LEMMA KindsBound == IInv /\ KindsInv /\ Bind => KindsInv'
<1> SUFFICES ASSUME IInv, KindsInv, Bind PROVE KindsInv'
  OBVIOUS
<1> USE DEF KindsInv
<1>0. UNCHANGED <<constants, manager>>
  BY DEF Bind, BeginBind, AssignUniform, AssignTexture, AssignData, EndBind, Undefined
<1>a. CASE Undefined
  BY <1>0, <1>a DEF Undefined, constants, manager, binding
<1> SUFFICES ASSUME ~Undefined PROVE KindsInv'
  BY <1>a
<1>1. NumConstants \in Nat /\ Constant = 0 .. NumConstants - 1
  BY ConstantsAssumption DEF Constant
<1>2. CASE BeginBind \/ AssignUniform \/ EndBind
  <2>1. (numTex' = 0 \/ numTex' = numTex) /\ UNCHANGED <<units, unitOf>>
    BY <1>2 DEF BeginBind, AssignUniform, EndBind
  <2> QED
    BY <1>0, <1>1, <2>1 DEF constants, manager
<1>3. CASE AssignTexture \/ AssignData
  <2>1. /\ bound \in Constant /\ numTex \in Nat /\ numTex <= bound
    BY <1>1, <1>3 DEF AssignTexture, AssignData, IInv, RangesInv, UnitsInv
  <2>2. /\ numTex' = numTex + 1
        /\ unitOf' = [unitOf EXCEPT ![bound] = numTex]
        /\ units' = [units EXCEPT ![numTex] = bound] \/ units' = units
    BY <1>3 DEF AssignTexture, AssignData
  <2>3. numTex \in Constant /\ numTex' <= NumConstants
    BY <1>1, <2>1, <2>2
  <2> QED
    BY <1>0, <2>1, <2>2, <2>3 DEF constants, manager
<1> QED
  BY <1>2, <1>3 DEF Bind

\* The inductive invariant holds in every reachable state.
THEOREM Invariance == Spec => []IInv
<1>1. IInv /\ UNCHANGED vars => IInv'
  BY DEF IInv, vars, constants, manager, binding, RangesInv, MemoryInv, UnitsInv, Sampler, IdsInv,
         SourcesInv, WithId
<1>2. IInv /\ [Next]_vars => IInv'
  BY <1>1, ScriptKeepsIInv, ApplicationKeepsIInv, BindKeepsIInv DEF Next, Lost
<1> QED
  BY <1>2, InitIInv, PTL DEF Spec

\* What a constant holds, the table of sources and the texture units keep to
\* their types: whatever is set, no unit is told past the effect's constants.
THEOREM StoredKinds == Spec => []KindsInv
<1>1. Init => KindsInv
  <2> SUFFICES ASSUME Init PROVE KindsInv
    OBVIOUS
  <2>1. NumConstants \in Nat /\ (\A c \in Constant : 0 \in Constant)
    BY ConstantsAssumption DEF Constant
  <2> QED
    BY <2>1 DEF Init, KindsInv
<1>2. IInv /\ KindsInv /\ [Next]_vars => KindsInv'
  BY KindsKept, KindsBound DEF Next, Lost, vars, constants, manager, binding, KindsInv
<1> QED
  BY <1>1, <1>2, Invariance, PTL DEF Spec

\* Every variable keeps to its type.
THEOREM TypeCorrectness == Spec => []TypeOK
<1>1. IInv /\ KindsInv => TypeOK
  <2> SUFFICES ASSUME IInv, KindsInv PROVE TypeOK
    OBVIOUS
  <2>1. \A k \in DOMAIN free : free[k] \in Id
    BY Places, ElementOfSeq DEF IInv, IdsInv
  <2>2. numTex \in 0 .. NumConstants
    BY ConstantsAssumption DEF IInv, RangesInv, KindsInv
  <2> QED
    BY <2>1, <2>2 DEF IInv, RangesInv, KindsInv, TypeOK
<1> QED
  BY <1>1, Invariance, StoredKinds, PTL

\* ConstantBuffer_gc frees what its constants allocated, and nothing else.
THEOREM MemoryHasOneOwner == Spec => []MemoryOwned
<1>1. IInv => MemoryOwned
  BY ConstantsAssumption DEF IInv, RangesInv, MemoryInv, MemoryOwned
<1> QED
  BY <1>1, Invariance, PTL

\* No two samplers of an effect share a texture unit, also with data sources
\* that are gone.
THEOREM SamplersHaveTheirUnits == Spec => []UnitsApart
<1>1. IInv => UnitsApart
  <2> SUFFICES ASSUME IInv, bound = NumConstants PROVE UnitsApart
    BY DEF UnitsApart
  <2>1. \A c \in Sampler : c < bound
    BY ConstantsAssumption DEF Sampler, Constant
  <2> QED
    BY <2>1 DEF IInv, UnitsInv, UnitsApart
<1> QED
  BY <1>1, Invariance, PTL

\* The ids of data sources are never lost, nor given twice, full table or not.
THEOREM SourcesKeepTheirIds == Spec => []SourcesInv
<1>1. IInv => SourcesInv
  BY DEF IInv, IdsInv
<1> QED
  BY <1>1, Invariance, PTL
=============================================================================
