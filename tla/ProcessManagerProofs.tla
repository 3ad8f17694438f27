------------------------ MODULE ProcessManagerProofs ------------------------
(* Proofs about the process manager, for every number of ids and every set  *)
(* of at most that many processes.                                          *)
EXTENDS ProcessManager, FunctionTheorems, FiniteSetTheorems, SequenceTheorems, TLAPS

-----------------------------------------------------------------------------
(* The free list *)

\* What reserving does to a list that is not empty.
LEMMA ReserveTop ==
  ASSUME NEW S, NEW f \in Seq(S), f # <<>>
  PROVE  /\ Reserved(f) = f[Len(f)] /\ Reserved(f) \in S
         /\ AfterReserve(f) \in Seq(S)
         /\ Len(AfterReserve(f)) = Len(f) - 1
         /\ Len(f) \in Nat \ {0}
         /\ \A j \in 1 .. Len(f) - 1 : AfterReserve(f)[j] = f[j]
<1>1. Len(f) \in Nat \ {0} /\ \A j \in 1 .. Len(f) : f[j] \in S
  BY EmptySeq, ElementOfSeq
<1>2. DEFINE g == SubSeq(f, 1, Len(f) - 1)
<1>3. /\ g \in Seq(S)
      /\ Len(g) = Len(f) - 1
      /\ \A j \in 1 .. Len(f) - 1 : g[j] = f[j]
  BY <1>1, SubSeqProperties
<1>4. AfterReserve(f) = g
  BY DEF AfterReserve
<1>5. Reserved(f) = f[Len(f)] /\ f[Len(f)] \in S
  BY <1>1 DEF Reserved
<1>. HIDE DEF g
<1>. QED  BY <1>1, <1>3, <1>4, <1>5

\* What releasing does to a list that is not full.
LEMMA ReleasePush ==
  ASSUME NEW S, NEW f \in Seq(S), NEW x \in S, NEW n \in Nat, Len(f) < n
  PROVE  /\ AfterRelease(f, n, x) \in Seq(S)
         /\ Len(AfterRelease(f, n, x)) = Len(f) + 1
         /\ \A j \in 1 .. Len(f) : AfterRelease(f, n, x)[j] = f[j]
         /\ AfterRelease(f, n, x)[Len(f) + 1] = x
         /\ Len(f) \in Nat
BY AppendProperties DEF AfterRelease

\* There are as many ids as the manager was made for.
LEMMA IdCount == IsFiniteSet(Id) /\ Cardinality(Id) = NumProcesses
<1>1. 0 \in Int /\ NumProcesses - 1 \in Int /\ ~(0 > NumProcesses - 1)
  BY NumProcessesAssumption
<1>2. IsFiniteSet(0 .. NumProcesses - 1)
      /\ Cardinality(0 .. NumProcesses - 1) = (NumProcesses - 1) - 0 + 1
  BY <1>1, FS_Interval
<1>. QED  BY <1>2, NumProcessesAssumption DEF Id

\* A process that holds no id finds one free: were all of them held, there would
\* be as many processes as ids besides this one.
LEMMA SomeIdFree ==
  ASSUME FewProcesses, TypeOK, NoneLost, NEW p \in Process, p \notin registered
  PROVE  free # <<>>
<1>. SUFFICES ASSUME free = <<>> PROVE FALSE
  OBVIOUS
<1>. DEFINE idOf == [q \in registered |-> pid[q]]
<1>1. IsFiniteSet(registered) /\ Cardinality(registered) < Cardinality(Process)
  <2>1. registered \in SUBSET Process
    BY DEF TypeOK
  <2>2. IsFiniteSet(registered) /\ Cardinality(registered) <= Cardinality(Process)
        /\ (Cardinality(Process) = Cardinality(registered) => Process = registered)
    BY <2>1, FS_Subset DEF FewProcesses
  <2>3. Cardinality(registered) \in Nat /\ Cardinality(Process) \in Nat
    BY <2>2, FS_CardinalityType DEF FewProcesses
  <2>. QED  BY <2>2, <2>3
<1>2. idOf \in [registered -> Id]
  BY DEF TypeOK
<1>3. \A id \in Id : \E q \in registered : idOf[q] = id
  BY DEF NoneLost
<1>4. idOf \in Surjection(registered, Id)
  BY <1>2, <1>3, Fun_IsSurj
<1>5. Cardinality(Id) <= Cardinality(registered)
  <2>. HIDE DEF idOf
  <2>. QED  BY <1>1, <1>4, FS_Surjection
<1>6. Cardinality(registered) \in Nat /\ Cardinality(Process) \in Nat
  BY <1>1, FS_CardinalityType DEF FewProcesses
<1>. QED  BY <1>1, <1>5, <1>6, IdCount, NumProcessesAssumption DEF FewProcesses

\* As long as a process holds an id the free list is not full, so that the
\* release does not lose it.
LEMMA FreeNotFull ==
  ASSUME TypeOK, FreeInv, NEW p \in registered
  PROVE  Len(free) < NumProcesses
<1>. DEFINE Others == Id \ {pid[p]}
            Index == 1 .. Len(free)
<1>1. Len(free) \in Nat /\ free \in [Index -> Id]
  BY LenProperties DEF TypeOK
<1>2. pid[p] \in Id
  BY DEF TypeOK
<1>3. free \in [Index -> Others]
  BY <1>1 DEF FreeInv
<1>4. \A j, k \in Index : free[j] = free[k] => j = k
  BY DEF FreeInv
<1>5. free \in Injection(Index, Others)
  BY <1>3, <1>4, Fun_IsInj
<1>6. IsFiniteSet(Others) /\ Cardinality(Others) = NumProcesses - 1
  BY <1>2, IdCount, FS_RemoveElement
<1>7. Cardinality(Index) <= Cardinality(Others)
  <2>. HIDE DEF Index, Others
  <2>. QED  BY <1>5, <1>6, FS_Injection
<1>8. Cardinality(Index) = Len(free)
  <2>1. 1 \in Int /\ Len(free) \in Int
    BY <1>1
  <2>2. Cardinality(1 .. Len(free)) = IF 1 > Len(free) THEN 0 ELSE Len(free) - 1 + 1
    BY <2>1, FS_Interval
  <2>. QED  BY <1>1, <2>2
<1>. QED
  <2>. HIDE DEF Index, Others
  <2>. QED  BY <1>1, <1>6, <1>7, <1>8, NumProcessesAssumption

-----------------------------------------------------------------------------
(* The inductive invariant *)

\* A new process manager satisfies the invariant.
LEMMA InitInv == Init => IInv
<1>. SUFFICES ASSUME Init PROVE IInv
  OBVIOUS
<1>. USE DEF Init
<1>1. /\ free \in Seq(Id)
      /\ Len(free) = NumProcesses
      /\ \A k \in 1 .. NumProcesses : free[k] = NumProcesses - k
  <2>1. free = [k \in 1 .. NumProcesses |-> NumProcesses - k]
    BY DEF AllFree
  <2>2. \A k \in 1 .. NumProcesses : NumProcesses - k \in Id
    BY NumProcessesAssumption DEF Id
  <2>3. free \in [1 .. NumProcesses -> Id]
    BY <2>1, <2>2
  <2>4. free \in Seq(Id)
    BY <2>3, NumProcessesAssumption, SeqDef
  <2>5. Len(free) = NumProcesses
    <3>1. 1 .. Len(free) = 1 .. NumProcesses /\ Len(free) \in Nat
      BY <2>1, <2>4, LenProperties
    <3>. QED  BY <3>1, NumProcessesAssumption
  <2>. QED  BY <2>1, <2>4, <2>5
<1>2. TypeOK
  BY <1>1, NumProcessesAssumption DEF TypeOK, Id, NoCalls
<1>3. FreeInv /\ IdsUnique
  BY <1>1, NumProcessesAssumption DEF FreeInv, IdsUnique
<1>4. NoneLost
  <2>1. ASSUME NEW id \in Id PROVE \E j \in 1 .. Len(free) : free[j] = id
    <3>1. NumProcesses - id \in 1 .. Len(free) /\ free[NumProcesses - id] = id
      BY <1>1, NumProcessesAssumption DEF Id
    <3>. QED  BY <3>1
  <2>. QED  BY <2>1 DEF NoneLost
<1>5. TablesInv /\ WalkInv
  BY DEF TablesInv, WalkInv
<1>. QED  BY <1>2, <1>3, <1>4, <1>5 DEF IInv

\* Reserving keeps the invariant: the id was nobody's.
LEMMA ReserveInv ==
  ASSUME FewProcesses, IInv,
         NEW p \in Process, NEW ticks \in BOOLEAN, NEW advances \in BOOLEAN,
         Reserve(p, ticks, advances)
  PROVE  IInv'
<1>. USE DEF IInv
<1>. DEFINE id == Reserved(free)
<1>1. p \notin registered /\ free # <<>> /\ free \in Seq(Id)
  BY SomeIdFree DEF Reserve, TypeOK
<1>2. /\ id = free[Len(free)] /\ id \in Id
      /\ free' \in Seq(Id) /\ Len(free') = Len(free) - 1 /\ Len(free) \in Nat \ {0}
      /\ \A j \in 1 .. Len(free) - 1 : free'[j] = free[j]
  BY <1>1, ReserveTop DEF Reserve
<1>3. /\ \A j \in 1 .. Len(free') : free'[j] # id
      /\ \A q \in registered : pid[q] # id
  BY <1>2 DEF FreeInv
<1>4. /\ registered' = registered \cup {p} /\ pid' = [pid EXCEPT ![p] = id]
      /\ advance' = [advance EXCEPT ![id] = IF advances THEN p ELSE NoProcess]
      /\ tick' = [tick EXCEPT ![id] = IF ticks THEN p ELSE NoProcess]
      /\ context' = [context EXCEPT ![id] = p]
      /\ maxId' = IF id > maxId THEN id ELSE maxId
      /\ UNCHANGED <<main, kind, i, steady, called>>
      /\ main \in {"rest", "call"}
  BY <1>2 DEF Reserve, Put, InClient
<1>. HIDE DEF id
<1>5. TypeOK'
  BY <1>2, <1>4 DEF TypeOK
<1>6. FreeInv'
  BY <1>1, <1>2, <1>3, <1>4 DEF FreeInv, TypeOK
<1>7. IdsUnique'
  BY <1>1, <1>3, <1>4 DEF IdsUnique, TypeOK
<1>8. NoneLost'
  <2>1. ASSUME NEW x \in Id, x # id
        PROVE  \/ \E j \in 1 .. Len(free') : free'[j] = x
               \/ \E q \in registered' : pid'[q] = x
    <3>1. CASE \E q \in registered : pid[q] = x
      BY <3>1, <1>1, <1>4 DEF TypeOK
    <3>2. ASSUME NEW j \in 1 .. Len(free), free[j] = x
          PROVE  \E k \in 1 .. Len(free') : free'[k] = x
      <4>1. j # Len(free)
        BY <3>2, <2>1, <1>2
      <4>2. j \in 1 .. Len(free') /\ free'[j] = x
        BY <4>1, <3>2, <1>2
      <4>. QED  BY <4>2
    <3>. QED  BY <3>1, <3>2 DEF NoneLost
  <2>2. p \in registered' /\ pid'[p] = id
    BY <1>4 DEF TypeOK
  <2>. QED  BY <2>1, <2>2 DEF NoneLost
<1>9. TablesInv'
  <2>1. ASSUME NEW q \in registered' PROVE context'[pid'[q]] = q /\ pid'[q] <= maxId'
    BY <1>1, <1>2, <1>3, <1>4 DEF TablesInv, TypeOK, Id
  <2>2. ASSUME NEW x \in Id
        PROVE  /\ context'[x] # NoProcess => context'[x] \in registered' /\ pid'[context'[x]] = x
               /\ tick'[x] \in {NoProcess, context'[x]}
               /\ advance'[x] \in {NoProcess, context'[x]}
    <3>1. CASE x = id
      BY <3>1, <1>2, <1>4 DEF TypeOK
    <3>2. CASE x # id
      <4>1. context[x] # p
        BY <1>1, NoProcessAssumption DEF TablesInv, TypeOK
      <4>. QED  BY <3>2, <4>1, <1>2, <1>4 DEF TablesInv, TypeOK
    <3>. QED  BY <3>1, <3>2
  <2>. QED  BY <2>1, <2>2 DEF TablesInv
<1>10. WalkInv'
  <2>1. \A q \in steady : q \in registered /\ pid'[q] = pid[q] /\ pid[q] # id
    BY <1>1, <1>3, <1>4 DEF TypeOK
  <2>2. \A q \in steady : Walked'[pid'[q]] = Walked[pid[q]]
    BY <2>1, <1>2, <1>4 DEF Walked, TypeOK
  <2>. QED  BY <2>1, <2>2, <1>4 DEF WalkInv
<1>. QED  BY <1>5, <1>6, <1>7, <1>8, <1>9, <1>10

\* Releasing keeps the invariant: the id goes back to the free list.
LEMMA ReleaseInv ==
  ASSUME IInv, NEW p \in Process, Release(p)
  PROVE  IInv'
<1>. USE DEF IInv
<1>. DEFINE id == pid[p]
<1>1. p \in registered /\ id \in Id /\ free \in Seq(Id) /\ Len(free) < NumProcesses
      /\ NumProcesses \in Nat
  BY FreeNotFull, NumProcessesAssumption DEF Release, TypeOK
<1>2. /\ free' \in Seq(Id) /\ Len(free') = Len(free) + 1 /\ Len(free) \in Nat
      /\ \A j \in 1 .. Len(free) : free'[j] = free[j]
      /\ free'[Len(free) + 1] = id
  <2>1. free' = AfterRelease(free, NumProcesses, id)
    BY DEF Release
  <2>. HIDE DEF id
  <2>. QED  BY <1>1, <2>1, ReleasePush
<1>3. /\ registered' = registered \ {p}
      /\ advance' = [advance EXCEPT ![id] = NoProcess]
      /\ tick' = [tick EXCEPT ![id] = NoProcess]
      /\ context' = [context EXCEPT ![id] = NoProcess]
      /\ steady' = steady \ {p}
      /\ UNCHANGED <<maxId, pid, main, kind, i, called>>
      /\ main \in {"rest", "call"}
  BY <1>1 DEF Release, Put, InClient
<1>4. \A q \in registered' : q \in registered /\ pid[q] # id
  BY <1>1, <1>3 DEF IdsUnique
<1>. HIDE DEF id
<1>5. TypeOK'
  BY <1>1, <1>2, <1>3 DEF TypeOK
<1>6. FreeInv'
  <2>1. \A j \in 1 .. Len(free') : j \in 1 .. Len(free) \/ j = Len(free) + 1
    BY <1>2
  <2>2. \A j \in 1 .. Len(free) : free[j] # id
    BY <1>1 DEF FreeInv, id
  <2>3. \A j, k \in 1 .. Len(free') : free'[j] = free'[k] => j = k
    BY <2>1, <2>2, <1>2 DEF FreeInv
  <2>4. \A j \in 1 .. Len(free'), q \in registered' : free'[j] # pid'[q]
    BY <2>1, <1>2, <1>3, <1>4 DEF FreeInv
  <2>. QED  BY <2>3, <2>4 DEF FreeInv
<1>7. IdsUnique'
  BY <1>3, <1>4 DEF IdsUnique
<1>8. NoneLost'
  <2>1. ASSUME NEW x \in Id
        PROVE  \/ \E j \in 1 .. Len(free') : free'[j] = x
               \/ \E q \in registered' : pid'[q] = x
    <3>1. ASSUME NEW j \in 1 .. Len(free), free[j] = x
          PROVE  \E k \in 1 .. Len(free') : free'[k] = x
      <4>1. j \in 1 .. Len(free') /\ free'[j] = x
        BY <3>1, <1>2
      <4>. QED  BY <4>1
    <3>2. CASE x = id
      <4>1. Len(free) + 1 \in 1 .. Len(free')
        BY <1>2
      <4>. QED  BY <4>1, <3>2, <1>2
    <3>3. CASE x # id /\ \E q \in registered : pid[q] = x
      BY <3>3, <1>3 DEF id
    <3>. QED  BY <3>1, <3>2, <3>3 DEF NoneLost
  <2>. QED  BY <2>1 DEF NoneLost
<1>9. TablesInv'
  <2>1. ASSUME NEW q \in registered' PROVE context'[pid'[q]] = q /\ pid'[q] <= maxId'
    BY <1>1, <1>3, <1>4 DEF TablesInv, TypeOK
  <2>2. ASSUME NEW x \in Id
        PROVE  /\ context'[x] # NoProcess => context'[x] \in registered' /\ pid'[context'[x]] = x
               /\ tick'[x] \in {NoProcess, context'[x]}
               /\ advance'[x] \in {NoProcess, context'[x]}
    <3>1. CASE x = id
      BY <3>1, <1>1, <1>3 DEF TypeOK
    <3>2. CASE x # id
      BY <3>2, <1>1, <1>3 DEF TablesInv, TypeOK, id
    <3>. QED  BY <3>1, <3>2
  <2>. QED  BY <2>1, <2>2 DEF TablesInv
<1>10. WalkInv'
  <2>1. \A q \in steady' : q \in steady /\ pid[q] \in Id /\ pid[q] # id
    BY <1>3, <1>4 DEF TypeOK
  <2>2. \A q \in steady' : Walked'[pid'[q]] = Walked[pid[q]]
    BY <2>1, <1>3 DEF Walked, TypeOK
  <2>. QED  BY <2>1, <2>2, <1>3 DEF WalkInv
<1>. QED  BY <1>5, <1>6, <1>7, <1>8, <1>9, <1>10

\* What the walk leaves alone.
LEMMA TablesKept ==
  ASSUME FreeInv, IdsUnique, NoneLost, TablesInv, UNCHANGED tables
  PROVE  FreeInv' /\ IdsUnique' /\ NoneLost' /\ TablesInv'
BY DEF tables, FreeInv, IdsUnique, NoneLost, TablesInv

\* A step of the main loop keeps the invariant.
LEMMA WalkStepInv ==
  ASSUME IInv,
         BeginIteration \/ BeginWalk("tick") \/ BeginWalk("advance") \/ Walk
  PROVE  IInv'
<1>. USE DEF IInv
<1>1. FreeInv' /\ IdsUnique' /\ NoneLost' /\ TablesInv'
  BY TablesKept DEF BeginIteration, BeginWalk, Walk, Skip, Call, Return, EndWalk
<1>2. CASE BeginIteration
  BY <1>1, <1>2 DEF BeginIteration, tables, TypeOK, WalkInv
<1>3. ASSUME NEW k \in {"tick", "advance"}, BeginWalk(k) PROVE IInv'
  <2>1. TypeOK'
    BY <1>3, NumProcessesAssumption DEF BeginWalk, tables, TypeOK, NoCalls
  <2>2. WalkInv'
    <3>1. \A p \in registered : pid[p] \in Nat
      BY DEF TypeOK, Id
    <3>. QED
      BY <3>1, <1>3, NumProcessesAssumption DEF BeginWalk, tables, TypeOK, WalkInv, NoCalls, Walked, Id
  <2>. QED  BY <1>1, <2>1, <2>2
<1>4. CASE Skip
  <2>1. TypeOK'
    BY <1>4, NumProcessesAssumption DEF Skip, tables, TypeOK, Id
  <2>2. ASSUME NEW p \in steady
        PROVE  called[p] = IF Walked[pid[p]] = p /\ pid[p] < i + 1 THEN 1 ELSE 0
    <3>1. p # NoProcess /\ pid[p] \in Nat /\ i \in Nat
      BY <1>4, NoProcessAssumption DEF Skip, TypeOK, Id
    <3>. QED  BY <3>1, <1>4 DEF Skip, WalkInv
  <2>3. WalkInv'
    BY <2>2, <1>4 DEF Skip, tables, WalkInv, Walked
  <2>. QED  BY <1>1, <2>1, <2>3
<1>5. CASE Call
  <2>1. Walked[i] \in registered /\ pid[Walked[i]] = i /\ i \in Id
    BY <1>5 DEF Call, Walked, TablesInv, TypeOK
  <2>2. TypeOK'
    BY <1>5, <2>1 DEF Call, tables, TypeOK
  <2>3. ASSUME NEW p \in steady
        PROVE  called'[p] = IF Walked[pid[p]] = p /\ (pid[p] < i \/ pid[p] = i) THEN 1 ELSE 0
    <3>1. p \in registered /\ p \in Process /\ pid[p] \in Nat /\ i \in Nat
      BY <2>1 DEF TypeOK, Id
    <3>2. CASE p = Walked[i]
      BY <3>1, <3>2, <2>1, <1>5 DEF Call, WalkInv, TypeOK
    <3>3. CASE p # Walked[i]
      BY <3>1, <3>3, <2>1, <1>5 DEF Call, WalkInv, TypeOK
    <3>. QED  BY <3>2, <3>3
  <2>4. WalkInv'
    BY <2>1, <2>3, <1>5 DEF Call, tables, WalkInv, Walked
  <2>. QED  BY <1>1, <2>2, <2>4
<1>6. CASE Return
  <2>1. i \in Id /\ i \in Nat
    BY <1>6 DEF Return, WalkInv, Id
  <2>2. TypeOK'
    BY <1>6, <2>1, NumProcessesAssumption DEF Return, tables, TypeOK, Id
  <2>3. ASSUME NEW p \in steady
        PROVE  called[p] = IF Walked[pid[p]] = p /\ pid[p] < i + 1 THEN 1 ELSE 0
    <3>1. pid[p] \in Nat
      BY DEF TypeOK, Id
    <3>. QED  BY <3>1, <2>1, <1>6 DEF Return, WalkInv
  <2>4. WalkInv'
    BY <2>3, <1>6 DEF Return, tables, WalkInv, Walked
  <2>. QED  BY <1>1, <2>2, <2>4
<1>7. CASE EndWalk
  BY <1>1, <1>7 DEF EndWalk, tables, TypeOK, WalkInv
<1>. QED  BY <1>2, <1>3, <1>4, <1>5, <1>6, <1>7 DEF Walk

\* The invariant is inductive.
LEMMA NextInv == FewProcesses /\ IInv /\ [Next]_vars => IInv'
<1>. SUFFICES ASSUME FewProcesses, IInv, [Next]_vars PROVE IInv'
  OBVIOUS
<1>1. CASE Client
  BY <1>1, ReserveInv, ReleaseInv DEF Client
<1>2. CASE BeginIteration \/ BeginWalk("tick") \/ BeginWalk("advance") \/ Walk
  BY <1>2, WalkStepInv
<1>3. CASE UNCHANGED vars
  BY <1>3 DEF vars, IInv, TypeOK, FreeInv, IdsUnique, NoneLost, TablesInv, WalkInv, Walked
<1>. QED  BY <1>1, <1>2, <1>3 DEF Next

-----------------------------------------------------------------------------
(* The theorems *)

\* The process manager's ids, tables and walk stay consistent, whatever the
\* callbacks reserve and release while the main loop walks the tables.
THEOREM Invariance == ASSUME FewProcesses PROVE Spec => []IInv
<1>1. IInv /\ [Next]_vars => IInv'
  BY NextInv
<1>. QED  BY <1>1, InitInv, PTL DEF Spec

\* The ids, the slots and the place of the walk keep to their ranges, those
\* that callbacks give and take included.
THEOREM TypeCorrectness == ASSUME FewProcesses PROVE Spec => []TypeOK
<1>1. IInv => TypeOK
  BY DEF IInv
<1>. QED  BY <1>1, Invariance, PTL

\* When a walk ends, every process registered throughout it has had its
\* function called once.
THEOREM EveryoneCalledOnce == ASSUME FewProcesses PROVE Spec => CalledOnce
<1>1. IInv /\ [Next]_vars =>
        [main = "walk" /\ main' \in {"simulate", "rest"} =>
           \A p \in steady : called[p] = IF Walked[pid[p]] = p THEN 1 ELSE 0]_vars
  <2>. SUFFICES ASSUME IInv, Next, main = "walk", main' \in {"simulate", "rest"},
                       NEW p \in steady
                PROVE  called[p] = IF Walked[pid[p]] = p THEN 1 ELSE 0
    OBVIOUS
  <2>1. EndWalk
    BY DEF Next, Client, Reserve, Release, InClient, BeginIteration, BeginWalk,
       Walk, Skip, Call, Return
  <2>2. pid[p] <= maxId /\ pid[p] \in Nat /\ maxId \in Nat /\ i \in Nat
    BY DEF IInv, TypeOK, TablesInv, Id
  <2>. QED  BY <2>1, <2>2 DEF EndWalk, IInv, WalkInv
<1>. QED  BY <1>1, Invariance, PTL DEF Spec, CalledOnce

\* The walk calls registered processes only, each with its own context.
THEOREM OnlyRegisteredCalled == ASSUME FewProcesses PROVE Spec => CallsRegistered
<1>1. IInv /\ [Next]_vars =>
        [main = "walk" /\ main' = "call"
           => Walked[i] \in registered /\ context[i] = Walked[i]]_vars
  <2>. SUFFICES ASSUME IInv, Next, main = "walk", main' = "call"
                PROVE  Walked[i] \in registered /\ context[i] = Walked[i]
    OBVIOUS
  <2>1. Call
    BY DEF Next, Client, Reserve, Release, InClient, BeginIteration, BeginWalk,
       Walk, Skip, Return, EndWalk
  <2>. QED  BY <2>1 DEF Call, IInv, Walked, TablesInv, TypeOK
<1>. QED  BY <1>1, Invariance, PTL DEF Spec, CallsRegistered
=============================================================================
