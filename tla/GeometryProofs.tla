---------------------------- MODULE GeometryProofs ----------------------------
(***************************************************************************)
(* The pass over the particles and the streams it moves them in, for every *)
(* number of particles and every dt; and the arrays and buffers of a mesh, *)
(* for all numbers of vertices and all lists of faces.                     *)
(***************************************************************************)
EXTENDS Particles, Mesh, SequenceTheorems, FiniteSetTheorems, FunctionTheorems, TLAPS

\* In the middle of a pass: particles before the index were advanced, those
\* from the index on are as they were, and what is gone was over.
PassInv ==
  main = "pass" =>
    /\ i <= num + 1
    /\ \A k \in Particle : k < i /\ k < num =>
         /\ before[pos[k]] # Gone /\ before[pos[k]] <= life[pos[k]]
         /\ time[k] = before[pos[k]] + dt
         /\ moved[pos[k]] = IF advanceFn = "constant" THEN 0 ELSE 1
    /\ \A k \in Particle : k >= i /\ k < num =>
         /\ before[pos[k]] # Gone /\ time[k] = before[pos[k]] /\ moved[pos[k]] = 0
         /\ time[k] + dt <= MaxTime
    /\ \A p \in Particle :
         p \in Live \/ before[p] = Gone \/ before[p] > life[p]

\* The inductive invariant.
IInv == TypeOK /\ StreamsTogether /\ PassInv

-----------------------------------------------------------------------------
\* What the assumptions say of the constants.
LEMMA Constants ==
  /\ Emitted \in Nat /\ Emitted > 0 /\ MaxTime \in Nat /\ INFINITY \in Nat
  /\ Capacity \subseteq Nat /\ Life \subseteq Nat /\ Dt \subseteq Nat
BY CapacityAssumption, TimeAssumption

\* Nothing is allocated at first.
LEMMA InitIInv == Init => IInv
BY Constants DEF Init, IInv, TypeOK, StreamsTogether, PassInv, Particle, Gone

\* No two slots are of one particle, whichever is named first.
LEMMA SlotsApart ==
  ASSUME TypeOK, StreamsTogether, NEW k \in Particle, NEW l \in Particle, k < num, l < num, k # l
  PROVE  pos[k] # pos[l]
<1>1. k \in Int /\ l \in Int
  BY Constants DEF Particle
<1>2. k < l \/ l < k
  BY <1>1
<1> QED
  BY <1>2 DEF StreamsTogether

-----------------------------------------------------------------------------
\* Between two iterations the application may do all that Application offers.
LEMMA ApplicationKeepsIInv == IInv /\ Application => IInv'
<1> SUFFICES ASSUME IInv, Application PROVE IInv'
  OBVIOUS
<1> USE DEF IInv, system, simulation, renderer, pass
<1>0. main = "rest" /\ main' # "pass" /\ PassInv'
  BY DEF Application, PassInv, AllocSystem, AllocSmallSystem, FreeSystem, SetLifespan,
         AllocSimulation, SetAdvanceFn, FreeSimulation, AllocRenderer, FreeRenderer,
         SetSystem, AssignSystem
<1>1. ASSUME NEW m \in Capacity, AllocSystem(m) PROVE IInv'
  <2>1. m \in Nat /\ Emitted <= m /\ m # 0
    BY <1>1, Constants DEF AllocSystem
  <2>2. TypeOK'
    <3>1. pos' \in [Particle -> Particle] /\ vel' \in [Particle -> Particle]
      BY <1>1 DEF AllocSystem
    <3>2. span' \in [Particle -> Nat] /\ life' \in [Particle -> Nat]
      BY <1>1, Constants DEF AllocSystem
    <3>3. time' \in [Particle -> 0 .. MaxTime]
      BY <1>1, Constants DEF AllocSystem
    <3>4. max' \in Capacity \union {0} /\ num' \in 0 .. Emitted /\ max' # 0
      BY <1>1, <2>1, Constants DEF AllocSystem
    <3> QED
      BY <1>0, <1>1, <3>1, <3>2, <3>3, <3>4 DEF AllocSystem, TypeOK
  <2>3. StreamsTogether'
    BY <1>1, Constants DEF AllocSystem, StreamsTogether, TypeOK, Particle
  <2> QED
    BY <1>0, <2>2, <2>3
<1>2. CASE FreeSystem
  <2>1. TypeOK'
    BY <1>0, <1>2, Constants DEF FreeSystem, TypeOK
  <2>2. StreamsTogether'
    <3>1. \A k \in Particle : ~(k < num')
      BY <1>2, Constants DEF FreeSystem, Particle
    <3> QED
      BY <3>1 DEF StreamsTogether
  <2> QED
    BY <1>0, <2>1, <2>2
<1>3. ASSUME NEW k \in Particle, NEW l \in Life, SetLifespan(k, l) PROVE IInv'
  <2>1. TypeOK'
    BY <1>0, <1>3, Constants DEF SetLifespan, TypeOK
  <2>2. StreamsTogether'
    <3>1. k < num /\ pos[k] \in Particle /\ UNCHANGED <<num, pos, vel>>
      BY <1>3 DEF SetLifespan, TypeOK
    <3>2. span'[k] = l /\ life'[pos[k]] = l
      BY <1>3, <3>1 DEF SetLifespan, TypeOK
    <3>3. ASSUME NEW j \in Particle, j < num, j # k PROVE span'[j] = life'[pos[j]]
      <4>1. pos[j] # pos[k] /\ pos[j] \in Particle
        BY <3>1, <3>3, SlotsApart DEF TypeOK
      <4>2. span'[j] = span[j] /\ life'[pos[j]] = life[pos[j]]
        BY <1>3, <3>1, <3>3, <4>1 DEF SetLifespan, TypeOK
      <4> QED
        BY <3>3, <4>2 DEF StreamsTogether
    <3> QED
      BY <3>1, <3>2, <3>3 DEF StreamsTogether
  <2> QED
    BY <1>0, <2>1, <2>2
<1>4. CASE AllocSimulation \/ SetAdvanceFn \/ FreeSimulation
  BY <1>0, <1>4 DEF AllocSimulation, SetAdvanceFn, FreeSimulation, TypeOK, StreamsTogether
<1>5. CASE AllocRenderer \/ FreeRenderer
  BY <1>0, <1>5 DEF AllocRenderer, FreeRenderer, TypeOK, StreamsTogether
<1>6. ASSUME NEW s \in {"none", "system"}, SetSystem(s) PROVE IInv'
  BY <1>0, <1>6 DEF SetSystem, TypeOK, StreamsTogether
<1>7. ASSUME NEW s \in {"none", "system"}, AssignSystem(s) PROVE IInv'
  <2>1. TypeOK'
    BY <1>0, <1>7, Constants DEF AssignSystem, TypeOK
  <2>2. StreamsTogether'
    BY <1>7 DEF AssignSystem, StreamsTogether
  <2> QED
    BY <1>0, <2>1, <2>2
<1>8. ASSUME NEW m \in Capacity, AllocSmallSystem(m) PROVE IInv'
  BY <1>0, <1>8 DEF AllocSmallSystem, TypeOK, StreamsTogether
<1> QED
  BY <1>1, <1>2, <1>3, <1>4, <1>5, <1>6, <1>7, <1>8 DEF Application

\* The first step of a pass: no two slots are of one particle, so each finds
\* its own age in `before`.
LEMMA BeginPassKeepsIInv == ASSUME IInv, NEW d \in Dt, BeginPass(d) PROVE IInv'
<1> USE DEF IInv
<1>0. d \in Nat /\ num \in Nat /\ num <= Emitted
  BY Constants DEF TypeOK
<1>1. ASSUME NEW k \in Particle, k < num
      PROVE  (CHOOSE j \in Particle : j < num /\ pos[j] = pos[k]) = k
  <2>1. \A j \in Particle : j < num /\ pos[j] = pos[k] => j = k
    BY <1>0, <1>1 DEF StreamsTogether, TypeOK, Particle
  <2> QED
    BY <1>1, <2>1
<1>2. ASSUME NEW k \in Particle, k < num PROVE pos[k] \in Live /\ pos[k] \in Particle
  BY <1>0, <1>2 DEF Live, Particle, TypeOK
<1>3. ASSUME NEW k \in Particle, k < num PROVE before'[pos[k]] = time[k]
  BY <1>1, <1>2, <1>3 DEF BeginPass
<1>4. ASSUME NEW p \in Particle, p \in Live
      PROVE  \E k \in Particle : k < num /\ pos[k] = p
  BY <1>0, <1>4, Constants DEF Live, Particle
<1>5. \A p \in Particle : before'[p] \in Nat \union {Gone}
  <2> SUFFICES ASSUME NEW p \in Particle, p \in Live PROVE before'[p] \in Nat
    BY DEF BeginPass
  <2>1. PICK k \in Particle : k < num /\ pos[k] = p
    BY <1>4
  <2> QED
    BY <1>3, <2>1, Constants DEF TypeOK
<1>6. TypeOK'
  BY <1>0, <1>5, Constants DEF BeginPass, TypeOK, system, simulation, renderer
<1>7. StreamsTogether'
  BY DEF BeginPass, StreamsTogether, system, renderer
<1>8. PassInv'
  <2>1. i' = 0 /\ dt' = d /\ num' = num /\ pos' = pos /\ time' = time /\ Live' = Live
    BY DEF BeginPass, system, Live
  <2>2. \A k \in Particle : ~(k < i')
    BY <2>1 DEF Particle
  <2>3. ASSUME NEW k \in Particle, k < num
        PROVE  /\ before'[pos[k]] # Gone /\ time[k] = before'[pos[k]] /\ moved'[pos[k]] = 0
               /\ time[k] + d <= MaxTime
    BY <1>2, <1>3, <2>3, Constants DEF BeginPass, TypeOK, Gone
  <2>4. \A p \in Particle : p \notin Live => before'[p] = Gone
    BY DEF BeginPass
  <2> QED
    BY <1>0, <2>1, <2>2, <2>3, <2>4 DEF PassInv
<1> QED
  BY <1>6, <1>7, <1>8

\* An expired particle goes, and the last one is in its slot as it was.
LEMMA ExpireKeepsIInv == IInv /\ Expire => IInv'
<1> SUFFICES ASSUME IInv, Expire PROVE IInv'
  OBVIOUS
<1> DEFINE last == num - 1
<1> USE DEF IInv
<1>0. /\ i \in Nat /\ num \in Nat /\ num <= Emitted /\ i < num /\ dt \in Nat
      /\ i \in Particle /\ last \in Particle /\ i <= last /\ num' = last
      /\ main = "pass" /\ time[i] > span[i]
  BY Constants DEF Expire, TypeOK, Particle, Expired
<1>1. TypeOK'
  <2>1. \/ UNCHANGED <<pos, vel, span, time>> /\ i' = i + 1
        \/ /\ pos' = [pos EXCEPT ![i] = pos[last]] /\ vel' = [vel EXCEPT ![i] = vel[last]]
           /\ span' = [span EXCEPT ![i] = span[last]]
           /\ time' = [time EXCEPT ![i] = time[last]] /\ i' = i
    BY DEF Expire
  <2> QED
    BY <1>0, <2>1, Constants DEF Expire, TypeOK, simulation, renderer
<1>2. StreamsTogether'
  <2>1. CASE i < last
    <3>1. /\ pos'[i] = pos[last] /\ vel'[i] = vel[last] /\ span'[i] = span[last]
          /\ \A k \in Particle : k # i =>
               pos'[k] = pos[k] /\ vel'[k] = vel[k] /\ span'[k] = span[k]
          /\ life' = life
      BY <1>0, <2>1 DEF Expire, TypeOK
    <3>2. ASSUME NEW k \in Particle, k < num' PROVE k < num /\ k # last
      BY <1>0, <3>2 DEF Particle
    <3>3. \A k \in Particle : k < num' => vel'[k] = pos'[k] /\ span'[k] = life[pos'[k]]
      <4>1. vel[last] = pos[last] /\ span[last] = life[pos[last]]
        BY <1>0 DEF StreamsTogether
      <4>2. \A k \in Particle : k < num' => vel[k] = pos[k] /\ span[k] = life[pos[k]]
        BY <3>2 DEF StreamsTogether
      <4> QED
        BY <3>1, <4>1, <4>2
    <3>4. \A k, l \in Particle : k < l /\ l < num' => pos'[k] # pos'[l]
      <4> SUFFICES ASSUME NEW k \in Particle, NEW l \in Particle, k < l, l < num'
                   PROVE  pos'[k] # pos'[l]
        OBVIOUS
      <4>1. k < num' /\ k # l
        BY <1>0 DEF Particle
      <4>2. last < num
        BY <1>0
      <4>3. pos[k] # pos[l] /\ pos[k] # pos[last] /\ pos[l] # pos[last]
        BY <1>0, <3>2, <4>1, <4>2, SlotsApart
      <4> QED
        BY <3>1, <4>1, <4>3
    <3> QED
      BY <3>1, <3>3, <3>4 DEF StreamsTogether
  <2>2. CASE ~(i < last)
    <3>1. UNCHANGED <<pos, vel, span, life>>
      BY <2>2 DEF Expire
    <3>2. \A k \in Particle : k < num' => k < num
      BY <1>0 DEF Particle
    <3> QED
      BY <3>1, <3>2 DEF StreamsTogether
  <2> QED
    BY <2>1, <2>2
<1>4. before[pos[i]] > life[pos[i]]
  BY <1>0 DEF PassInv, StreamsTogether, TypeOK
<1>5. ASSUME NEW p \in Particle, p \in Live, p # pos[i] PROVE p \in Live'
  <2>1. PICK k \in 0 .. num - 1 : p = pos[k]
    BY <1>5 DEF Live
  <2>2. CASE k = last
    <3>1. i < last
      BY <1>0, <1>5, <2>1, <2>2
    <3>2. pos'[i] = p
      BY <1>0, <2>1, <2>2, <3>1 DEF Expire, TypeOK
    <3> QED
      BY <1>0, <3>1, <3>2 DEF Live
  <2>3. CASE k # last
    <3>1. k \in 0 .. num' - 1 /\ k # i
      BY <1>0, <1>5, <2>1, <2>3
    <3>2. k \in Particle
      BY <1>0, <3>1, Constants DEF Particle
    <3>3. pos'[k] = p
      BY <1>0, <2>1, <3>1, <3>2 DEF Expire, TypeOK
    <3> QED
      BY <3>1, <3>3 DEF Live
  <2> QED
    BY <2>2, <2>3
<1>6. \A p \in Particle : p \in Live' \/ before[p] = Gone \/ before[p] > life[p]
  BY <1>0, <1>4, <1>5 DEF PassInv
<1>7. CASE i < last
  <2>1. ASSUME NEW k \in Particle, k < num', k # i
        PROVE  pos'[k] = pos[k] /\ time'[k] = time[k]
    BY <1>7, <2>1 DEF Expire, TypeOK
  <2>2. pos'[i] = pos[last] /\ time'[i] = time[last]
    BY <1>0, <1>7 DEF Expire, TypeOK
  <2>3. i' = i /\ UNCHANGED <<before, moved, life, dt, advanceFn, main>>
    BY <1>7 DEF Expire, simulation
  <2>4. \A k \in Particle : k < i' /\ k < num' =>
          /\ before[pos'[k]] # Gone /\ before[pos'[k]] <= life[pos'[k]]
          /\ time'[k] = before[pos'[k]] + dt
          /\ moved[pos'[k]] = IF advanceFn = "constant" THEN 0 ELSE 1
    BY <1>0, <2>1, <2>3 DEF PassInv, Particle
  <2>5. \A k \in Particle : k >= i' /\ k < num' =>
          /\ before[pos'[k]] # Gone /\ time'[k] = before[pos'[k]] /\ moved[pos'[k]] = 0
          /\ time'[k] + dt <= MaxTime
    BY <1>0, <1>7, <2>1, <2>2, <2>3 DEF PassInv, Particle
  <2>6. i' <= num' + 1
    BY <1>0, <1>7, <2>3
  <2>7. PassInv'
    BY <1>6, <2>3, <2>4, <2>5, <2>6 DEF PassInv
  <2> QED
    BY <1>1, <1>2, <2>7
<1>8. CASE i = last
  <2>1. /\ i' = i + 1 /\ UNCHANGED <<pos, time, before, moved, life, dt, advanceFn, main>>
    BY <1>0, <1>8 DEF Expire, simulation
  <2>2. \A k \in Particle : k < num' => k < i
    BY <1>0, <1>8 DEF Particle
  <2>3. PassInv'
    BY <1>0, <1>6, <1>8, <2>1, <2>2 DEF PassInv, Particle
  <2> QED
    BY <1>1, <1>2, <2>3
<1> QED
  BY <1>0, <1>7, <1>8

\* A particle whose time is not over ages by one dt, and is moved once if the
\* simulation is of the kind that moves.
LEMMA AgeKeepsIInv == IInv /\ (Stay \/ Drift) => IInv'
<1> SUFFICES ASSUME IInv, Stay \/ Drift PROVE IInv'
  OBVIOUS
<1> USE DEF IInv
<1>0. /\ i \in Nat /\ num \in Nat /\ num <= Emitted /\ i < num /\ i \in Particle /\ dt \in Nat
      /\ main = "pass" /\ time[i] <= span[i] /\ time[i] \in Nat /\ pos[i] \in Particle
      /\ time' = [time EXCEPT ![i] = @ + dt] /\ i' = i + 1
      /\ UNCHANGED <<max, num, pos, vel, span, life, simulation, renderer, main, dt, before>>
  <2>1. Age
    BY DEF Stay, Drift
  <2>2. i \in Nat /\ num \in Nat /\ num <= Emitted /\ i < num /\ i \in Particle
    BY <2>1, Constants DEF Age, TypeOK, Particle
  <2>3. time[i] \in Nat /\ span[i] \in Nat /\ pos[i] \in Particle
    BY <2>2, Constants DEF TypeOK
  <2>4. time[i] <= span[i]
    BY <2>1, <2>3 DEF Age, Expired
  <2> QED
    BY <2>1, <2>2, <2>3, <2>4 DEF Age, TypeOK
<1>1. moved' \in [Particle -> Nat] /\ moved'[pos[i]] = (IF advanceFn = "constant" THEN 0 ELSE 1)
  <2>1. moved[pos[i]] = 0
    BY <1>0 DEF PassInv
  <2>2. CASE Stay
    BY <2>1, <2>2 DEF Stay, TypeOK
  <2>3. CASE Drift
    BY <1>0, <2>1, <2>3 DEF Drift, TypeOK
  <2> QED
    BY <2>2, <2>3
<1>2. time[i] + dt \in 0 .. MaxTime
  BY <1>0, Constants DEF PassInv
<1>3. TypeOK'
  <2>1. time' \in [Particle -> 0 .. MaxTime]
    BY <1>0, <1>2 DEF TypeOK
  <2>2. i' \in 0 .. Emitted + 1
    BY <1>0, Constants
  <2> QED
    BY <1>0, <1>1, <2>1, <2>2 DEF TypeOK, simulation, renderer
<1>4. StreamsTogether'
  BY <1>0 DEF StreamsTogether, renderer
<1>5. \A k \in Particle : k < num /\ k # i => pos[k] # pos[i] /\ moved'[pos[k]] = moved[pos[k]]
  <2>1. \A k \in Particle : k < num /\ k # i => pos[k] # pos[i] /\ pos[k] \in Particle
    BY <1>0, SlotsApart DEF TypeOK
  <2> QED
    BY <2>1, <1>0 DEF Stay, Drift, TypeOK
<1>6. before[pos[i]] # Gone /\ before[pos[i]] <= life[pos[i]] /\ time[i] = before[pos[i]]
  BY <1>0 DEF PassInv, StreamsTogether, TypeOK
<1>7. \A k \in Particle : k # i => time'[k] = time[k]
  BY <1>0 DEF TypeOK
<1>8. time'[i] = time[i] + dt
  BY <1>0 DEF TypeOK
<1>9. Live' = Live /\ advanceFn' = advanceFn
  BY <1>0 DEF Live, simulation
<1>10. PassInv'
  <2>1. \A k \in Particle : k < i' /\ k < num =>
          /\ before[pos[k]] # Gone /\ before[pos[k]] <= life[pos[k]]
          /\ time'[k] = before[pos[k]] + dt
          /\ moved'[pos[k]] = IF advanceFn = "constant" THEN 0 ELSE 1
    BY <1>0, <1>1, <1>5, <1>6, <1>7, <1>8 DEF PassInv, Particle
  <2>2. \A k \in Particle : k >= i' /\ k < num =>
          /\ before[pos[k]] # Gone /\ time'[k] = before[pos[k]] /\ moved'[pos[k]] = 0
          /\ time'[k] + dt <= MaxTime
    BY <1>0, <1>5, <1>7 DEF PassInv, Particle
  <2>3. \A p \in Particle : p \in Live \/ before[p] = Gone \/ before[p] > life[p]
    BY <1>0 DEF PassInv
  <2> QED
    BY <1>0, <1>9, <2>1, <2>2, <2>3 DEF PassInv
<1> QED
  BY <1>3, <1>4, <1>10

\* The inductive invariant holds in every reachable state.
THEOREM Invariance == Spec => []IInv
<1>1. IInv /\ [Next]_vars => IInv'
  <2> SUFFICES ASSUME IInv, [Next]_vars PROVE IInv'
    OBVIOUS
  <2>1. CASE EndPass
    BY <2>1 DEF EndPass, IInv, TypeOK, StreamsTogether, PassInv, system, simulation,
                renderer, pass
  <2>2. CASE FillVertices
    BY <2>2, Constants DEF FillVertices, IInv, TypeOK, StreamsTogether, PassInv,
                           system, simulation, pass
  <2>4. CASE FillFromAnywhere
    BY <2>4 DEF FillFromAnywhere, IInv, TypeOK, StreamsTogether, PassInv, system, simulation,
                renderer, pass
  <2>3. CASE Lost \/ UNCHANGED vars
    BY <2>3 DEF Lost, vars, IInv, TypeOK, StreamsTogether, PassInv, Live, system,
                simulation, renderer, pass
  <2> QED
    BY <2>1, <2>2, <2>3, <2>4, ApplicationKeepsIInv, BeginPassKeepsIInv, ExpireKeepsIInv, AgeKeepsIInv
    DEF Next
<1> QED
  BY <1>1, InitIInv, PTL DEF Spec

\* Slots, ages, the index of the pass and the sizes of the buffers keep to their
\* ranges.
THEOREM TypeCorrectness == Spec => []TypeOK
<1>1. IInv => TypeOK
  BY DEF IInv
<1> QED
  BY <1>1, Invariance, PTL

\* A particle that kl_particle_simulation_* moves into the slot of an expired
\* one moves with all of its streams, and stays nowhere else.
THEOREM StreamsStayTogether == Spec => []StreamsTogether
<1>1. IInv => StreamsTogether
  BY DEF IInv
<1> QED
  BY <1>1, Invariance, PTL

\* A pass deals with every particle once, expirations among them or not.
THEOREM EveryParticleAdvancedOnce == Spec => []PassAdvancesAll
<1>1. IInv => PassAdvancesAll
  <2> SUFFICES ASSUME IInv, main = "pass", ~(i < num), NEW p \in Particle PROVE Advanced(p)
    BY DEF PassAdvancesAll
  <2> USE DEF IInv
  <2>0. i \in Nat /\ num \in Nat /\ num <= Emitted
    BY Constants DEF TypeOK
  <2>1. CASE p \in Live
    <3>1. PICK k \in 0 .. num - 1 : pos[k] = p
      BY <2>1 DEF Live
    <3>2. k \in Particle /\ k < num /\ k < i
      BY <2>0, <3>1, Constants DEF Particle
    <3>3. /\ before[p] # Gone /\ before[p] <= life[p] /\ time[k] = before[p] + dt
          /\ moved[p] = IF advanceFn = "constant" THEN 0 ELSE 1
      BY <3>1, <3>2 DEF PassInv
    <3>4. AgeOf(p, before[p] + dt)
      BY <3>1, <3>2, <3>3 DEF AgeOf
    <3>5. before[p] \in Nat /\ life[p] \in Nat
      BY <3>3 DEF TypeOK
    <3> QED
      BY <3>3, <3>4, <3>5 DEF Advanced
  <2>2. CASE p \notin Live
    BY <2>2 DEF PassInv, Advanced
  <2> QED
    BY <2>1, <2>2
<1> QED
  BY <1>1, Invariance, PTL

-----------------------------------------------------------------------------
(* Meshes                                                                  *)

Value == Nat \cup {Garbage}

\* A list of faces that has a slot left, and half of whose size is one at least.
Roomy(array) ==
  /\ array.num_elements \in Nat /\ 2 <= array.num_elements
  /\ array.max_idx \in Nat /\ array.max_idx + 1 <= array.num_elements
  /\ array.elements \in Seq(Value) /\ Len(array.elements) = array.num_elements

List == {array \in [num_elements : Nat, max_idx : Nat, elements : Seq(Value)] : Roomy(array)}

\* The arrays that there are agree on the number of vertices, and the face
\* normals on that of the indices.
CountsInv ==
  /\ num_verts \in Count /\ vertex \in Count /\ tex0 \in Count /\ normal \in Count
  /\ face_normal \in Nat \cup {-1} /\ index \in FaceLists \cup {<<>>}
  /\ {vertex, tex0, normal} \subseteq {0, num_verts}
  /\ face_normal = -1 \/ num_indices <= face_normal

\* What is not stale is in its buffer, and a buffer has what there is an array for.
BuffersInv ==
  /\ gpu \in [vertex : Count, normal : Count, tex0 : Count, index : FaceLists \cup {<<>>}]
  /\ stale \subseteq Element
  /\ vertex # 0 /\ "vertex" \notin stale => gpu.vertex = vertex
  /\ tex0 # 0 /\ "tex0" \notin stale => gpu.tex0 = tex0
  /\ normal # 0 /\ "normal" \notin stale => gpu.normal = normal
  /\ index # <<>> /\ "index" \notin stale => gpu.index = index
  /\ gpu.tex0 # 0 => tex0 # 0
  /\ gpu.normal # 0 => normal # 0

\* Where the script, a frame and the loop over the faces are.
PlaceInv ==
  /\ pc \in {"script", "frame", "normals"}
  /\ tri \in 0 .. Len(index)
  /\ pc # "normals" => tri = 0 /\ vert_face_assoc = <<>>
  /\ pc = "normals" =>
       /\ vertex # 0 /\ Corners(index) \subseteq 0 .. vertex - 1
       /\ num_indices <= face_normal /\ normal = num_verts
       /\ vert_face_assoc \in [0 .. num_verts - 1 -> List]

\* The inductive invariant of a mesh.
MeshInv == CountsInv /\ BuffersInv /\ PlaceInv

-----------------------------------------------------------------------------
\* The counts are natural numbers, and of faces there are sequences.
LEMMA MeshKinds ==
  /\ Count \subseteq Nat /\ 0 \in Count /\ VertexCounts \subseteq Count /\ 0 \notin VertexCounts
  /\ \A faces \in FaceLists \cup {<<>>} :
       faces \in Seq([1 .. 3 -> Nat]) /\ Len(faces) \in Nat
  /\ Len(<<>>) = 0
  /\ \A faces \in FaceLists \cup {<<>>} : faces # <<>> => 0 < Len(faces)
<1>1. \A faces \in FaceLists \cup {<<>>} : faces \in Seq([1 .. 3 -> Nat])
  BY FacesAssumption, EmptySeq
<1>2. /\ \A faces \in FaceLists \cup {<<>>} : Len(faces) \in Nat
      /\ \A faces \in FaceLists \cup {<<>>} : faces # <<>> => 0 < Len(faces)
  BY <1>1, LenProperties, EmptySeq
<1>3. Len(<<>>) = 0
  BY EmptySeq
<1> QED
  BY <1>1, <1>2, <1>3, CountsAssumption DEF Count

\* 16 bits count no more faces than there are.
LEMMA NumTris == MeshInv => num_tris \in Nat /\ num_tris <= Len(index)
<1> SUFFICES ASSUME MeshInv PROVE num_tris \in Nat /\ num_tris <= Len(index)
  OBVIOUS
<1>1. Len(index) \in Nat /\ UINT16_SIZE \in Nat \ {0}
  BY MeshKinds, UInt16Assumption DEF MeshInv, CountsInv
<1>2. \A n \in Nat, m \in Nat \ {0} : n % m \in Nat /\ n % m <= n
  OBVIOUS
<1> QED
  BY <1>1, <1>2 DEF num_tris

\* A function on the first numbers is a sequence.
LEMMA FunctionIsSeq ==
  ASSUME NEW S, NEW n \in Nat, NEW f \in [1 .. n -> S]
  PROVE  f \in Seq(S) /\ Len(f) = n
BY LenProperties

\* kl_rarray_init leaves slots.
LEMMA InitialList == Allocated(InitialElements) \in List
<1> DEFINE e == [k \in 1 .. InitialElements |-> Garbage]
<1>1. e \in Seq(Value) /\ Len(e) = InitialElements
  <2>1. e \in [1 .. InitialElements -> Value]
    BY DEF Value
  <2> HIDE DEF e
  <2> QED
    BY <2>1, FunctionIsSeq, InitialAssumption
<1>2. Allocated(InitialElements) = [num_elements |-> InitialElements, max_idx |-> 0, elements |-> e]
  BY DEF Allocated
<1> HIDE DEF e
<1> QED
  BY <1>1, <1>2, InitialAssumption DEF List, Roomy

\* kl_rarray_append finds a slot, and leaves one: an array of two or more that
\* is about to be full grows by one at least.
LEMMA AppendLeavesRoom ==
  ASSUME NEW a \in List, NEW x \in Nat
  PROVE  Appended(a, x) \in List
<1> DEFINE n == a.num_elements
           m == a.max_idx
           full == m + 1 = n
           size == IF full THEN n + n \div 2 ELSE n
           grown == [k \in 1 .. n + n \div 2 |-> IF k <= n \div ElementSize THEN a.elements[k] ELSE Garbage]
           cells == IF full THEN grown ELSE a.elements
           stored == IF m + 1 <= Len(cells) THEN [cells EXCEPT ![m + 1] = x] ELSE cells
<1>1. /\ a = [num_elements |-> n, max_idx |-> m, elements |-> a.elements]
      /\ n \in Nat /\ m \in Nat /\ 2 <= n /\ m + 1 <= n
      /\ a.elements \in Seq(Value) /\ Len(a.elements) = n
  BY DEF List, Roomy
<1>2. n \div 2 \in Nat /\ 1 <= n \div 2 /\ ElementSize \in Nat /\ n \div ElementSize \in Nat
      /\ n \div ElementSize <= n
  <2>1. ElementSize \in Nat \ {0}
    BY ElementSizeAssumption
  <2>2. ASSUME NEW d \in Nat \ {0} PROVE n \div d \in Nat /\ n \div d <= n
    BY <1>1
  <2> QED
    BY <1>1, <2>1, <2>2
<1>3. size \in Nat /\ 2 <= size /\ m + 2 <= size
  BY <1>1, <1>2
<1>4. grown \in Seq(Value) /\ Len(grown) = n + n \div 2
  <2>1. ASSUME NEW k \in 1 .. n + n \div 2, k <= n \div ElementSize PROVE a.elements[k] \in Value
    <3>1. k \in 1 .. Len(a.elements)
      BY <1>1, <1>2, <2>1
    <3> QED
      BY <1>1, <3>1, ElementOfSeq
  <2>2. grown \in [1 .. n + n \div 2 -> Value] /\ n + n \div 2 \in Nat
    BY <1>1, <1>2, <2>1 DEF Value
  <2> HIDE DEF grown, n
  <2> QED
    BY <2>2, FunctionIsSeq
<1>5. cells \in Seq(Value) /\ Len(cells) = size
  <2> HIDE DEF grown
  <2> QED
    BY <1>1, <1>4
<1>6. stored \in Seq(Value) /\ Len(stored) = size
  <2>1. m + 1 \in 1 .. Len(cells) /\ x \in Value
    BY <1>1, <1>3, <1>5 DEF Value
  <2> HIDE DEF cells
  <2> QED
    BY <1>5, <2>1, ExceptSeq
<1> DEFINE array == IF full THEN Resized(a, n + n \div 2) ELSE a
<1>7. array = [num_elements |-> size, max_idx |-> m, elements |-> cells]
  <2>1. CASE full
    <3>1. n + n \div 2 > n /\ ~(m >= n + n \div 2)
      BY <1>1, <1>2
    <3> QED
      BY <2>1, <3>1 DEF Resized
  <2>2. CASE ~full
    BY <1>1, <2>2
  <2> QED
    BY <2>1, <2>2
<1>8. Appended(a, x) =
        [array EXCEPT !.max_idx = array.max_idx + 1,
                      !.elements = IF array.max_idx + 1 <= Len(@)
                                   THEN [@ EXCEPT ![array.max_idx + 1] = x] ELSE @]
  BY DEF Appended
<1>9. Appended(a, x) = [num_elements |-> size, max_idx |-> m + 1, elements |-> stored]
  <2> HIDE DEF array, cells, size, m
  <2> QED
    BY <1>7, <1>8
<1>10. m \in Nat
  BY <1>1
<1> HIDE DEF n, m, size, stored
<1> QED
  BY <1>3, <1>6, <1>9, <1>10 DEF List, Roomy

\* The script sets arrays that agree.
LEMMA SettersKeepMeshInv ==
  ASSUME MeshInv, pc = "script",
         \/ \E n \in VertexCounts : SetPositions(n) \/ SetTexcoords(n)
         \/ \E faces \in FaceLists : SetFaces(faces)
  PROVE  MeshInv'
<1> USE MeshKinds DEF MeshInv, CountsInv, BuffersInv, PlaceInv, loop, num_indices, Element
<1>1. ASSUME NEW n \in VertexCounts, SetPositions(n) PROVE MeshInv'
  BY <1>1 DEF SetPositions, Agree
<1>2. ASSUME NEW n \in VertexCounts, SetTexcoords(n) PROVE MeshInv'
  BY <1>2 DEF SetTexcoords, Agree
<1>3. ASSUME NEW faces \in FaceLists, SetFaces(faces) PROVE MeshInv'
  BY <1>3 DEF SetFaces, FaceNormalsFit
<1> QED
  BY <1>1, <1>2, <1>3

\* The script loads a mesh.
LEMMA LoadCtmKeepsMeshInv ==
  ASSUME MeshInv, pc = "script", NEW n \in VertexCounts, NEW faces \in FaceLists,
         NEW normals \in BOOLEAN, LoadCtm(n, faces, normals)
  PROVE  MeshInv'
<1> USE DEF MeshInv
<1>1. /\ n \in Count /\ n # 0 /\ tex0 \in {0, n} /\ (~normals => normal \in {0, n})
      /\ face_normal = -1 \/ 3 * Len(faces) <= face_normal
      /\ num_verts' = n /\ vertex' = n /\ index' = faces
      /\ normal' = IF normals THEN n ELSE normal
      /\ stale' = stale \ ({"vertex", "index"} \union IF normals THEN {"normal"} ELSE {})
      /\ UNCHANGED <<tex0, face_normal, pc, tri, vert_face_assoc>>
  BY MeshKinds DEF LoadCtm, Agree, FaceNormalsFit, loop
<1>2. gpu \in [vertex : Count, normal : Count, tex0 : Count, index : FaceLists \cup {<<>>}]
  BY DEF BuffersInv
<1>3. /\ gpu' \in [vertex : Count, normal : Count, tex0 : Count, index : FaceLists \cup {<<>>}]
      /\ gpu'.vertex = n /\ gpu'.index = faces /\ gpu'.tex0 = gpu.tex0
      /\ gpu'.normal = IF normals THEN n ELSE gpu.normal
  BY <1>1, <1>2 DEF LoadCtm
<1>4. CountsInv'
  BY <1>1 DEF CountsInv, num_indices
<1>5. BuffersInv'
  BY <1>1, <1>3 DEF BuffersInv
<1>6. PlaceInv'
  BY <1>1, MeshKinds DEF PlaceInv
<1> QED
  BY <1>4, <1>5, <1>6

\* kl_mesh_buffer_data
LEMMA BufferDataKeepsMeshInv ==
  ASSUME MeshInv, pc = "script", NEW mask \in SUBSET Element, BufferData(mask)
  PROVE  MeshInv'
BY MeshKinds DEF MeshInv, CountsInv, BuffersInv, PlaceInv, loop, arrays, num_indices, Element, BufferData

\* kl_mesh_recompute_normals allocates what is missing, and a list per vertex.
LEMMA ComputeNormalsKeepsMeshInv == ASSUME MeshInv, pc = "script", ComputeNormals PROVE MeshInv'
<1> USE DEF MeshInv
<1>1. /\ vertex = num_verts /\ vertex # 0 /\ num_verts \in Nat /\ num_indices \in Nat
      /\ normal' = num_verts /\ face_normal' \in Nat /\ num_indices <= face_normal'
      /\ Corners(index) \subseteq 0 .. vertex - 1
      /\ stale' = stale \union {"normal"}
      /\ UNCHANGED <<num_verts, vertex, tex0, index, gpu>>
  BY MeshKinds DEF ComputeNormals, CountsInv, num_indices
<1>2. CountsInv'
  BY <1>1, MeshKinds DEF CountsInv, num_indices
<1>3. BuffersInv'
  BY <1>1 DEF BuffersInv, Element
<1>4. PlaceInv'
  <2>1. CASE index = <<>>
    BY <1>1, <2>1 DEF ComputeNormals, PlaceInv, loop
  <2>2. CASE index # <<>>
    <3>1. vert_face_assoc' \in [0 .. num_verts' - 1 -> List]
      BY <1>1, <2>2, InitialList DEF ComputeNormals
    <3>2. pc' = "normals" /\ tri' \in 0 .. Len(index')
      BY <1>1, <2>2, MeshKinds DEF ComputeNormals, CountsInv
    <3>3. num_indices' <= face_normal' /\ Corners(index)' \subseteq 0 .. vertex' - 1
      BY <1>1 DEF num_indices, Corners
    <3> QED
      BY <1>1, <3>1, <3>2, <3>3 DEF PlaceInv
  <2> QED
    BY <2>1, <2>2
<1> QED
  BY <1>2, <1>3, <1>4

\* The loop over the faces appends to lists that keep a slot.
LEMMA AssociateKeepsMeshInv == ASSUME MeshInv, Associate PROVE MeshInv'
<1>1. /\ pc = "normals" /\ tri < num_tris /\ tri' = tri + 1
      /\ UNCHANGED <<num_verts, vertex, tex0, normal, face_normal, index, gpu, stale, pc>>
  BY DEF Associate, arrays
<1>2. tri \in Nat /\ tri' \in 0 .. Len(index) /\ vert_face_assoc \in [0 .. num_verts - 1 -> List]
  BY <1>1, MeshKinds, NumTris DEF MeshInv, CountsInv, PlaceInv
<1>3. ASSUME NEW lists \in [0 .. num_verts - 1 -> List], NEW v
      PROVE  Listed(lists, v) \in [0 .. num_verts - 1 -> List]
  <2>1. \A w \in 0 .. num_verts - 1 : Appended(lists[w], tri) \in List
    BY <1>2, AppendLeavesRoom
  <2> QED
    BY <2>1 DEF Listed
<1>4. vert_face_assoc' \in [0 .. num_verts - 1 -> List]
  <2> DEFINE face == index[tri + 1]
  <2>1. vert_face_assoc' = Listed(Listed(Listed(vert_face_assoc, face[1]), face[2]), face[3])
    BY DEF Associate
  <2> HIDE DEF face
  <2> QED
    BY <1>2, <1>3, <2>1
<1> QED
  BY <1>1, <1>2, <1>4 DEF MeshInv, CountsInv, BuffersInv, PlaceInv, num_indices

\* A handler and a frame, and the loop, come to their ends.
LEMMA EndsKeepMeshInv ==
  ASSUME MeshInv,
         (pc = "script" /\ EndHandler) \/ EndFrame \/ WriteNormals \/ UNCHANGED meshVars
  PROVE  MeshInv'
<1> USE DEF MeshInv, CountsInv, BuffersInv, PlaceInv, num_indices, arrays, loop
<1>1. CASE pc = "script" /\ EndHandler
  BY <1>1 DEF EndHandler
<1>2. CASE EndFrame
  BY <1>2 DEF EndFrame
<1>3. CASE WriteNormals
  BY <1>3, MeshKinds DEF WriteNormals
<1>4. CASE UNCHANGED meshVars
  BY <1>4 DEF meshVars
<1> QED
  BY <1>1, <1>2, <1>3, <1>4

\* The lists that there are.
LEMMA ListsHaveRoom == ASSUME MeshInv, NEW array \in Lists PROVE array \in List
<1>1. CASE pc = "normals"
  BY <1>1 DEF MeshInv, PlaceInv, Lists
<1>2. CASE pc # "normals"
  <2>1. vert_face_assoc = <<>>
    BY <1>2 DEF MeshInv, PlaceInv
  <2> QED
    BY <2>1 DEF Lists
<1> QED
  BY <1>1, <1>2

\* The inductive invariant holds in every reachable state of a mesh.
THEOREM MeshInvariance == MeshSpec => []MeshInv
<1>1. MeshInit => MeshInv
  BY MeshKinds DEF MeshInit, MeshInv, CountsInv, BuffersInv, PlaceInv, num_indices, Element
<1>2. MeshInv /\ [MeshNext]_meshVars => MeshInv'
  <2> SUFFICES ASSUME MeshInv, [MeshNext]_meshVars PROVE MeshInv'
    OBVIOUS
  <2>1. CASE Script
    BY <2>1, SettersKeepMeshInv, LoadCtmKeepsMeshInv, BufferDataKeepsMeshInv,
       ComputeNormalsKeepsMeshInv, EndsKeepMeshInv
       DEF Script
  <2>2. CASE EndFrame \/ WriteNormals \/ UNCHANGED meshVars
    BY <2>2, EndsKeepMeshInv
  <2>3. CASE Associate
    BY <2>3, AssociateKeepsMeshInv
  <2> QED
    BY <2>1, <2>2, <2>3 DEF MeshNext
<1> QED
  BY <1>1, <1>2, PTL DEF MeshSpec

\* The types of a mesh, of its buffers and of the lists of faces.
THEOREM MeshTypes == MeshSpec => []MeshTypeOK
<1>1. MeshInv => MeshTypeOK
  <2> SUFFICES ASSUME MeshInv, NEW array \in Lists PROVE Len(array.elements) = array.num_elements
    BY DEF MeshInv, CountsInv, BuffersInv, PlaceInv, MeshTypeOK
  <2> QED
    BY ListsHaveRoom DEF List, Roomy
<1> QED
  BY <1>1, MeshInvariance, PTL

\* No loop of mesh.c runs over the end of an array that another function
\* allocated, and no append over that of a list (rarray.c:71), however many faces
\* a vertex has.
THEOREM ArraysAreNotOverrun == MeshSpec => []ArraysFit
<1>1. MeshInv => ArraysFit
  <2> SUFFICES ASSUME MeshInv PROVE ArraysFit
    OBVIOUS
  <2>1. ASSUME NEW array \in Lists PROVE array.max_idx <= array.num_elements
    BY ListsHaveRoom DEF List, Roomy
  <2> QED
    BY <2>1 DEF MeshInv, CountsInv, PlaceInv, ArraysFit
<1> QED
  BY <1>1, MeshInvariance, PTL

\* A frame that draws num_indices of the script's array, all of it buffered,
\* finds them in the index buffer, and their vertices in the buffers of positions, normals and texture
\* coordinates.
THEOREM FramesDrawWithinBuffers == MeshSpec => []DrawsWithinBuffers
<1>1. MeshInv => DrawsWithinBuffers
  <2> SUFFICES ASSUME MeshInv, pc = "frame", stale = {}, Corners(index) \subseteq 0 .. vertex - 1
               PROVE  /\ Len(index) <= Len(gpu.index)
                      /\ \A v \in Corners(SubSeq(gpu.index, 1, Len(index))) :
                           /\ v < gpu.vertex
                           /\ gpu.tex0 # 0 => v < gpu.tex0
                           /\ gpu.normal # 0 => v < gpu.normal
    BY DEF DrawsWithinBuffers
  <2>1. /\ vertex \in Nat
        /\ vertex # 0 => /\ gpu.vertex = vertex
                         /\ gpu.tex0 # 0 => gpu.tex0 = vertex
                         /\ gpu.normal # 0 => gpu.normal = vertex
        /\ index # <<>> => gpu.index = index
    BY MeshKinds DEF MeshInv, CountsInv, BuffersInv, PlaceInv
  <2>2. Len(index) \in Nat /\ index \in Seq([1 .. 3 -> Nat]) /\ Len(gpu.index) \in Nat
    BY MeshKinds DEF MeshInv, CountsInv, BuffersInv
  <2>3. CASE index = <<>>
    <3>1. Len(index) = 0
      BY <2>3, MeshKinds
    <3>2. DOMAIN SubSeq(gpu.index, 1, Len(index)) = {}
      BY <3>1
    <3>3. Corners(SubSeq(gpu.index, 1, Len(index))) = {}
      BY <3>2 DEF Corners
    <3> QED
      BY <2>2, <3>1, <3>3
  <2>4. CASE index # <<>>
    <3>1. gpu.index = index
      BY <2>1, <2>4
    <3>2. SubSeq(gpu.index, 1, Len(index)) = index
      BY <2>2, <3>1, SubSeqFull
    <3>3. \A v \in Corners(index) : v \in Nat /\ v < vertex
      BY <2>1
    <3>4. Corners(SubSeq(gpu.index, 1, Len(index))) = Corners(index)
      BY <3>2
    <3>5. Len(index) <= Len(gpu.index)
      BY <2>2, <3>1
    <3>6. \A v \in Corners(index) :
            /\ v < gpu.vertex
            /\ gpu.tex0 # 0 => v < gpu.tex0
            /\ gpu.normal # 0 => v < gpu.normal
      BY <2>1, <3>3
    <3> QED
      BY <3>4, <3>5, <3>6
  <2> QED
    BY <2>3, <2>4
<1> QED
  BY <1>1, MeshInvariance, PTL

-----------------------------------------------------------------------------
(* The lists of faces                                                      *)

\* The corners at v of the faces before t and of the first n corners of face t.
Done(v, t, n) ==
  {q \in (0 .. t) \X (1 .. 3) : (q[1] < t \/ q[2] <= n) /\ index[q[1] + 1][q[2]] = v}

\* A list that has not grown has each face as often as it has corners in Q.
Tally(array, Q) ==
  Cardinality(Q) < InitialElements =>
    /\ array.num_elements = InitialElements /\ array.max_idx = Cardinality(Q)
    /\ \A f \in Nat : Cardinality({k \in 1 .. array.max_idx : array.elements[k] = f})
                        = Cardinality({q \in Q : q[1] = f})

\* In the loop over the faces, each list has those before tri.
TallyInv ==
  pc = "normals" =>
    \A v \in 0 .. num_verts - 1 : Tally(vert_face_assoc[v], Done(v, tri, 0))

\* A face has three corners.
LEMMA ThreeCorners == IsFiniteSet(1 .. 3)
<1>1. PICK n \in Int : n = 3
  OBVIOUS
<1>2. IsFiniteSet(1 .. n)
  BY FS_Interval
<1> QED
  BY <1>1, <1>2

\* Faces have finitely many corners.
LEMMA DoneFinite == ASSUME NEW v, NEW t \in Nat, NEW n PROVE IsFiniteSet(Done(v, t, n))
<1>1. IsFiniteSet(0 .. t)
  BY FS_Interval
<1>2. IsFiniteSet(1 .. 3)
  BY ThreeCorners
<1>3. IsFiniteSet((0 .. t) \X (1 .. 3))
  BY <1>1, <1>2, FS_Product
<1>4. Done(v, t, n) \subseteq (0 .. t) \X (1 .. 3)
  BY DEF Done
<1> QED
  BY <1>3, <1>4, FS_Subset

\* A new corner's face is appended, and nothing is lost before the list grows.
LEMMA AppendTallies ==
  ASSUME NEW a \in List, NEW Q, IsFiniteSet(Q), NEW q, q \notin Q, q[1] \in Nat, Tally(a, Q)
  PROVE  Tally(Appended(a, q[1]), Q \cup {q})
<1> DEFINE x == q[1]
           m == Cardinality(Q)
           b == Appended(a, x)
<1> SUFFICES ASSUME Cardinality(Q \cup {q}) < InitialElements
             PROVE  /\ b.num_elements = InitialElements /\ b.max_idx = Cardinality(Q \cup {q})
                    /\ \A f \in Nat : Cardinality({k \in 1 .. b.max_idx : b.elements[k] = f})
                                        = Cardinality({r \in Q \cup {q} : r[1] = f})
  BY DEF Tally
<1>1. m \in Nat /\ Cardinality(Q \cup {q}) = m + 1
  BY FS_AddElement, FS_CardinalityType
<1>2. /\ a.num_elements = InitialElements /\ a.max_idx = m
      /\ \A f \in Nat : Cardinality({k \in 1 .. m : a.elements[k] = f})
                          = Cardinality({r \in Q : r[1] = f})
  BY <1>1, InitialAssumption DEF Tally
<1>3. /\ a.elements \in Seq(Value) /\ Len(a.elements) = InitialElements /\ x \in Value
      /\ a = [num_elements |-> InitialElements, max_idx |-> m, elements |-> a.elements]
  BY <1>2 DEF List, Roomy, Value
<1>4. m + 1 \in 1 .. Len(a.elements) /\ m + 1 # InitialElements /\ m + 1 <= Len(a.elements)
  BY <1>1, <1>3, InitialAssumption
<1>5. b = [num_elements |-> InitialElements, max_idx |-> m + 1,
           elements |-> [a.elements EXCEPT ![m + 1] = x]]
  <2>1. b = [a EXCEPT !.max_idx = a.max_idx + 1,
                      !.elements = IF a.max_idx + 1 <= Len(@)
                                   THEN [@ EXCEPT ![a.max_idx + 1] = x] ELSE @]
    BY <1>2, <1>4 DEF Appended
  <2> HIDE DEF b, m, x
  <2> QED
    BY <1>2, <1>3, <1>4, <2>1
<1>6. \A k \in 1 .. m + 1 : b.elements[k] = IF k = m + 1 THEN x ELSE a.elements[k]
  <2>1. b.elements = [a.elements EXCEPT ![m + 1] = x]
    BY <1>5
  <2>2. \A k \in 1 .. m + 1 : k \in 1 .. Len(a.elements)
    BY <1>1, <1>4
  <2> HIDE DEF b, m, x
  <2> QED
    BY <1>3, <1>4, <2>1, <2>2, ExceptSeq
<1>7. ASSUME NEW f \in Nat
      PROVE  Cardinality({k \in 1 .. m + 1 : b.elements[k] = f})
               = Cardinality({r \in Q \cup {q} : r[1] = f})
  <2> DEFINE old == {k \in 1 .. m : a.elements[k] = f}
             new == {k \in 1 .. m + 1 : b.elements[k] = f}
             oldQ == {r \in Q : r[1] = f}
             newQ == {r \in Q \cup {q} : r[1] = f}
  <2>1. Cardinality(old) = Cardinality(oldQ)
    BY <1>2
  <2>2. IsFiniteSet(old) /\ IsFiniteSet(oldQ)
    <3>1. IsFiniteSet(1 .. m)
      BY <1>1, FS_Interval
    <3> QED
      BY <3>1, FS_Subset
  <2>3. m + 1 \notin old /\ q \notin oldQ
    BY <1>1
  <2> HIDE DEF b, m
  <2>4. new = old \cup (IF x = f THEN {m + 1} ELSE {})
    BY <1>1, <1>6
  <2>5. newQ = oldQ \cup (IF x = f THEN {q} ELSE {})
    OBVIOUS
  <2> HIDE DEF old, new, oldQ, newQ
  <2>6. ASSUME x = f PROVE Cardinality(new) = Cardinality(newQ)
    <3>1. new = old \cup {m + 1} /\ newQ = oldQ \cup {q}
      BY <2>4, <2>5, <2>6
    <3>2. Cardinality(new) = Cardinality(old) + 1
      BY <2>2, <2>3, <3>1, FS_AddElement
    <3>3. Cardinality(newQ) = Cardinality(oldQ) + 1
      BY <2>2, <2>3, <3>1, FS_AddElement
    <3> QED
      BY <2>1, <3>2, <3>3
  <2>7. ASSUME x # f PROVE Cardinality(new) = Cardinality(newQ)
    BY <2>1, <2>4, <2>5, <2>7
  <2>8. Cardinality(new) = Cardinality(newQ)
    BY <2>6, <2>7
  <2> QED
    BY <2>8 DEF new, newQ
<1>8. b.num_elements = InitialElements /\ b.max_idx = m + 1
  <2> HIDE DEF b, m, x
  <2> QED
    BY <1>5
<1>9. \A f \in Nat : Cardinality({k \in 1 .. b.max_idx : b.elements[k] = f})
                      = Cardinality({r \in Q \cup {q} : r[1] = f})
  <2> HIDE DEF b, m, x
  <2> QED
    BY <1>7, <1>8
<1> QED
  BY <1>1, <1>8, <1>9

\* One corner of the face at tri.
LEMMA ListedTallies ==
  ASSUME NEW lists \in [0 .. num_verts - 1 -> List], tri \in Nat, NEW n \in 0 .. 2,
         \A v \in 0 .. num_verts - 1 : Tally(lists[v], Done(v, tri, n)),
         NEW m, m = n + 1, NEW c, c = index[tri + 1][m]
  PROVE  /\ Listed(lists, c) \in [0 .. num_verts - 1 -> List]
         /\ \A v \in 0 .. num_verts - 1 : Tally(Listed(lists, c)[v], Done(v, tri, m))
<1>1. Listed(lists, c) \in [0 .. num_verts - 1 -> List]
  <2>1. \A w \in 0 .. num_verts - 1 : Appended(lists[w], tri) \in List
    BY AppendLeavesRoom
  <2> QED
    BY <2>1 DEF Listed
<1>2. ASSUME NEW v \in 0 .. num_verts - 1 PROVE Tally(Listed(lists, c)[v], Done(v, tri, m))
  <2> DEFINE q == <<tri, m>>
  <2>1. CASE v = c
    <3>1. Done(v, tri, m) = Done(v, tri, n) \cup {q}
      BY <2>1 DEF Done
    <3>2. q \notin Done(v, tri, n) /\ q[1] = tri
      BY DEF Done
    <3>3. Listed(lists, c)[v] = Appended(lists[v], q[1])
      BY <2>1 DEF Listed
    <3>4. IsFiniteSet(Done(v, tri, n)) /\ lists[v] \in List /\ Tally(lists[v], Done(v, tri, n))
      BY DoneFinite
    <3> HIDE DEF q
    <3>5. Tally(Appended(lists[v], q[1]), Done(v, tri, n) \cup {q})
      BY <3>2, <3>4, AppendTallies
    <3> QED
      BY <3>1, <3>3, <3>5
  <2>2. CASE v # c
    <3>1. Done(v, tri, m) = Done(v, tri, n)
      BY <2>2 DEF Done
    <3>2. Listed(lists, c)[v] = lists[v]
      BY <2>2 DEF Listed
    <3> QED
      BY <3>1, <3>2
  <2> QED
    BY <2>1, <2>2
<1> QED
  BY <1>1, <1>2

\* The lists are empty at first, and each turn of the loop adds its face.
LEMMA NextKeepsTallyInv == MeshInv /\ TallyInv /\ [MeshNext]_meshVars => TallyInv'
<1> SUFFICES ASSUME MeshInv, TallyInv, [MeshNext]_meshVars, pc' = "normals" PROVE TallyInv'
  BY DEF TallyInv
<1>1. CASE pc = "script" /\ ComputeNormals /\ index # <<>>
  <2>1. /\ tri' = 0 /\ UNCHANGED <<num_verts, index>>
        /\ vert_face_assoc' = [v \in 0 .. num_verts - 1 |-> Allocated(InitialElements)]
    BY <1>1 DEF ComputeNormals
  <2>2. ASSUME NEW v \in 0 .. num_verts - 1
        PROVE  Tally(vert_face_assoc'[v], {})
    <3>1. Cardinality({}) = 0 /\ \A S : S = {} => Cardinality(S) = 0
      BY FS_EmptySet
    <3>2. \A f : {k \in 1 .. 0 : vert_face_assoc'[v].elements[k] = f} = {}
      OBVIOUS
    <3>3. \A f : {q \in {} : q[1] = f} = {}
      OBVIOUS
    <3>4. vert_face_assoc'[v].num_elements = InitialElements /\ vert_face_assoc'[v].max_idx = 0
      BY <2>1 DEF Allocated
    <3> QED
      BY <3>1, <3>2, <3>3, <3>4 DEF Tally
  <2>3. \A v : Done(v, 0, 0)' = {}
    BY DEF Done
  <2>4. \A v \in 0 .. num_verts - 1 : Tally(vert_face_assoc'[v], Done(v, tri, 0)')
    BY <2>1, <2>2, <2>3 DEF Done
  <2> QED
    BY <2>1, <2>4 DEF TallyInv, Tally
<1>2. CASE Associate
  <2> DEFINE face == index[tri + 1]
             one == Listed(vert_face_assoc, face[1])
             two == Listed(one, face[2])
             three == Listed(two, face[3])
  <2>1. /\ pc = "normals" /\ tri' = tri + 1 /\ vert_face_assoc' = three
        /\ UNCHANGED <<num_verts, index>>
    BY <1>2 DEF Associate, arrays
  <2>2. /\ tri \in Nat /\ vert_face_assoc \in [0 .. num_verts - 1 -> List]
        /\ \A v \in 0 .. num_verts - 1 : Tally(vert_face_assoc[v], Done(v, tri, 0))
    BY <2>1, MeshKinds DEF MeshInv, CountsInv, PlaceInv, TallyInv
  <2> HIDE DEF one, two, three
  <2>3. /\ one \in [0 .. num_verts - 1 -> List]
        /\ \A v \in 0 .. num_verts - 1 : Tally(one[v], Done(v, tri, 1))
    <3>1. 0 \in 0 .. 2 /\ 1 = 0 + 1 /\ face[1] = index[tri + 1][1]
      OBVIOUS
    <3>2. one = Listed(vert_face_assoc, face[1])
      BY DEF one
    <3> HIDE DEF face
    <3> QED
      BY ONLY <2>2, <3>1, <3>2, ListedTallies
  <2>4. /\ two \in [0 .. num_verts - 1 -> List]
        /\ \A v \in 0 .. num_verts - 1 : Tally(two[v], Done(v, tri, 2))
    <3>1. 1 \in 0 .. 2 /\ 2 = 1 + 1 /\ face[2] = index[tri + 1][2]
      OBVIOUS
    <3>2. two = Listed(one, face[2])
      BY DEF two
    <3> HIDE DEF face
    <3> QED
      BY ONLY <2>2, <2>3, <3>1, <3>2, ListedTallies
  <2>5. \A v \in 0 .. num_verts - 1 : Tally(three[v], Done(v, tri, 3))
    <3>1. 2 \in 0 .. 2 /\ 3 = 2 + 1 /\ face[3] = index[tri + 1][3]
      OBVIOUS
    <3>2. three = Listed(two, face[3])
      BY DEF three
    <3> HIDE DEF face
    <3> QED
      BY ONLY <2>2, <2>4, <3>1, <3>2, ListedTallies
  <2>6. \A v : Done(v, tri, 0)' = Done(v, tri, 3)
    BY <2>1, <2>2 DEF Done
  <2> HIDE DEF three
  <2>7. \A v \in 0 .. num_verts - 1 : Tally(vert_face_assoc'[v], Done(v, tri, 0)')
    BY <2>1, <2>5, <2>6
  <2> QED
    BY <2>1, <2>7 DEF TallyInv, Tally
<1>3. CASE UNCHANGED meshVars
  BY <1>3 DEF meshVars, arrays, loop, TallyInv, Tally, Done
<1>4. pc # "script" => Associate \/ UNCHANGED meshVars
  BY DEF MeshNext, Script, EndFrame, WriteNormals
<1>5. pc = "script" => (ComputeNormals /\ index # <<>>) \/ UNCHANGED meshVars
  BY DEF MeshNext, Script, EndFrame, Associate, WriteNormals, SetPositions, SetTexcoords, SetFaces,
         LoadCtm, BufferData, EndHandler, ComputeNormals
<1> QED
  BY <1>1, <1>2, <1>3, <1>4, <1>5

\* What the loop of kl_mesh_recompute_normals has listed.
THEOREM FacesAreListed == MeshSpec => []TallyInv
<1>1. MeshInit => TallyInv
  BY DEF MeshInit, TallyInv
<1> QED
  BY <1>1, NextKeepsTallyInv, MeshInvariance, PTL DEF MeshSpec

\* The normal of a vertex is computed from its faces, each once for every corner
\* that the vertex is, if those are fewer than its list is allocated for
\* (mesh.c:131) and 16 bits count the faces (mesh.c:93): before it grows, a list
\* loses nothing.
THEOREM NormalsFromAllFaces == MeshSpec => []NormalsOfFewFaces
<1>1. MeshInv /\ TallyInv => NormalsOfFewFaces
  <2> SUFFICES ASSUME MeshInv, TallyInv, pc = "normals", tri = Len(index),
                      NEW v \in Corners(index), Valence(v) < InitialElements
               PROVE  ListsFacesOf(v)
    BY DEF NormalsOfFewFaces
  <2> DEFINE a == vert_face_assoc[v]
             list == Contents(a)
  <2>1. v \in 0 .. num_verts - 1 /\ a \in List /\ Len(index) \in Nat
    BY MeshKinds DEF MeshInv, CountsInv, PlaceInv
  <2>2. Tally(a, CornersOf(v))
    <3>1. Done(v, Len(index), 0) = CornersOf(v)
      BY <2>1 DEF Done, CornersOf
    <3> QED
      BY <2>1, <3>1 DEF TallyInv
  <2>3. /\ a.max_idx = Valence(v) /\ a.max_idx \in Nat
        /\ \A f \in Nat : Cardinality({k \in 1 .. a.max_idx : a.elements[k] = f})
                            = Cardinality({q \in CornersOf(v) : q[1] = f})
    BY <2>1, <2>2 DEF Tally, Valence, List, Roomy
  <2>4. /\ a.max_idx <= Len(a.elements) /\ Len(a.elements) \in Nat
        /\ \A k \in 1 .. Len(a.elements) : a.elements[k] \in Value
    <3>1. a.elements \in Seq(Value) /\ a.max_idx + 1 <= Len(a.elements)
      BY <2>1 DEF List, Roomy
    <3> QED
      BY <2>3, <3>1, ElementOfSeq, LenProperties
  <2>5. list = [k \in 1 .. a.max_idx |-> a.elements[k]]
    <3>1. \A k \in 1 .. a.max_idx : k <= Len(a.elements)
      BY <2>3, <2>4
    <3> QED
      BY <3>1 DEF Contents
  <2>6. Len(list) = Valence(v) /\ DOMAIN list = 1 .. a.max_idx
    <3>1. list \in [1 .. a.max_idx -> Value]
      BY <2>3, <2>4, <2>5
    <3> HIDE DEF list, a
    <3> QED
      BY <2>3, <3>1, FunctionIsSeq
  <2>7. ASSUME NEW f \in 0 .. Len(index) - 1
        PROVE  Cardinality({k \in DOMAIN list : list[k] = f}) = CornersAt(f, v)
    <3> DEFINE C == {c \in 1 .. 3 : index[f + 1][c] = v}
               D == {q \in CornersOf(v) : q[1] = f}
               pair == [c \in C |-> <<f, c>>]
    <3>1. {k \in DOMAIN list : list[k] = f} = {k \in 1 .. a.max_idx : a.elements[k] = f}
      <4> HIDE DEF list, a
      <4> QED
        BY <2>5, <2>6
    <3>2. Cardinality({k \in DOMAIN list : list[k] = f}) = Cardinality(D)
      BY <2>3, <3>1
    <3>3. pair \in Bijection(C, D)
      <4>1. ASSUME NEW c \in C PROVE pair[c] \in D
        BY <2>1 DEF CornersOf
      <4>2. \A b, c \in C : pair[b] = pair[c] => b = c
        OBVIOUS
      <4>3. ASSUME NEW q \in D PROVE \E c \in C : pair[c] = q
        BY <2>1 DEF CornersOf
      <4> HIDE DEF C, D
      <4>4. pair \in [C -> D]
        BY <4>1
      <4> HIDE DEF pair
      <4> QED
        BY <4>2, <4>3, <4>4, Fun_IsBij
    <3>4. IsFiniteSet(C)
      <4>1. C \subseteq 1 .. 3
        OBVIOUS
      <4> QED
        BY <4>1, ThreeCorners, FS_Subset
    <3>5. Cardinality(C) = Cardinality(D)
      <4> HIDE DEF C, D, pair
      <4>1. ExistsBijection(C, D)
        BY <3>3 DEF ExistsBijection
      <4> QED
        BY <3>4, <4>1, FS_Bijection
    <3> QED
      BY <3>2, <3>5 DEF CornersAt
  <2> QED
    BY <2>6, <2>7 DEF ListsFacesOf
<1> QED
  BY <1>1, FacesAreListed, MeshInvariance, PTL
=============================================================================
