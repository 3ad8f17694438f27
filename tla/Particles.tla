------------------------------ MODULE Particles ------------------------------
(***************************************************************************)
(* game/particles and render/opengl/particles/particle_quads.c: one        *)
(* particle system, the simulation that ages its particles and the         *)
(* renderer that fills vertices with them.  Simulation and renderer are    *)
(* processes: the main loop's thread calls both once per iteration (module *)
(* ProcessManager), in the order of their ids.                             *)
(*                                                                         *)
(* A particle's data is spread over parallel streams and is known by its   *)
(* slot, so the streams hold whose value is in the slot.  The vertices and *)
(* the values of the indices that the renderer makes of them are left out. *)
(*                                                                         *)
(* Neither side compares a max_particles with anything.  What the program  *)
(* does once a store went past its streams, or a pointer was used that     *)
(* nobody initialised, is not followed.                                    *)
(***************************************************************************)
EXTENDS Integers

CONSTANTS
  Emitted,        \* how many particles kl_particle_system_alloc emits (200)
  Capacity,       \* the max_particles it is called with
  Life,           \* the life spans an application writes to a system
  INFINITY,       \* a time no particle reaches
  Dt,             \* the dts of the iterations
  MaxTime,        \* bound: how old a particle gets
  USHORT_SIZE     \* 2^16, the values of a GLushort

ASSUME CapacityAssumption ==
  Emitted \in Nat \ {0} /\ USHORT_SIZE \in Nat /\ Capacity \subseteq Nat
ASSUME TimeAssumption ==
  /\ MaxTime \in Nat /\ INFINITY \in Nat /\ MaxTime < INFINITY
  /\ Life \subseteq Nat /\ Dt \subseteq Nat

VARIABLES
  max, num,         \* max_particles (0: there is no system), num_particles
  pos, vel,         \* the position and velocity streams: whose is in the slot
  span, time,       \* lifespan_stream, time_stream
  simSystem,        \* the simulation's system
  advanceFn,        \* its advance_fn
  rdrSystem,        \* the renderer's system
  elements,         \* vert_buffer_elements
  bufferIdx, lastUsedIdx,
  main,             \* where the main loop's thread is: at rest between two processes,
                    \* in a pass, in a loop that never ends, or where nobody knows
  i, dt,            \* the locals of the pass over the particles
  life,             \* history: the life span of each particle
  before, moved     \* history: each particle's age when the pass began,
                    \* how often the pass has moved it

system == <<max, num, pos, vel, span, time, life>>
simulation == <<simSystem, advanceFn>>
renderer == <<rdrSystem, elements, bufferIdx, lastUsedIdx>>
pass == <<i, dt, before, moved>>
vars == <<system, simulation, renderer, main, pass>>

Particle == 0 .. Emitted - 1
Gone == -1          \* before[p] of a particle that had expired

\* Whose data the streams hold.
Live == {pos[k] : k \in 0 .. num - 1}

Init ==
  /\ max = 0 /\ num = 0
  /\ pos = [k \in Particle |-> k] /\ vel = pos
  /\ span = [k \in Particle |-> INFINITY] /\ time = [k \in Particle |-> 0]
  /\ life = span
  /\ simSystem = "unallocated" /\ advanceFn = "constant"
  /\ rdrSystem = "unallocated"
  /\ elements = [b \in 0 .. 1 |-> 0] /\ bufferIdx = 1 /\ lastUsedIdx = 1
  /\ main = "rest" /\ i = 0 /\ dt = 0
  /\ before = [p \in Particle |-> Gone] /\ moved = [p \in Particle |-> 0]

-----------------------------------------------------------------------------
(* The application, between two iterations.                                *)

\* kl_particle_system_alloc emits without looking at max_particles: a smaller
\* system's streams are written past their ends, into one another and beyond.
AllocSystem(m) ==
  /\ max = 0 /\ Emitted <= m
  /\ max' = m /\ num' = Emitted
  /\ pos' = [k \in Particle |-> k] /\ vel' = pos'
  /\ span' = [k \in Particle |-> INFINITY] /\ time' = [k \in Particle |-> 0]
  /\ life' = span'
  /\ UNCHANGED <<simulation, renderer, main, pass>>

AllocSmallSystem(m) ==
  /\ max = 0 /\ m < Emitted
  /\ main' = "undefined"
  /\ UNCHANGED <<system, simulation, renderer, pass>>

\* kl_particle_system_free looks for nobody that still points at the system:
\* the application takes it away from both first.
FreeSystem ==
  /\ max # 0 /\ simSystem # "system" /\ rdrSystem # "system"
  /\ max' = 0 /\ num' = 0
  /\ UNCHANGED <<pos, vel, span, time, life, simulation, renderer, main, pass>>

\* The streams are public, and emitted particles never expire: an application
\* that wants them to writes their life spans.
SetLifespan(k, l) ==
  /\ max # 0 /\ k < num /\ span[k] = INFINITY
  /\ span' = [span EXCEPT ![k] = l]
  /\ life' = [life EXCEPT ![pos[k]] = l]
  /\ UNCHANGED <<max, num, pos, vel, time, simulation, renderer, main, pass>>

AllocSimulation ==
  /\ simSystem = "unallocated"
  /\ simSystem' = "none" /\ advanceFn' = "constant"
  /\ UNCHANGED <<system, renderer, main, pass>>

\* advance_fn is public; vector_field is the other function there is.
SetAdvanceFn ==
  /\ simSystem # "unallocated"
  /\ advanceFn' = "vector_field"
  /\ UNCHANGED <<system, simSystem, renderer, main, pass>>

\* kl_particle_simulation_set_system, with the system or NULL.
SetSystem(s) ==
  /\ simSystem # "unallocated" /\ (s = "system" => max # 0)
  /\ simSystem' = s
  /\ UNCHANGED <<system, advanceFn, renderer, main, pass>>

\* The id is released; the caller's pointer is kept by nobody.
FreeSimulation ==
  /\ simSystem # "unallocated"
  /\ simSystem' = "unallocated"
  /\ UNCHANGED <<system, advanceFn, renderer, main, pass>>

\* The `system` of a new renderer is not initialised.
AllocRenderer ==
  /\ rdrSystem = "unallocated"
  /\ rdrSystem' = "uninitialised"
  /\ elements' = [b \in 0 .. 1 |-> 0] /\ bufferIdx' = 1 /\ lastUsedIdx' = 1
  /\ UNCHANGED <<system, simulation, main, pass>>

\* kl_particle_render_quads_assign_system.  The loop that fills the indices counts
\* particles with a GLushort, which never gets past USHORT_SIZE - 1.
AssignSystem(s) ==
  /\ rdrSystem # "unallocated" /\ (s = "system" => max # 0)
  /\ rdrSystem' = s
  /\ main' = IF s = "system" /\ USHORT_SIZE <= max THEN "endless" ELSE main
  /\ UNCHANGED <<system, simulation, elements, bufferIdx, lastUsedIdx, pass>>

FreeRenderer ==
  /\ rdrSystem # "unallocated"
  /\ rdrSystem' = "unallocated"
  /\ UNCHANGED <<system, simulation, elements, bufferIdx, lastUsedIdx, main, pass>>

Application ==
  /\ main = "rest"
  /\ \/ \E m \in Capacity : AllocSystem(m) \/ AllocSmallSystem(m)
     \/ FreeSystem
     \/ \E k \in Particle, l \in Life : SetLifespan(k, l)
     \/ AllocSimulation \/ SetAdvanceFn \/ FreeSimulation
     \/ AllocRenderer \/ FreeRenderer
     \/ \E s \in {"none", "system"} : SetSystem(s) \/ AssignSystem(s)

-----------------------------------------------------------------------------
(* The processes.                                                          *)

\* The pass of either simulation begins.
BeginPass(d) ==
  /\ main = "rest" /\ simSystem = "system"
  /\ \A k \in Particle : k < num => time[k] + d <= MaxTime
  /\ main' = "pass" /\ i' = 0 /\ dt' = d
  /\ before' = [p \in Particle |->
       IF p \in Live THEN time[CHOOSE k \in Particle : k < num /\ pos[k] = p] ELSE Gone]
  /\ moved' = [p \in Particle |-> 0]
  /\ UNCHANGED <<system, simulation, renderer>>

\* The time is over; tested before dt is added.
Expired(k) == time[k] > span[k]

\* Mutants of Expire: the particle that moves in is passed over, its velocity
\* stays behind, i is decremented also when nothing moved.
ExpireSkipping ==
  LET last == num - 1 IN
  /\ main = "pass" /\ i < num /\ Expired(i)
  /\ num' = last /\ i' = i + 1
  /\ pos' = [pos EXCEPT ![i] = pos[last]] /\ vel' = [vel EXCEPT ![i] = vel[last]]
  /\ span' = [span EXCEPT ![i] = span[last]] /\ time' = [time EXCEPT ![i] = time[last]]
  /\ UNCHANGED <<max, life, simulation, renderer, main, dt, before, moved>>
ExpireLeavingVelocity ==
  LET last == num - 1 IN
  /\ main = "pass" /\ i < num /\ Expired(i)
  /\ num' = last /\ i' = IF i < last THEN i ELSE i + 1
  /\ pos' = [pos EXCEPT ![i] = pos[last]]
  /\ span' = [span EXCEPT ![i] = span[last]] /\ time' = [time EXCEPT ![i] = time[last]]
  /\ UNCHANGED <<max, vel, life, simulation, renderer, main, dt, before, moved>>

\* An expired particle gives its slot to the last one, which is looked at next
\* (i--, i++).  If it was the last itself, i ends one past num.
Expire ==
  LET last == num - 1 IN
  /\ main = "pass" /\ i < num /\ Expired(i)
  /\ num' = last
  /\ IF i < last
     THEN /\ pos' = [pos EXCEPT ![i] = pos[last]]
          /\ vel' = [vel EXCEPT ![i] = vel[last]]
          /\ span' = [span EXCEPT ![i] = span[last]]
          /\ time' = [time EXCEPT ![i] = time[last]]
          /\ UNCHANGED i
     ELSE /\ UNCHANGED <<pos, vel, span, time>>
          /\ i' = i + 1
  /\ UNCHANGED <<max, life, simulation, renderer, main, dt, before, moved>>

\* A particle ages.
Age ==
  /\ main = "pass" /\ i < num /\ ~Expired(i)
  /\ time' = [time EXCEPT ![i] = @ + dt]
  /\ i' = i + 1
  /\ UNCHANGED <<max, num, pos, vel, span, life, simulation, renderer, main, dt, before>>

\* kl_particle_simulation_constant leaves it where it is.
Stay == advanceFn = "constant" /\ Age /\ UNCHANGED moved

\* kl_particle_simulation_vector_field moves it by its own velocity.
Drift == advanceFn = "vector_field" /\ Age /\ moved' = [moved EXCEPT ![pos[i]] = @ + 1]

EndPass ==
  /\ main = "pass" /\ ~(i < num)
  /\ main' = "rest"
  /\ UNCHANGED <<system, simulation, renderer, pass>>

\* The renderer fills the vertices and the buffer that is not shown, unless
\* that is the one drawn last.  Drawing is commented out, so lastUsedIdx stays.
FillVertices ==
  LET next == 1 - bufferIdx IN
  /\ main = "rest" /\ rdrSystem = "system" /\ lastUsedIdx # next
  /\ elements' = [elements EXCEPT ![next] = num * 2]
  /\ bufferIdx' = next
  /\ UNCHANGED <<system, simulation, rdrSystem, lastUsedIdx, main, pass>>

\* The renderer's process is called from its allocation on: unless `system` happens
\* to hold NULL, vertices are filled from wherever it points.
FillFromAnywhere ==
  /\ main = "rest" /\ rdrSystem = "uninitialised" /\ lastUsedIdx # 1 - bufferIdx
  /\ main' = "undefined"
  /\ UNCHANGED <<system, simulation, renderer, pass>>

\* No step is followed from here.
Lost == main \in {"undefined", "endless"} /\ UNCHANGED vars

Next == Application \/ (\E d \in Dt : BeginPass(d)) \/ Expire \/ Stay \/ Drift \/ EndPass
        \/ FillVertices \/ FillFromAnywhere \/ Lost

Spec == Init /\ [][Next]_vars

-----------------------------------------------------------------------------
TypeOK ==
  /\ max \in Capacity \union {0} /\ num \in 0 .. Emitted /\ (max = 0 => num = 0)
  /\ pos \in [Particle -> Particle] /\ vel \in [Particle -> Particle]
  /\ span \in [Particle -> Nat] /\ time \in [Particle -> 0 .. MaxTime]
  /\ life \in [Particle -> Nat]
  /\ simSystem \in {"unallocated", "none", "system"} /\ (simSystem = "system" => max # 0)
  /\ advanceFn \in {"constant", "vector_field"}
  /\ rdrSystem \in {"unallocated", "uninitialised", "none", "system"}
  /\ (rdrSystem = "system" => max # 0)
  /\ elements \in [0 .. 1 -> Nat] /\ bufferIdx \in 0 .. 1 /\ lastUsedIdx \in 0 .. 1
  /\ main \in {"rest", "pass", "undefined", "endless"} /\ i \in 0 .. Emitted + 1 /\ dt \in Nat
  /\ before \in [Particle -> Nat \union {Gone}] /\ moved \in [Particle -> Nat]

\* All streams of a slot are about one particle, and no particle is in two
\* slots: what moves into a freed slot moves there whole, and is not left behind.
StreamsTogether ==
  /\ \A k \in Particle : k < num => vel[k] = pos[k] /\ span[k] = life[pos[k]]
  /\ \A k, l \in Particle : k < l /\ l < num => pos[k] # pos[l]

\* The age that particle p has in the streams.
AgeOf(p, a) == \E k \in Particle : k < num /\ pos[k] = p /\ time[k] = a

\* What a pass of kl_particle_simulation_constant or _vector_field makes of
\* particle p: gone if its time was over when the pass
\* began, else older by exactly one dt, and moved once by the vector field.
Advanced(p) ==
  IF before[p] = Gone \/ before[p] > life[p]
  THEN p \notin Live
  ELSE AgeOf(p, before[p] + dt) /\ moved[p] = IF advanceFn = "constant" THEN 0 ELSE 1

\* At the end of a pass every particle was dealt with once, also those that
\* moved into the slot of an expired one while the pass stood there.
PassAdvancesAll ==
  main = "pass" /\ ~(i < num) => \A p \in Particle : Advanced(p)
=============================================================================
