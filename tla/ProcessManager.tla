--------------------------- MODULE ProcessManager ---------------------------
(***************************************************************************)
(* process/process.c: the processes that the main loop ticks and advances. *)
(* The main loop's thread walks the tables of callbacks by index, and the  *)
(* callbacks, like the application between two iterations, reserve and     *)
(* release process ids (game/particles/particle_simulation.c and           *)
(* render/opengl/particles/particle_quads.c do) while the walk goes on.    *)
(* All of it runs in one thread.                                           *)
(***************************************************************************)
EXTENDS IdxAllocator, FiniteSets

CONSTANTS
  Process,        \* the contexts that reserve a process id
  NoProcess,      \* NULL in a table
  NumProcesses    \* num_processes of kl_alloc_process_manager

ASSUME NumProcessesAssumption ==
  /\ NumProcesses \in Nat \ {0}
  /\ UINT32_MAX \in Nat /\ NumProcesses <= UINT32_MAX
ASSUME NoProcessAssumption == NoProcess \notin Process

VARIABLES
  free,         \* the id_allocator
  tick,         \* per id, the process whose tick function is in the table
  advance,      \* per id, the process whose advance-time function is in the table
  context,      \* per id, the context in the table
  maxId,        \* max_id_allocated
  registered,   \* the processes that hold an id
  pid,          \* per process, the id it was given last
  main,         \* where the main loop's thread is
  kind,         \* which table the walk goes through
  i,            \* the walk's index
  steady,       \* the processes registered ever since the walk began
  called        \* per process, how often the walk called it

vars == <<free, tick, advance, context, maxId, registered, pid, main, kind, i, steady, called>>
tables == <<free, tick, advance, context, maxId, registered, pid>>

Id == 0 .. NumProcesses - 1
NoCalls == [p \in Process |-> 0]

\* kl_alloc_process_manager
Init ==
  /\ free = AllFree(NumProcesses)
  /\ tick = [id \in Id |-> NoProcess]
  /\ advance = [id \in Id |-> NoProcess]
  /\ context = [id \in Id |-> NoProcess]
  /\ maxId = 0
  /\ registered = {} /\ pid = [p \in Process |-> 0]
  /\ main = "rest" /\ kind = "tick" /\ i = 0
  /\ steady = {} /\ called = NoCalls

\* The code of the application and of the callbacks runs.
InClient == main \in {"rest", "call"}

\* A store to table[id].  Past the end of the table it hits memory that is not
\* the process manager's.
Put(table, id, p) == IF id \in Id THEN [table EXCEPT ![id] = p] ELSE table

-----------------------------------------------------------------------------
\* kl_reserve_process_id with the functions given or NULL.  An exhausted
\* allocator answers UINT32_MAX, which the code uses like any other id.
Reserve(p, ticks, advances) ==
  /\ InClient
  /\ p \notin registered
  /\ LET id == Reserved(free) IN
       /\ maxId' = IF id > maxId THEN id ELSE maxId
       /\ advance' = Put(advance, id, IF advances THEN p ELSE NoProcess)
       /\ tick' = Put(tick, id, IF ticks THEN p ELSE NoProcess)
       /\ context' = Put(context, id, p)
       /\ pid' = [pid EXCEPT ![p] = id]
  /\ free' = AfterReserve(free)
  /\ registered' = registered \cup {p}
  /\ UNCHANGED <<main, kind, i, steady, called>>

\* Mutant: the functions stay in the tables.
ReleaseKeepingFunctions(p) ==
  /\ InClient
  /\ p \in registered
  /\ context' = Put(context, pid[p], NoProcess)
  /\ free' = AfterRelease(free, NumProcesses, pid[p])
  /\ registered' = registered \ {p}
  /\ steady' = steady \ {p}
  /\ UNCHANGED <<tick, advance, maxId, pid, main, kind, i, called>>

\* Mutant: the id is not given back.
ReleaseLosingId(p) ==
  /\ InClient
  /\ p \in registered
  /\ tick' = Put(tick, pid[p], NoProcess)
  /\ advance' = Put(advance, pid[p], NoProcess)
  /\ context' = Put(context, pid[p], NoProcess)
  /\ registered' = registered \ {p}
  /\ steady' = steady \ {p}
  /\ UNCHANGED <<free, maxId, pid, main, kind, i, called>>

\* kl_release_process_id, called once for every id reserved.
Release(p) ==
  /\ InClient
  /\ p \in registered
  /\ tick' = Put(tick, pid[p], NoProcess)
  /\ advance' = Put(advance, pid[p], NoProcess)
  /\ context' = Put(context, pid[p], NoProcess)
  /\ free' = AfterRelease(free, NumProcesses, pid[p])
  /\ registered' = registered \ {p}
  /\ steady' = steady \ {p}
  /\ UNCHANGED <<maxId, pid, main, kind, i, called>>

-----------------------------------------------------------------------------
(* kl_mainloop_iteration: any number of ticks, then one advance.  A walk that *)
(* gets past the end of the tables jumps to whatever it finds there: it has   *)
(* no further step.                                                           *)

BeginIteration ==
  /\ main = "rest"
  /\ main' = "simulate"
  /\ UNCHANGED <<tables, kind, i, steady, called>>

\* kl_tick_process_list or kl_advance_process_list is called.
BeginWalk(k) ==
  /\ main = "simulate"
  /\ main' = "walk"
  /\ kind' = k
  /\ i' = 0
  /\ steady' = registered
  /\ called' = NoCalls
  /\ UNCHANGED tables

\* The table that the walk goes through.
Walked == IF kind = "tick" THEN tick ELSE advance

Skip ==
  /\ main = "walk"
  /\ i <= maxId /\ i \in Id
  /\ Walked[i] = NoProcess
  /\ i' = i + 1
  /\ UNCHANGED <<tables, main, kind, steady, called>>

\* The function is called with the context in its slot.
Call ==
  /\ main = "walk"
  /\ i <= maxId /\ i \in Id
  /\ Walked[i] # NoProcess
  /\ main' = "call"
  /\ called' = [called EXCEPT ![Walked[i]] = @ + 1]
  /\ UNCHANGED <<tables, kind, i, steady>>

Return ==
  /\ main = "call"
  /\ main' = "walk"
  /\ i' = i + 1
  /\ UNCHANGED <<tables, kind, steady, called>>

\* Mutant: the walk stops short of max_id_allocated.
EndWalkEarly ==
  /\ main = "walk"
  /\ i >= maxId
  /\ main' = IF kind = "tick" THEN "simulate" ELSE "rest"
  /\ UNCHANGED <<tables, kind, i, steady, called>>

EndWalk ==
  /\ main = "walk"
  /\ i > maxId
  /\ main' = IF kind = "tick" THEN "simulate" ELSE "rest"
  /\ UNCHANGED <<tables, kind, i, steady, called>>

Client == \E p \in Process :
  Release(p) \/ \E ticks, advances \in BOOLEAN : Reserve(p, ticks, advances)

Walk == Skip \/ Call \/ Return \/ EndWalk

Next ==
  \/ Client \/ BeginIteration
  \/ BeginWalk("tick") \/ BeginWalk("advance")
  \/ Walk

Spec == Init /\ [][Next]_vars

-----------------------------------------------------------------------------
\* process.h:48: the application keeps to the maximum it asked for.
FewProcesses == IsFiniteSet(Process) /\ Cardinality(Process) <= NumProcesses

\* What the tables, the ids and the walk may hold.
TypeOK ==
  /\ free \in Seq(Id)
  /\ {tick, advance, context} \subseteq [Id -> Process \cup {NoProcess}]
  /\ maxId \in Id
  /\ registered \subseteq Process
  /\ pid \in [Process -> Id]
  /\ main \in {"rest", "simulate", "walk", "call"}
  /\ kind \in {"tick", "advance"}
  /\ i \in 0 .. NumProcesses
  /\ steady \subseteq registered
  /\ called \in [Process -> Nat]

(* The parts of the inductive invariant. *)

\* No index is free twice, and none is both free and held.
FreeInv ==
  /\ \A j, k \in 1 .. Len(free) : free[j] = free[k] => j = k
  /\ \A j \in 1 .. Len(free), p \in registered : free[j] # pid[p]

\* Reserved ids are unique: no two processes hold the same id (idxallocator.h:48).
IdsUnique == \A p, q \in registered : pid[p] = pid[q] => p = q

\* Every id is free or held: releasing loses none.
NoneLost ==
  \A id \in Id : \/ \E j \in 1 .. Len(free) : free[j] = id
                 \/ \E p \in registered : pid[p] = id

\* A slot in use holds the context of the process with that id, and the
\* functions of no other; any other slot is empty.
TablesInv ==
  /\ \A p \in registered : context[pid[p]] = p /\ pid[p] <= maxId
  /\ \A id \in Id :
       /\ context[id] # NoProcess => context[id] \in registered /\ pid[context[id]] = id
       /\ tick[id] \in {NoProcess, context[id]}
       /\ advance[id] \in {NoProcess, context[id]}

\* The walk has called exactly the steady processes that it has passed.
WalkInv ==
  main \in {"walk", "call"} =>
    /\ i \in Id \/ main = "walk"
    /\ \A p \in steady :
         called[p] = IF Walked[pid[p]] = p /\ (pid[p] < i \/ (pid[p] = i /\ main = "call"))
                     THEN 1 ELSE 0

\* The inductive invariant: every id is either free, once, or held by one
\* process, whose callbacks are in its slot (process.c:96-123), so the walk by
\* index meets each of them once.
IInv == TypeOK /\ FreeInv /\ IdsUnique /\ NoneLost /\ TablesInv /\ WalkInv

\* process.h:110: when a walk ends, each process registered throughout it has had
\* its function called once, whatever the other callbacks reserve and release.
CalledOnce ==
  [][main = "walk" /\ main' \in {"simulate", "rest"} =>
       \A p \in steady : called[p] = IF Walked[pid[p]] = p THEN 1 ELSE 0]_vars

\* A call goes to a process that is registered at that moment, with the context
\* it registered: its memory has not been freed (particle_quads.c:83-85).
CallsRegistered ==
  [][main = "walk" /\ main' = "call" => Walked[i] \in registered /\ context[i] = Walked[i]]_vars
=============================================================================
