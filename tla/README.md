# A formal model of the FlightlessManicotti runtime

FlightlessManicotti is a small game runtime: a C library that owns the main
loop, simulation processes and rendering, and a Lua script that it talks to
through a queue of events. This directory holds TLA+ modules that model its
state machines, the TLC configurations that check them on small instances,
and TLAPS proofs of the properties that should hold for every size.

`PROJECT.json` ties every definition to the lines it models and every property
to a run and to a mutation of the code that breaks it.

## The system

| Part | State it keeps | Operations | Talks to |
|---|---|---|---|
| Ring buffer (`core/ringbuffer.c`) | slots, `start`, `end`, `size`, mutex | alloc, reserve, retrieve, free | called by the script context from every thread |
| Script context (`scriptinterface/script.c`, `modules/scriptevent.c`) | event queue, `keep_running`, thread, Lua state, the console event | init, run, pump, enqueue, dequeue, endframe, fence wait/notify, console input, destroy | the queue; the fence; the Lua handler |
| Lua event dispatch, components (`script/events/Handler.lua`, `script/game/components`) | subscribers per event; components by name | subscribe, unsubscribe, walk, add, unregister | handlers, which change the tables that are walked |
| Main loop and its clock (`process/mainloop.c`, `core/timer.c`) | fence, last frame/tick time, elapsed time | init, iteration | script context, process manager, timer |
| Lifecycle, log, rendering context (`core/lifecycle.c`, `core/log.c`, the Cocoa application) | `initialized`, the managers, the log and its callback, the global rendering context | initialize, predestroy, destroy, init rendering | all of the above, two threads |
| Process manager, index allocator (`process/process.c`, `core/idxallocator.c`) | callback tables, free list, highest id | reserve, release, tick, advance | the main loop calls it; particle code registers in it |
| Render list (`render/render_list.c`) and what it draws | slots with indices, plain pointers to lists and resources | insert, remove, assign, bind, frame, finalise | Lua bindings, the collector, the renderer |
| Constant buffer, effect manager (`modules/constant_buffer.c`, `opengl/shader/effect_manager.c`) | a value, texture or source per constant; a table of sources | set, collect, register, unregister, bind | renderer, Lua, application |
| Growable array, meshes (`core/rarray.c`, `render/mesh`, `modules/mesh.c`) | arrays with shared counts, GL buffers, lists of faces | set, load, buffer, compute normals, draw | Lua, renderer |
| Particles (`game/particles`, `opengl/particles`) | parallel streams, two vertex buffers | alloc, assign, pass, fill vertices, free | process manager callbacks |
| Lua bindings (`scriptinterface/modules`) | userdata that own C memory | constructors, setters, `__gc` | all of the above |

What makes it hard: three threads (the main loop's, the script's, the user
interface's) share one bounded queue and two plain flags; the main loop spins
on a fence that only the script can notify; results of `enqueue` are ignored
everywhere, so what happens on a full queue is decided by omission; shutdown
is two calls with script frames in between; callbacks reserve and release
process ids while the list that calls them is walked; Lua's collector frees C
objects that the render thread reads.

## Modules

### BoundedQueue, RingBuffer

`BoundedQueue` is the promise: a FIFO queue of bounded capacity on which every
call takes effect at one instant between its invocation and its return.
`RingBuffer` is the code at the grain of its shared-memory accesses. A call is
`CallReserve` / `CallRetrieve`, then `Lock`, the test of the indices
(`TestFull`, `TestEmpty`), the copy (`Store`, `Load`), the store of the index
(`Publish`, `Consume`) and `Unlock`; `Alloc` and `Free` may surround them.
`Free` happens when no call is running, because `kl_script_destroy` calls it
after it joined the script's thread; the code has nothing that keeps a
user-interface thread out (listed as a hazard). Run `RingBuffer`
(`MCRingBuffer`): three threads, two items, three slots, so that the indices
wrap and both full and empty occur under contention. `Implements` maps the
queue to the occupied slots from `start` on; the linearisation points are the
index stores and the two refusing tests. `SomeCallReturns` needs only that a
thread inside a call keeps running; the mutex is taken with weak fairness, so
nothing is claimed for one particular thread.

### ScriptFrames

The main loop's thread, the script's handler, the console input and the
shutdown, with the ring buffer as a bounded FIFO (which `RingBuffer`
implements, so one step per enqueue is justified). `main` and `handler` are
the program counters of the two threads; in an unthreaded context the handler
runs only between `CallPump` and `PumpReturns`. Whether the script has a thread
is chosen at the start (`threaded`), from the constant `Threads`. `ResetFence`
and `SendEOF` are the two stores of `kl_script_event_endframe`, kept apart
because their order is what makes the fence work. An event is a record; its
`frame` is a history value that names the iteration (the code's AdvanceTime
carries that iteration's `dt`). A refused enqueue changes nothing, as in the
code, whose callers ignore the result. The application may call `kl_predestroy`
during any iteration, and `kl_destroy` between two, with or without it before;
`grace` counts the iterations since, but for those that a script error ended.

Bounds: four iterations (`MaxFrames`), two ticks in each (`MaxTicks`; module
`MainloopClock` says how many are due), two console strings (`MaxStrings`). A
frame of the model holds at most two ticks, an AdvanceTime, an EOF and what the
user and the lifecycle add, so a queue of 12 (`QueueHasRoom` asks for 10) never
refuses an event of a script that keeps in step. Four iterations are two more
than any event stays in the system. What a full queue does is left to the
theorems that hold for any capacity, and to the section on disagreements below.

Run `ScriptFrames` has both modes, threaded with the fence and pumped, and
handlers that may raise an error at any event. Fairness: weak fairness of the
main loop's own steps and of the script's. Both are threads that spin or run
and never block for good, so a scheduler that runs every runnable thread
justifies it. What the application and the user do (begin an iteration,
predestroy, destroy, type) has none, nor has a handler that raises an error. A
main loop that waits for a thread that has ended (`Stopped`) spins for good:
`FenceWaitEnds` says that nothing else keeps it waiting. Run `ScriptDestroy`
is an unthreaded script without errors, and is about what `fm.h` says of
`kl_predestroy` (see below).

### MainloopClock

The same iteration, for its clock alone: `Begin` and `Stamp` are the two
readings at its top (`mainloop.c:84`, `:95`), `Pump` the script's frame, which
may end the iteration early, `Tick` a turn of the catch-up loop, `Advance`
what follows it and `End` the last reading. `Pass` lets time go by anywhere in
between. Both conversions of `timer.c` round down; the float that the code
makes of the result is left out. In a threaded runtime `Pump` stands for the
wait on the fence; that it ends is `FenceWaitEnds` of `ScriptFrames`, so
`IterationReturns` adds only that the loop over the ticks ends.

`called` is history: when the last `Advance` began. The module's properties are
checked in the composition `Application` below; run `MainloopTime` is the clock
alone, with a timebase of 3/2, so that both conversions lose something, and is
about what `process.h` says of `dt` (see below).

### IdxAllocator, ProcessManager

`IdxAllocator` has the operators of the index stack, which `ProcessManager` and
`RenderList` hold in their state. `ProcessManager` has the tables of
`process.c` and the two walks over them. A walk is a step per slot (`Skip`,
`Call`, `Return`, `EndWalk`), and between `Call` and `Return`, as between two
iterations, any process may be reserved or released. `steady` and `called` are
history: who was registered throughout this walk, and how often it was called.

Run `ProcessManager`: three ids and three processes, symmetric, enough for a
callback to release itself, a process before it and one after it and to
reserve the slot just released. Everything holds under `FewProcesses`, that
the application has no more processes than it asked ids for. There is no
fairness and no liveness: a walk is a bounded loop, and callbacks may run as
long as they like.

### RenderList

Lists, instances, and the resources instances are drawn with are Lua userdata
with plain pointers among each other and from the renderer (`inList`, `slots`,
`uses`, `renderList`). The script creates, inserts, removes, sets, binds,
assigns and drops; `Collect` and `Close` find what is to be finalised
(`pending`), and the `Finalise` actions take it apart one at a time while the
script goes on. Lua 5.1 finalises what a collection found youngest first:
`elders` has, for each userdata, the older ones in the list that Lua keeps it in
(that of all userdata, or that of those found), and `Due` is who comes next. No
collection begins while another has finalisers to call. What a frame would read
at any moment is `Drawn` and `DrawnWith`. Script, collector and renderer share
one thread, as in the Cocoa application; a frame is therefore no step, and the
properties about drawing are invariants.

The binding checks nothing, so the properties rest on how scripts use it. The
discipline is that of `main.lua` and is explicit in the model: `MayInsert` (an
instance goes into a list that is older, once), `MayRemove` (out of its own
list), `MayUse` (what is older than its user), `MayDrop` (a list is kept while
it is drawn or has instances the script still holds). Without it, the hazards
listed for the component happen, and the properties about drawing are
statements about such scripts. Two stores land in memory that is not modelled
and are dropped: that of a full list before its array (`Insert`) and that of
`Manicotti.setrenderlist` with a negative index before the lists
(`SetRenderList`).

Run `RenderList`: a list of two slots and three instances, so that the list
overflows and empties from the middle and from the top, and a render target
with a texture bound to it, which stand for the resources of an instance, for
the default target of a list, and for what those point at. Moves of an instance
between two lists are in the module and in the proofs, not in this instance.
Instances are symmetric; the symmetry is sound, for all properties are
invariants.

### EventDispatch

The tables of `Handler.lua` as sequences, and the walk over one of them a step
per subscriber: between `Call` and `Return` the handler runs, which may
subscribe, unsubscribe, add or unregister components, or raise. `ipairs` reads
the table as it is at each step, so a removal behind the walk passes somebody
over; `shifts` counts those removals, and `MissedByRemoval` says that they are
the only reason. Components subscribe when the bucket registers them. All
buckets are one object, for `ComponentBucket:new` builds on a global, so the
model has one.

Run `EventDispatch`: two events, one handler of the script's own, two
components of a class that therefore share their handlers (a subscription is
found by its handler alone), three names. `MaxSubscriptions` (3) lets a table
hold both components and a handler twice or in between; `MaxShifts` (2) lets
the walk be shifted twice.

### Particles

One system with its streams, a simulation and the quad renderer. A stream
holds, per slot, whose value is there, so that a particle moved in part shows.
A pass of `kl_particle_simulation_constant` or `_vector_field` is a step per
particle (`Expire`, `Stay`, `Drift`), with the last particle moved into the slot
of an expired one and the index stepped back. `FillVertices` is the renderer's
process. Systems, simulation and renderer come and go between iterations.

Nothing compares `max_particles` with what is emitted, nor with the renderer's
index type, and a renderer is called before it has a system. The model has
these steps, and where they lead: a main loop that is `undefined` after a store
past the streams (`AllocSmallSystem`) or a read through a pointer that nobody
initialised (`FillFromAnywhere`), or `endless` in a loop whose counter wraps
(`AssignSystem`). From there nothing is followed, and the properties are about
the life before.

Run `Particles`: four particles (`Emitted`; the code's 200), systems of three,
which is too few, four and five, an index type of five values (`USHORT_SIZE`),
which the last one is too large for, life spans of 0, 1 or for ever
(`INFINITY`), steps of 1 or 2, ages up to 3 (`MaxTime`): the first, a middle
and the last particle expire alone and together, in the same pass or in
different ones.

### ConstantBuffer

The union of each constant (0 for NULL, `Memory`, or the number that a texture's
name or a data source's id is), its `dealloc` flag, the floats allocated, and
the effect manager's table of data sources, which uses `IdxAllocator` too.
`BeginBind` to `EndBind` is the loop that a frame makes over the constants, a
texture unit for each sampler. Script, application and frames alternate.

A script may set any constant to a number, a table of any length, a texture or
a data texture, at any time, and a frame may bind a buffer of which nothing was
set: the code compares nothing, nor does the model. Where that writes, reads or
frees memory that is not the constant's, the step sets `undefined`, after which
nothing is followed.

Run `ConstantBuffer`: two samplers around a vector of two, tables of up to one
number more than fits, one texture, whose name is also the id of a source,
and three sources for a table of two: a source finds the table full, and a
binding finds a source that has gone. Sources are symmetric.

### GrowableArray, Mesh

`GrowableArray` has the operators of `rarray.c`; memory that nobody wrote reads
as `Garbage`. `Mesh` has its one user, `kl_mesh_recompute_normals`, which lists
the faces of each vertex in such arrays, and the rest of a mesh's life: arrays
that script functions allocate for the counts of their time, buffering, and a
frame that draws. No function compares its count with another's; the guards
`Agree` and `FaceNormalsFit` say what a script has to keep to. A frame comes
whether the script buffered what it set or not; `stale` is history and tells the
two apart. `num_tris` is what 16 bits hold of the number of faces.

Run `Mesh`: three or four vertices, five face lists, among them one with a face
and its back, one with a face that has a corner twice, one with a vertex of
six corners, and one of six faces of which `num_tris` counts one
(`UINT16_SIZE` is 5). `ElementSize` is the code's 2 and `InitialElements` 4,
where the code has 8, so that a list grows with its fourth face and six corners
make it grow. (The names that `Mesh` and `CocoaApp` share with other
specifications have a prefix, as in `MeshSpec` or `AppSpec`: they are extended
together with another.) Run `MeshNormals` has the property for every vertex,
which fails (see below); there `UINT16_SIZE` is the code's.

### CocoaApp, Application

`CocoaApp` is one life of the runtime in the application that ships with it: the
user interface's thread initialises, sets up rendering and tears down; the
display link's thread makes frames. `Initialize` may fail, for the application
ignores its result. The script is unthreaded and handles any number of the
queued events in a frame (how it does that is `ScriptFrames`). The log, with the
default callback or one of the application's, and the global rendering context
are part of the state.

Nobody waits for the frame under way when the user quits: `g_shutting_down` is
looked at once, and half a second later `kl_destroy` comes, whatever the frame
is at. `overtaken` marks that frame, and `FramesUseLive` excepts it: every other
one finds what it uses, and a frame that is overtaken is the last.

`Application` composes the two: frames are iterations of `MainloopClock`
(`StartIteration`, `FinishFrame`), made step by step (`StepIteration`) while
handlers run (`RunHandler`), time passes and the other thread goes on; without a
main script every iteration fails at its pump. Run `Application` has a timebase
of 3/2 and a tick of 4 ns, so both conversions lose something (a tick is 2.67
units, taken as 2), three iterations (`MaxFrames`) within 7 units (`MaxTime`),
jumps of up to 4 (`MaxStep`), two ticks, and two queued events (`MaxQueued`),
which is what launching posts. Fairness is that of a thread inside an iteration;
launching, quitting and the frames are the user's and the display's.

## The runs

| Run | Properties | Shows |
|---|---|---|
| `RingBuffer` | `IInv`, `Implements`, `SomeCallReturns` | three threads on a buffer of three slots: a bounded FIFO queue, and nobody keeps the mutex |
| `ScriptFrames` | `IInv`, `NotifiedOnce`, `AdvancesOncePerFrame`, `ScriptKeepsUp`, `InitComesFirst`, `DestroyTakesTwo`, `StringsCarriedOnce`, `FenceWaitEnds`, `DestroyReturns` | a script, threaded or pumped, that may fail stays in step, frames stay whole, and shutdown ends |
| `ScriptDestroy` | `DestroyHandled` (violated) | one iteration after `kl_predestroy` is not enough for Destroy |
| `ProcessManager` | `IInv`, `CalledOnce`, `CallsRegistered` | ids and callbacks stay consistent although callbacks change the tables that are walked |
| `RenderList` | `IndicesInv`, `DrawsOnlyLive`, `DrawsEveryInstance` | careful scripts: indices kept, frames draw all that lives and nothing else |
| `Application` | `IInv`, `TicksCatchUp`, `NoTickEarly`, `OnlyFramesLeftOut`, `FramesUseLive`, `FinalisersUseLive`, `IterationReturns` | two threads from launch to quit, with a clock that rounds, pauses and failed pumps |
| `MainloopTime` | `DtSinceLastCall` (violated) | `dt` is not the time since the last call |
| `EventDispatch` | `CalledOnce`, `MissedByRemoval`, `ComponentsInPlace` | handlers that subscribe and unsubscribe under the walk |
| `Particles` | `StreamsTogether`, `PassAdvancesAll` | a pass deals with every particle once and moves it whole |
| `ConstantBuffer` | `MemoryOwned`, `UnitsApart`, `SourcesInv` | constants set to anything: memory and its flags, texture units, ids of sources |
| `Mesh` | `ArraysFit`, `DrawsWithinBuffers`, `NormalsOfFewFaces` | consistent counts: no array is overrun, frames of what was buffered stay inside |
| `MeshNormals` | `NormalsOfAllFaces` (violated) | a vertex of many faces loses some of them |

Every passing run checks for deadlock. Only `MainloopTime`, which is to find a
violation, switches that off: its time ends.

## Where the code does not do what it says

Three runs find a disagreement:

- `MeshNormals`. `kl_rarray_resize` (`rarray.c:59`) copies as many bytes as the
  array has elements. When the list of a vertex's faces grows, with its eighth
  entry, only the first four are kept, and `kl_mesh_recompute_normals` reads
  uninitialised memory as face indices in place of the others. `mesh.h:135` says
  "Re-compute per-vertex normals".
- `ScriptDestroy`. An event that is sent between two iterations stands behind
  the end of a frame that the next iteration takes up, so `kl_predestroy`'s
  Destroy is handled in the iteration after the next. `fm.h:127` says that the
  scripts should be given at least one more iteration; with one, Destroy is
  freed with the queue. The Cocoa application makes none after
  `g_shutting_down`, although `Common.lua:63` says that the event occurs right
  before the engine is shut down. That the second iteration handles it is
  checked (`DestroyTakesTwo`) and proved.
- `MainloopTime`. `dt` starts at the end of the last frame, where
  `mainloop.c:155` reads the clock, and not at the last call, as
  `process.h:113` and `Common.lua:38` have it: what passes between the call and
  the end of its frame is in no `dt`. `OnlyFramesLeftOut` says what is left out
  all in all: the frames that came to their end, and nothing else.

Others came up while modelling and have no run of their own; changing a
constant of a run, or reading the model, shows them:

- The queue is full. Every caller ignores the result of enqueue. With
  `QueueCapacity = 4` and no fence, a frame has no AdvanceTime or several,
  against `Common.lua:36`; and the EOF of `kl_script_destroy` may be the event
  that is refused, so the join never returns.
- The script's thread is gone, by an error. The main loop waits on its fence for
  ever; `FenceWaitEnds` excepts this case.
- `particle_system.h:49` calls `max_particles` the maximum number of particles
  in a system; `particle_system.c:43` emits 200 whatever it is, past the end of
  a smaller one's streams (`AllocSmallSystem`).
- With more processes than ids, two processes have the id `UINT32_MAX`.
- The insertion order that `Render.lua:30` speaks of is that of the indices,
  which are reused: a list draws a later instance first when it got the place of
  one that was removed.
- The particle renderer's guard compares with `last_used_idx`, which nothing
  updates: after one update of the vertices no other happens.
- `kl_initialize` after `kl_destroy` trips assertions: `initialized` and the
  effect manager's global are not reset.

## Hazards and properties

`PROJECT.json` lists each hazard at its line. What each component must do:

| Component | Correct means | Property |
|---|---|---|
| ring buffer | a FIFO queue that loses and doubles nothing, whoever calls | `Implements` |
| | no caller is shut out | `SomeCallReturns` |
| script frames | one frame at a time is under way | `IInv` (`TurnInv`, `FenceInv`) |
| | a fence is notified once per frame | `NotifiedOnce` |
| | each frame has its one AdvanceTime | `AdvancesOncePerFrame` |
| | the script is never a frame behind | `ScriptKeepsUp` |
| | Init first, Destroy in the second iteration after it was sent | `InitComesFirst`, `DestroyTakesTwo` |
| | a console string has one owner | `StringsCarriedOnce` |
| | neither fence nor join waits for ever | `FenceWaitEnds`, `DestroyReturns` |
| clock | every due tick, none early; the dts leave out finished frames only | `TicksCatchUp`, `NoTickEarly`, `OnlyFramesLeftOut` |
| | the loop over the ticks ends | `IterationReturns` |
| process manager | ids unique, none lost | `IInv` (`IdsUnique`, `NoneLost`) |
| | a walk calls who is registered, once | `CallsRegistered`, `CalledOnce` |
| event dispatch | a walk calls nobody twice and passes over only whom a removal shifts | `CalledOnce`, `MissedByRemoval` |
| | components keep their subscriptions and names | `ComponentsInPlace` |
| render list | indices neither leak nor double | `IndicesInv` |
| | a frame draws all instances, and only live ones with live resources | `DrawsEveryInstance`, `DrawsOnlyLive` |
| particles | a particle moves with all its streams; a pass deals with each once | `StreamsTogether`, `PassAdvancesAll` |
| constants | memory is there for the constants that are flagged, and freed with them | `MemoryOwned` |
| | samplers do not share a unit; ids of sources do not leak or double | `UnitsApart`, `SourcesInv` |
| meshes | no array is overrun, and no buffer of what was buffered | `ArraysFit`, `DrawsWithinBuffers` |
| | a normal is made of its vertex's faces | `NormalsOfFewFaces` |
| application | frames, but for the one overtaken by quitting, and finalisers find what they use | `FramesUseLive`, `FinalisersUseLive` |

Some hazards have no property, and each entry says why. They are of three kinds.
Data races, which no state of the models stands for (`script.c:192`,
`render.c:221`), and the queue that is freed under a call (`ringbuffer.c:54`).
Outcomes that the models have and end in, for nothing follows from undefined
behaviour: a system that is too small, a counter that wraps, a table that
overruns a constant, a name that is freed as a pointer. And uses that the code
leaves to its callers without a word: an instance inserted twice, a list
collected while it is shown, a second thread that sends input, more processes
than ids, arrays of different counts. For the latter the models state what the
callers in the tree keep to (`MayInsert`, `MayRemove`, `MayUse`, `MayDrop`,
`OneUI`, `FewProcesses`, `Agree`, `FaceNormalsFit`), and the properties are
about such callers.

## Proofs

TLAPS checks every theorem for every value of the constants that satisfies the
modules' named assumptions. Every invariant that a passing run checks, and every
action property, is stated by a theorem; only liveness is not. The hypotheses of
single theorems are named below; each is met by a run, and the limits that they
draw are those of the code.

**RingBufferProofs.** `Invariance` is by an inductive invariant that adds to
the types that the mutex has one holder, and what that holder remembers of the
indices is current (`LocalsInv`); without the latter `Publish` could not be
shown to leave the occupied slots alone. `Refinement` maps the occupied slots
to the abstract queue; its step lemma needs the index arithmetic (`Grow`,
`Shrink`) for any size.

**ScriptFramesProofs.** `Invariance` holds in every mode, threaded or not,
fenced or not, with script errors and with a queue of any capacity, full or
not. Its heart is `TurnInv`: at most one EOF that somebody waits for is queued
or being acknowledged. `AcknowledgedOnce` (the assertion at `script.c:335`) is
one of its conjuncts, `FenceInv`. `StringsHaveOneOwner` has an invariant of its
own, `StringsInv`, and assumes `OneUI`, that one thread at most sends console
input: the event is assembled in a global.

The theorems about what is queued start from `BaseInv`, which adds
what the handler holds and that nothing but two EOFs is sent before Init. The
steps of the specification are first sorted (`StepKinds`) into those that send,
take or handle an event, end a frame, free the context, or leave the events as
they are, so that each invariant about the queue is proved against those kinds
and not against every action again.

- `InitIsFirst` needs only that the three events of the initialisation fit
  (`PrimersFit`): they are queued before anybody else may send. `FirstInv` says
  that Init is in one place at a time and that every AdvanceTime is behind it.
- `QueueRefusesNothing` is a count (`RoomInv`): behind the EOF that somebody
  waits for there are only events that may be sent at any time, and of those
  only so many are left to come (`ToCome`); so an iteration's own events find
  room. It assumes `QueueHasRoom`, room for one iteration's ticks, every
  console string and six more events, and `InStep`, that a threaded script is
  waited for. A short queue loses events, as does a script that nobody waits for
  (see above): the code does not look at what enqueue answers.
- `FramesStayWhole` and `ScriptIsInStep` follow with `FramesInv`: an AdvanceTime
  is queued only together with the EOF of its iteration, behind it, and there is
  one such pair at most.
- `SecondIterationHandlesDestroy` follows with `DestroyInv`, the stages that
  Destroy is at in the two iterations after it is sent. It needs no assumption
  about errors: an iteration that one ended is not counted, and the next pump
  goes on where it stopped.

**MainloopProofs** is about `Application` and its parts. For the clock, the
invariant relates the last tick to the number of ticks, and splits the time
since the start into frames and dts also in the middle of an iteration
(`AccountInv`). The arithmetic of the two conversions is in `QuotientOfSum` and
`TicksInSpan`. It assumes only that the timebase is positive and that a tick is
at least one unit long. For the application, `AppInv` says what is allocated in
which phase (`LifeInv`, `LogInv`), what there is of the rendering context
(`ContextInv`), and that no frame but an overtaken one is there when the
shutdown is (`ShutdownInv`). `ApplicationTypes` needs `QueueInv`, how many
events the two threads may post in each phase. Each step of the composition is
one of the clock, of the two threads, or of both (`ApplicationStep`), hence
`ApplicationImplements`, and what is proved of the parts holds of the whole
(`ApplicationCorrect`).

**ProcessManagerProofs.** All theorems assume `FewProcesses`. The invariant
says that the free list and the processes partition the ids (`FreeInv`,
`NoneLost`, whose step needs that a full free list has all ids, so that a
release is never refused), what the slots hold (`TablesInv`), and which of the
steady processes a walk has called so far (`WalkInv`).

**EventDispatchProofs.** For any table and any handlers. The walk's index and
its table move against each other, so the properties are counts of places in a
sequence: `PlacesRemove` and its companions say what a removal or an append does
to the number of places that hold a subscription of a kind. `CallsOf` (nobody
ahead of the index was called, nobody behind it twice) gives `NoSubscriberTwice`;
`CoverInv` (the index is at most the calls made plus `shifts`) gives
`PassedOverByRemoval`; `CountInv` (a handler has as many subscriptions as
registered components share it) and `BucketInv` give
`SubscriptionsMatchComponents`. The count is what is inductive: which of two
equal subscriptions belongs to which component, the code does not know either.

**RenderListProofs.** For every set of lists, instances and resources and every
list size. `PlacesInv` says that a live list's places are free, once, or have
an instance that knows its place, and that `max_idx` is not below any; for the
step of a removal this needs that a list with a taken place has a free list
that is not full (`NotFull`, a pigeonhole argument), so that the assertion of
`idxallocator.c:93` holds. `MadeInv` keeps a new list from being one that
somebody points at.

`LifeInv` is about the order of finalisation. The property itself, that what
somebody points at is alive, is not inductive: a collection may find the two
apart, or together. `Outlives` is what is: the target is held while its user is,
is found no sooner than its user, and is the older one where both are held,
or both were found. With `ShownInv` (what the renderer shows is held)
`FramesDrawWhatLives` follows, for the default targets of lists as well.

**GeometryProofs** is about `Particles` and `Mesh`. `PassInv` describes the
middle of a pass: the particles below the index were advanced, those from it on
are as they were, those that are gone were over. With it
`EveryParticleAdvancedOnce` holds for any number of particles, life spans and
dts, up to the step that ends in undefined behaviour, if one does.

For a mesh, `MeshInv` has the ranges of what the script set (`CountsInv`), what
the buffers hold (`BuffersInv`) and that every list of faces has room for one
entry more (`PlaceInv`, by `AppendLeavesRoom`), so that `rarray.c:73` writes
inside the allocation. `NormalsFromAllFaces` says that no face is lost before a
list grows, for meshes of any size: `TallyInv` is the loop's invariant, that a
list which has not grown has each face as often as the vertex was a corner of it
so far; `num_tris` has to count all faces. Both assume that a list is allocated for more than one entry
(`InitialAssumption`; the code's eight): with one, the first resize makes room
for none.

**ConstantBufferProofs.** `MemoryInv` ties `dealloc` to the allocation of each
constant while the buffer lives, and a pointer to memory to its flag; `UnitsInv`
describes the loop over the constants, where `num_tex` is the next unit and the
samplers before it have those below, of whatever kind they have become;
`IdsInv` is a count: free ids and sources with an id make up the table.
`StoredKinds` adds what unions, tables and units hold, and that no unit is told
past the number of constants. Undefined steps change nothing that these speak
of (`UndefinedKeepsIInv`): nothing is claimed after one.

Type correctness is a theorem of its own for every specification:
`TypeCorrectness`, and `ApplicationTypes` and `MeshTypes` for the two that share
a module with another.

Only model-checked, because they are liveness under fairness, which the prover
does not do: `SomeCallReturns`, `FenceWaitEnds`, `DestroyReturns`,
`IterationReturns`.

## Plan

| # | Module | What | State |
|---|---|---|---|
| 1 | `BoundedQueue`, `RingBuffer`, proofs | the queue of events | done |
| 2 | `ScriptFrames`, proofs | main loop and script in step | done |
| 3 | `IdxAllocator`, `ProcessManager`, proofs | ids and callbacks | done |
| 4 | `RenderList`, proofs | lists, instances, resources, collector | done |
| 5 | `MainloopClock`, proofs | ticks and dt | done |
| 6 | `CocoaApp`, `Application`, proofs | initialisation, rendering context, log, shutdown; composed with the clock | done |
| 7 | `EventDispatch`, proofs | subscriptions and components that change while they are walked | done |
| 8 | `ConstantBuffer`, proofs | constants, texture units, data sources | done |
| 9 | `Particles`, proofs | passes, vertices | done |
| 10 | `GrowableArray`, `Mesh`, proofs | capacity and contents, with its one user | done |

Worth adding: an abstract specification of the dispatch (a set of subscribers)
and of the process manager (a partial function from id to callbacks), with the
refinement of each proved; `EventDispatch` composed with the script's handler of
`ScriptFrames`; a second thread that frees the queue under a user interface's
call, once the code says what it expects there.

## What is not modelled, and why

The modules stand for most of the runtime's own control code. Of the tree as a
whole they cover a small share of the lines, and cannot cover much more: nearly
all of it is vendored (nedmalloc, OpenCTM with its LZMA coder, the thread
library, the logger), which the runtime uses through interfaces that the models
take as memory, mutex, thread and log. Of the runtime's own code there is left:

- Data races on `keep_running`, `fence->processed` and what a renderer in
  another thread would read: a state of the model takes each load and store as
  atomic. The hazards say where.
- `kl_init_ringbuffer`, `shader_constant_assigner.c`: nothing calls them.
- `kl_destroy_rendering`, which the application does not live to call, and
  freeing the process manager, after which nothing may be called.
- The event registry: two tables written at startup.
- A render list's setters of plain drawing state; a mesh's colours, which no
  function sets; the geometry-shader particle renderer, a second one
  of the same shape.
- OpenGL calls, loading of textures, shaders and meshes: input, output and the
  driver's state.
- Matrix, vector and noise arithmetic, the forces on particles, hashing:
  floating point and bit mixing without control.
- The bindings of arrays and vectors, and the script's L-system and shader
  table: no state beyond the element accessed.
- The SWIG-generated bindings, whose interface files are not in the tree.
- Build scripts, project files, documentation sources.
