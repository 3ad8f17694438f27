----------------------------- MODULE RenderList -----------------------------
(***************************************************************************)
(* render/render_list.c and its Lua binding scriptinterface/modules/       *)
(* render_list.c: lists of instances that kl_render_frame draws, and the   *)
(* resources they are drawn with (modules/mesh.c, shader.c, texture.c,     *)
(* render_target.c, constant_buffer.c).  All are Lua userdata that point   *)
(* at each other with plain pointers, and the renderer points at lists:    *)
(* nothing but the script's own references keeps a userdata alive, and the *)
(* collector's finalisers take apart what the script has let go of.        *)
(*                                                                         *)
(* The script, its collector and the renderer share one thread, as in the  *)
(* Cocoa application: a frame is drawn between two steps of the script.    *)
(***************************************************************************)
EXTENDS IdxAllocator, Integers, FiniteSets

CONSTANTS
  List,         \* RenderList userdata
  Instance,     \* RenderInstance userdata
  Resource,     \* Mesh, ShaderProgram, ConstantBuffer, RenderTarget and Texture userdata
  KindOf,       \* the kind of a resource
  NoList,       \* a NULL kl_render_list_t*
  NoInstance,   \* a NULL kl_render_instance_t*
  ListSize,     \* list_sz of RenderList.new
  NumLists      \* KL_RENDER_CTX_NUM_RENDER_LISTS

ASSUME SizesAssumption ==
  /\ ListSize \in Nat \ {0} /\ NumLists \in Nat \ {0}
  /\ UINT32_MAX \in Nat /\ ListSize <= UINT32_MAX
ASSUME NullsAssumption ==
  /\ NoList \notin List /\ NoInstance \notin Instance
  /\ List \cap Instance = {} /\ Resource \cap (List \cup Instance) = {}
ASSUME KindsAssumption ==
  KindOf \in [Resource -> {"mesh", "effect", "constants", "target", "texture"}]

VARIABLES
  free,        \* per list, its idx_alloc
  slots,       \* per list, its array of instances
  maxIdx,      \* per list, max_idx
  memory,      \* per userdata: "none", "live", "finalised", or "freed"
  inList,      \* per instance, inst->list
  listIndex,   \* per instance, inst->list_index
  uses,        \* what an instance is drawn with; the textures bound to a render target;
               \* the default target of a list
  renderList,  \* the render context's render_list
  elders,      \* per userdata, the older ones in the list in which Lua has it: that
               \* of all userdata, or that of those it is about to finalise
  held,        \* the userdata that the script can still reach
  pending,     \* those that the collector found unreachable and is about to finalise
  closed       \* lua_close was called

vars == <<free, slots, maxIdx, memory, inList, listIndex, uses, renderList, elders, held, pending, closed>>
lists == <<free, slots, maxIdx>>
instances == <<inList, listIndex>>
lua == <<elders, held, pending, closed>>

Slot == 0 .. ListSize - 1
Target == {r \in Resource : KindOf[r] = "target"}
Texture == {r \in Resource : KindOf[r] = "texture"}
Userdata == List \cup Instance \cup Resource
Shown == 0 .. NumLists - 1
User == Instance \cup Target \cup List
EmptyArray == [idx \in Slot |-> NoInstance]
Live == {u \in Userdata : memory[u] = "live"}

Init ==
  /\ free = [l \in List |-> <<>>]
  /\ slots = [l \in List |-> EmptyArray]
  /\ maxIdx = [l \in List |-> -1]
  /\ memory = [u \in Userdata |-> "none"]
  /\ inList = [i \in Instance |-> NoList]
  /\ listIndex = [i \in Instance |-> UINT32_MAX]
  /\ uses = [u \in User |-> {}]
  /\ renderList = [k \in Shown |-> NoList]
  /\ elders = [u \in Userdata |-> {}]
  /\ held = {} /\ pending = {} /\ closed = FALSE

-----------------------------------------------------------------------------
(* The binding's functions, called by the script *)

Create(u) ==
  /\ ~closed
  /\ memory[u] = "none"
  /\ memory' = [memory EXCEPT ![u] = "live"]
  /\ elders' = [elders EXCEPT ![u] = Live \ pending]
  /\ held' = held \cup {u}
  /\ UNCHANGED <<uses, renderList, pending, closed>>

\* RenderList.new
NewList(l) ==
  /\ Create(l)
  /\ free' = [free EXCEPT ![l] = AllFree(ListSize)]
  /\ UNCHANGED <<slots, maxIdx, instances>>

\* RenderInstance.new
NewInstance(i) == Create(i) /\ UNCHANGED <<lists, instances>>

\* Mesh.new, ShaderProgram.allocate, ConstantBuffer.new, RenderTarget.new and
\* Texture.new, when they succeed: a failure leaves nothing behind.
NewResource(r) == Create(r) /\ UNCHANGED <<lists, instances>>

\* Mutant: max_idx follows the instance inserted last.
InsertMovingMax(l, i) ==
  LET idx == Reserved(free[l]) IN
    /\ {l, i} \subseteq held
    /\ free' = [free EXCEPT ![l] = AfterReserve(@)]
    /\ slots' = IF idx \in Slot THEN [slots EXCEPT ![l][idx] = i] ELSE slots
    /\ maxIdx' = IF idx \in Slot THEN [maxIdx EXCEPT ![l] = idx] ELSE maxIdx
    /\ listIndex' = [listIndex EXCEPT ![i] = idx]
    /\ inList' = [inList EXCEPT ![i] = l]
    /\ UNCHANGED <<memory, uses, renderList, lua>>

\* list:insert(inst), kl_render_list_insert_instance.  A full list answers
\* UINT32_MAX, -1 as an int32_t: the store lands before the array, in the heap's
\* own records, which are not modelled; max_idx stays, and the instance has a list
\* but no index.
Insert(l, i) ==
  LET idx == Reserved(free[l]) IN
    /\ {l, i} \subseteq held
    /\ free' = [free EXCEPT ![l] = AfterReserve(@)]
    /\ slots' = IF idx \in Slot THEN [slots EXCEPT ![l][idx] = i] ELSE slots
    /\ maxIdx' = IF idx \in Slot /\ maxIdx[l] < idx THEN [maxIdx EXCEPT ![l] = idx] ELSE maxIdx
    /\ listIndex' = [listIndex EXCEPT ![i] = idx]
    /\ inList' = [inList EXCEPT ![i] = l]
    /\ UNCHANGED <<memory, uses, renderList, lua>>

\* Mutant: the index is not given back.
RemoveLosingIndex(l, i) ==
  IF listIndex[i] # UINT32_MAX
  THEN LET idx == listIndex[i] IN
         /\ slots' = [slots EXCEPT ![l][idx] = NoInstance]
         /\ maxIdx' = [maxIdx EXCEPT ![l] = IF @ = idx THEN idx - 1 ELSE @]
         /\ listIndex' = [listIndex EXCEPT ![i] = UINT32_MAX]
         /\ inList' = [inList EXCEPT ![i] = NoList]
         /\ UNCHANGED free
  ELSE UNCHANGED <<lists, instances>>

\* kl_render_list_remove_instance, which looks at the instance's index only.
RemoveInstance(l, i) ==
  IF listIndex[i] # UINT32_MAX
  THEN LET idx == listIndex[i] IN
         /\ slots' = [slots EXCEPT ![l][idx] = NoInstance]
         /\ maxIdx' = [maxIdx EXCEPT ![l] = IF @ = idx THEN idx - 1 ELSE @]
         /\ free' = [free EXCEPT ![l] = AfterRelease(@, ListSize, idx)]
         /\ listIndex' = [listIndex EXCEPT ![i] = UINT32_MAX]
         /\ inList' = [inList EXCEPT ![i] = NoList]
  ELSE UNCHANGED <<lists, instances>>

\* list:remove(inst), RenderList_removeinst
RemoveFrom(l, i) ==
  /\ {l, i} \subseteq held
  /\ RemoveInstance(l, i)
  /\ UNCHANGED <<memory, uses, renderList, lua>>

OfKind(k) == {r \in Resource : KindOf[r] = k}

\* inst:setmesh, seteffect, setconstantbuffer, setrendertarget, and
\* list:setdefaulttarget: one of a kind.
SetResource(u, r) ==
  /\ {u, r} \subseteq held
  /\ KindOf[r] # "texture" /\ (u \in List => r \in Target)
  /\ uses' = [uses EXCEPT ![u] = (@ \ OfKind(KindOf[r])) \cup {r}]
  /\ UNCHANGED <<lists, memory, instances, renderList, lua>>

\* inst:setrendertarget(nil), list:setdefaulttarget(nil)
ClearTarget(u) ==
  /\ u \in held
  /\ uses' = [uses EXCEPT ![u] = @ \ Target]
  /\ UNCHANGED <<lists, memory, instances, renderList, lua>>

\* target:bindtexture(texture, index): in place of the one at that index, kept
\* when the framebuffer then turns out to be incomplete.
BindTexture(t, x) ==
  /\ {t, x} \subseteq held
  /\ \E old \in SUBSET uses[t] :
       Cardinality(old) <= 1 /\ uses' = [uses EXCEPT ![t] = (@ \ old) \cup {x}]
  /\ UNCHANGED <<lists, memory, instances, renderList, lua>>

\* Manicotti.setrenderlist(list, index): an index past the last is refused; a
\* negative one is accepted, and the store lands before the lists, on the
\* contexts of module CocoaApp.
SetRenderList(l, k) ==
  /\ ~closed
  /\ l \in held \cup {NoList}
  /\ k < NumLists
  /\ renderList' = IF k < 0 THEN renderList ELSE [renderList EXCEPT ![k] = l]
  /\ UNCHANGED <<lists, memory, instances, uses, lua>>

-----------------------------------------------------------------------------
(* Lua's memory: references dropped, the collector, lua_close *)

\* The script lets go of its last reference.
Drop(u) ==
  /\ u \in held
  /\ held' = held \ {u}
  /\ UNCHANGED <<lists, memory, instances, uses, renderList, elders, pending, closed>>

\* The userdata that the script has let go of are found, to be finalised one by
\* one while the script goes on; the memory of those finalised in the cycle
\* before is freed.
Collect ==
  /\ ~closed
  /\ pending = {}
  /\ pending' = Live \ held
  /\ pending' # {} \/ \E u \in Userdata : memory[u] = "finalised"
  /\ memory' = [u \in Userdata |-> IF memory[u] = "finalised" THEN "freed" ELSE memory[u]]
  /\ elders' = [u \in Userdata |-> elders[u] \cap (IF u \in held THEN held ELSE pending')]
  /\ UNCHANGED <<lists, instances, uses, renderList, held, closed>>

\* kl_script_destroy calls lua_close, which finalises everything.  The renderer
\* draws no more.
Close ==
  /\ ~closed
  /\ closed' = TRUE
  /\ held' = {}
  /\ UNCHANGED <<lists, memory, instances, uses, renderList, elders, pending>>

\* The userdata to be finalised next: the youngest of those that the collector
\* found; of all, when lua_close has finished with these.
Due ==
  LET left == IF closed /\ pending = {} THEN Live ELSE pending
  IN  {u \in left : \A v \in left : u \notin elders[v]}

\* What is left of u has the given fate.
Finalise(u, fate) ==
  /\ u \in Due
  /\ memory' = [memory EXCEPT ![u] = fate]
  /\ elders' = [v \in Userdata |-> IF v = u THEN {} ELSE elders[v] \ {u}]
  /\ pending' = pending \ {u}
  /\ UNCHANGED <<uses, renderList, held, closed>>

\* RenderList_gc, kl_render_list_deinit
FinaliseList(l) ==
  /\ Finalise(l, "finalised")
  /\ slots' = [slots EXCEPT ![l] = EmptyArray]
  /\ maxIdx' = [maxIdx EXCEPT ![l] = -1]
  /\ free' = [free EXCEPT ![l] = <<>>]
  /\ UNCHANGED instances

\* Mutant: the instance stays where it is.
FinaliseInstanceInPlace(i) ==
  /\ Finalise(i, "freed")
  /\ UNCHANGED <<lists, instances>>

\* RenderInstance_gc takes the instance out of its list and frees it.
FinaliseInstance(i) ==
  /\ Finalise(i, "freed")
  /\ IF inList[i] # NoList THEN RemoveInstance(inList[i], i) ELSE UNCHANGED <<lists, instances>>

\* Mesh_gc and the other finalisers delete the GL objects.  The userdata itself,
\* which instances and targets point at, is freed in the cycle after; a mesh,
\* which is allocated apart, at once.
FinaliseResource(r) ==
  /\ Finalise(r, IF KindOf[r] = "mesh" THEN "freed" ELSE "finalised")
  /\ UNCHANGED <<lists, instances>>

-----------------------------------------------------------------------------
(* The binding leaves it to the script to use its userdata so that no pointer *)
(* outlives what it points at.  The scripts in the tree (Cocoa main.lua) do:  *)
(* they keep a list in a global, create its instances after it and after      *)
(* their resources, and insert each once.                                     *)

Older(u, v) == u \in elders[v]

\* An instance goes into a list that is older, and out of it before it goes
\* into a list again.
MayInsert(l, i) == Older(l, i) /\ listIndex[i] = UINT32_MAX
MayRemove(l, i) == inList[i] = l \/ listIndex[i] = UINT32_MAX

\* An instance, a target or a list is drawn with what is older.
MayUse(u, r) == Older(r, u)

\* A list outlives its use by the renderer and by the instances in it, and a
\* resource the instances and targets that use it.
MayDrop(u) ==
  /\ \A k \in Shown : renderList[k] # u
  /\ \A i \in held \cap Instance : listIndex[i] # UINT32_MAX => inList[i] # u
  /\ \A v \in held \cap DOMAIN uses : u \notin uses[v]

Script ==
  \/ \E l \in List : NewList(l)
  \/ \E i \in Instance : NewInstance(i)
  \/ \E l \in List, i \in Instance : MayInsert(l, i) /\ Insert(l, i)
  \/ \E l \in List, i \in Instance : MayRemove(l, i) /\ RemoveFrom(l, i)
  \/ \E l \in List \cup {NoList}, k \in -1 .. NumLists - 1 : SetRenderList(l, k)
  \/ \E u \in Userdata : MayDrop(u) /\ Drop(u)

Resources ==
  \/ \E r \in Resource : NewResource(r)
  \/ \E u \in Instance \cup List, r \in Resource : MayUse(u, r) /\ SetResource(u, r)
  \/ \E u \in Instance \cup List : ClearTarget(u)
  \/ \E t \in Target, x \in Texture : MayUse(t, x) /\ BindTexture(t, x)

Collector ==
  \/ Collect
  \/ \E l \in List : FinaliseList(l)
  \/ \E i \in Instance : FinaliseInstance(i)
  \/ \E r \in Resource : FinaliseResource(r)

\* Nothing is left to do once the last userdata is finalised.
Closed == closed /\ Live = {} /\ UNCHANGED vars

Next == Script \/ Resources \/ Collector \/ Close \/ Closed

Spec == Init /\ [][Next]_vars

-----------------------------------------------------------------------------
TypeOK ==
  /\ free \in [List -> Seq(Slot)]
  /\ slots \in [List -> [Slot -> Instance \cup {NoInstance}]]
  /\ maxIdx \in [List -> -1 .. ListSize - 1]
  /\ memory \in [Userdata -> {"none", "live", "finalised", "freed"}]
  /\ inList \in [Instance -> List \cup {NoList}]
  /\ listIndex \in [Instance -> Slot \cup {UINT32_MAX}]
  /\ uses \in [User -> SUBSET Resource]
  /\ renderList \in [Shown -> List \cup {NoList}]
  /\ elders \in [Userdata -> SUBSET Userdata]
  /\ held \subseteq Userdata /\ pending \subseteq Userdata
  /\ closed \in BOOLEAN

\* Every index of a live list is free, once, or the place of one instance that
\* knows its list and its index (idxallocator.c:93 "Index was freed twice.").
IndicesInv ==
  \A l \in List : memory[l] = "live" =>
    /\ \A j, k \in DOMAIN free[l] : free[l][j] = free[l][k] => j = k
    /\ \A idx \in Slot :
         (slots[l][idx] = NoInstance) = (\E j \in DOMAIN free[l] : free[l][j] = idx)
    /\ \A idx \in Slot : slots[l][idx] # NoInstance =>
         inList[slots[l][idx]] = l /\ listIndex[slots[l][idx]] = idx

\* What kl_render_frame reads of a list (render.c:213-234): its slots up to max_idx.
Drawn(l) == {slots[l][idx] : idx \in 0 .. maxIdx[l]} \ {NoInstance}

\* What an instance, or a list, is drawn with: its resources, and its target's
\* textures.
DrawnWith(u) == uses[u] \cup UNION {uses[t] : t \in uses[u] \cap Target}

\* A frame drawn at any moment reads no list and no instance that was freed,
\* although dropped instances stay in the list until they are collected, and
\* uses no mesh, effect, constants, target or texture that was finalised: when the
\* script drops an instance together with what it is drawn with, the instance
\* leaves its list before they go (render.c:221-290).
DrawsOnlyLive ==
  ~closed => \A k \in Shown : renderList[k] # NoList =>
    /\ memory[renderList[k]] # "freed"
    /\ \A i \in Drawn(renderList[k]) : memory[i] = "live"
    /\ \A u \in {renderList[k]} \cup Drawn(renderList[k]) :
         \A r \in DrawnWith(u) : memory[r] = "live"

\* A frame draws every instance that was given an index in the list: max_idx
\* never drops below one of them (render_list.c:55, 64).
DrawsEveryInstance ==
  \A l \in List, i \in Instance :
    memory[l] = "live" /\ inList[i] = l /\ listIndex[i] # UINT32_MAX => i \in Drawn(l)
=============================================================================
