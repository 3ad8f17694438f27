--------------------------- MODULE ConstantBuffer ---------------------------
(***************************************************************************)
(* The constants of a shader, from the script that sets them to the        *)
(* uniforms of a frame: modules/constant_buffer.c keeps a value or the     *)
(* name of a texture per constant in a garbage-collected buffer, and       *)
(* effect_manager.c assigns them, a texture unit for each sampler, asking  *)
(* data sources that the application registers for the textures that are   *)
(* computed.  Script, collector and renderer run in one thread.            *)
(* Nothing compares what a script sets with what the constant is: where    *)
(* the code writes, reads or frees memory that is not the constant's, the  *)
(* step ends in `undefined', after which nothing is said.                  *)
(***************************************************************************)
EXTENDS IdxAllocator, Integers, FiniteSets

CONSTANTS
  NumConstants,     \* GL_ACTIVE_UNIFORMS of the effect
  KindOf, SizeOf,   \* per constant: constant_type, constant_sz * constant_num
  Texture,          \* the GL names of textures
  Memory,           \* in a union, the pointer to the memory allocated for it
  UINT16_MAX,       \* data_texture, 16 bits, of an id that is past the table
  Source,           \* the application's data sources, by their contexts
  NoSource,         \* NULL in a table
  MaxSources        \* KL_EFFECT_MANAGER_MAX_DATA_SOURCES

Constant == 0 .. NumConstants - 1
Id == 0 .. MaxSources - 1

\* "SCREEN" is the matrix object_to_screen, which the renderer has itself.
ASSUME ConstantsAssumption ==
  /\ NumConstants \in Nat /\ MaxSources \in Nat \ {0}
  /\ UINT32_MAX \in Nat /\ MaxSources <= UINT32_MAX
  /\ UINT16_MAX \in Nat /\ MaxSources <= UINT16_MAX
  /\ KindOf \in [Constant -> {"SCREEN", "MATRIX", "FLOAT", "INT", "TEX"}]
  /\ SizeOf \in [Constant -> Nat \ {0}]
  /\ Texture \subseteq Nat \ {0} /\ Memory \notin Nat
  /\ NoSource \notin Source

VARIABLES
  buffer,           \* the life of the ConstantBuffer userdata
  type,             \* constant_type, which a data texture changes for good
  union,            \* the union `constant`: Memory, or the number that as_tex is
  dealloc,          \* dealloc_constant
  block,            \* per constant, the floats of the memory allocated for it (0: freed)
  free,             \* the id_allocator of the effect manager
  source, context,  \* data_source and data_source_context, by whose they are
  registered,       \* the sources the application has registered
  sourceId,         \* per source, the id it was given
  bound,            \* the index of the loop over the constants; -1 outside of it
  numTex,           \* num_tex
  units,            \* per texture unit, the constant whose texture it has
  unitOf,           \* per sampler, the unit it was told
  undefined         \* memory was written, read or freed that is not the constant's

constants == <<buffer, type, union, dealloc, block>>
manager == <<free, source, context, registered, sourceId>>
binding == <<bound, numTex, units, unitOf>>
vars == <<constants, manager, binding, undefined>>

Undefined == undefined' = TRUE /\ UNCHANGED <<constants, manager, binding>>

Init ==
  /\ buffer = "none"
  /\ type = KindOf /\ union = [c \in Constant |-> 0]
  /\ dealloc = [c \in Constant |-> FALSE] /\ block = [c \in Constant |-> 0]
  /\ free = AllFree(MaxSources)
  /\ source = [id \in Id |-> NoSource] /\ context = source
  /\ registered = {} /\ sourceId = [s \in Source |-> 0]
  /\ bound = -1 /\ numTex = 0
  /\ units = [u \in Constant |-> u] /\ unitOf = [c \in Constant |-> 0]
  /\ undefined = FALSE

-----------------------------------------------------------------------------
(* The script, outside of a frame.                                         *)

\* ConstantBuffer_new: zeroed memory.
NewBuffer ==
  /\ buffer = "none"
  /\ buffer' = "live"
  /\ type' = KindOf /\ union' = [c \in Constant |-> 0]
  /\ dealloc' = [c \in Constant |-> FALSE]
  /\ UNCHANGED <<block, manager, binding, undefined>>

\* as_float_ptr == NULL: as_tex is the low half of the pointer, and the high half
\* is of memory once there was some.
IsNull(c) == union[c] = 0 /\ ~dealloc[c]

\* Floats are written to the union's memory, allocated when it is NULL.
WriteFloats(c, allocated, written) ==
  \/ /\ IsNull(c) /\ written <= allocated
     /\ union' = [union EXCEPT ![c] = Memory]
     /\ dealloc' = [dealloc EXCEPT ![c] = TRUE]
     /\ block' = [block EXCEPT ![c] = allocated]
     /\ UNCHANGED <<buffer, type, manager, binding, undefined>>
  \/ /\ ~IsNull(c) /\ (written = 0 \/ (union[c] = Memory /\ written <= block[c]))
     /\ UNCHANGED vars
  \/ /\ IF IsNull(c) THEN written > allocated
        ELSE written > 0 /\ (union[c] = Memory => written > block[c])
     /\ Undefined

\* ShaderConstant_set with a number, which is written to the first float.
SetNumber(c) == buffer = "live" /\ WriteFloats(c, 1, 1)

\* ShaderConstant_set with a table of n numbers, in tables of it or not.  The
\* constant_sz of a matrix is its number of columns.
SetTable(c, n) == buffer = "live" /\ WriteFloats(c, SizeOf[c], n)

\* ShaderConstant_set with a texture or a render target, whatever the constant
\* is.  Neither its type is set back to TEX nor is its memory freed.
SetTexture(c, t) ==
  /\ buffer = "live"
  /\ union' = [union EXCEPT ![c] = t]
  /\ UNCHANGED <<buffer, type, dealloc, block, manager, binding, undefined>>

\* ShaderConstant_set with a texture of a data source, Texture.new(id) of any id.
SetDataTexture(c, id) ==
  /\ buffer = "live"
  /\ type' = [type EXCEPT ![c] = "DATA"]
  /\ union' = [union EXCEPT ![c] = id]
  /\ UNCHANGED <<buffer, dealloc, block, manager, binding, undefined>>

\* Mutant: the last constant is left out.
FinaliseAllButLast ==
  /\ buffer = "live"
  /\ \/ /\ \A c \in Constant : dealloc[c] /\ c + 1 < NumConstants => union[c] = Memory
        /\ buffer' = "none"
        /\ block' = [c \in Constant |-> IF dealloc[c] /\ c + 1 < NumConstants
                                        THEN 0 ELSE block[c]]
        /\ UNCHANGED <<type, union, dealloc, manager, binding, undefined>>
     \/ /\ \E c \in Constant : dealloc[c] /\ c + 1 < NumConstants /\ union[c] # Memory
        /\ Undefined

\* ConstantBuffer_gc; the script holds neither the buffer nor a constant of it,
\* which points into the buffer without keeping it.  A name that was stored
\* over the pointer is freed as one.
FinaliseBuffer ==
  /\ buffer = "live"
  /\ \/ /\ \A c \in Constant : dealloc[c] => union[c] = Memory
        /\ buffer' = "none"
        /\ block' = [c \in Constant |-> IF dealloc[c] THEN 0 ELSE block[c]]
        /\ UNCHANGED <<type, union, dealloc, manager, binding, undefined>>
     \/ /\ \E c \in Constant : dealloc[c] /\ union[c] # Memory
        /\ Undefined

Script ==
  /\ bound = -1
  /\ \/ NewBuffer \/ FinaliseBuffer
     \/ \E c \in Constant :
          \/ SetNumber(c)
          \/ \E n \in 0 .. SizeOf[c] + 1 : SetTable(c, n)
          \/ \E t \in Texture : SetTexture(c, t)
          \/ \E id \in Id \union {UINT16_MAX} : SetDataTexture(c, id)

-----------------------------------------------------------------------------
(* The application's data sources.                                         *)

\* kl_effect_manager_register_data_source; UINT32_MAX when the table is full.
Register(s) ==
  LET id == Reserved(free) IN
  /\ s \notin registered
  /\ free' = AfterReserve(free)
  /\ source' = IF id < MaxSources THEN [source EXCEPT ![id] = s] ELSE source
  /\ context' = IF id < MaxSources THEN [context EXCEPT ![id] = s] ELSE context
  /\ sourceId' = [sourceId EXCEPT ![s] = id]
  /\ registered' = registered \union {s}
  /\ UNCHANGED <<constants, binding, undefined>>

UnregisterKeepingFunction(s) ==
  /\ s \in registered
  /\ LET id == sourceId[s] IN
       IF id < MaxSources
       THEN /\ context' = [context EXCEPT ![id] = NoSource]
            /\ free' = AfterRelease(free, MaxSources, id)
       ELSE UNCHANGED <<context, free>>
  /\ registered' = registered \ {s}
  /\ UNCHANGED <<source, sourceId, constants, binding, undefined>>

\* kl_effect_manager_unregister_data_source, called once for a registered
\* source, also for one that got no id.
Unregister(s) ==
  /\ s \in registered
  /\ LET id == sourceId[s] IN
       IF id < MaxSources
       THEN /\ source' = [source EXCEPT ![id] = NoSource]
            /\ context' = [context EXCEPT ![id] = NoSource]
            /\ free' = AfterRelease(free, MaxSources, id)
       ELSE UNCHANGED <<source, context, free>>
  /\ registered' = registered \ {s}
  /\ UNCHANGED <<sourceId, constants, binding, undefined>>

Application == bound = -1 /\ \E s \in Source : Register(s) \/ Unregister(s)

-----------------------------------------------------------------------------
(* kl_effect_manager_bind_effect, with an effect.                          *)

BeginBind ==
  /\ bound = -1 /\ buffer = "live"
  /\ bound' = 0 /\ numTex' = 0
  /\ UNCHANGED <<units, unitOf, constants, manager, undefined>>

\* glUniform* finds what it reads: of a matrix it reads sixteen floats each, more
\* than were allocated, and of a constant that was never set, through NULL.
Readable(c) ==
  \/ type[c] = "SCREEN"
  \/ type[c] \in {"FLOAT", "INT"} /\ union[c] = Memory /\ block[c] >= SizeOf[c]

AssignUniform ==
  /\ bound \in Constant /\ type[bound] \in {"SCREEN", "MATRIX", "FLOAT", "INT"}
  /\ \/ /\ Readable(bound) /\ bound' = bound + 1
        /\ UNCHANGED <<numTex, units, unitOf, constants, manager, undefined>>
     \/ ~Readable(bound) /\ Undefined

\* TEX: the next texture unit is told to the uniform and bound to the texture.
AssignTexture ==
  /\ bound \in Constant /\ type[bound] = "TEX"
  /\ unitOf' = [unitOf EXCEPT ![bound] = numTex]
  /\ units' = [units EXCEPT ![numTex] = bound]
  /\ bound' = bound + 1 /\ numTex' = numTex + 1
  /\ UNCHANGED <<constants, manager, undefined>>

\* Mutant: a source that is gone does not count.
AssignDataCountingBound ==
  LET id == union[bound] IN
  /\ bound \in Constant /\ type[bound] = "DATA"
  /\ \/ /\ id \in Id
        /\ unitOf' = [unitOf EXCEPT ![bound] = numTex]
        /\ units' = IF source[id] # NoSource THEN [units EXCEPT ![numTex] = bound] ELSE units
        /\ bound' = bound + 1
        /\ numTex' = IF source[id] # NoSource THEN numTex + 1 ELSE numTex
        /\ UNCHANGED <<constants, manager, undefined>>
     \/ id \notin Id /\ Undefined

\* DATA: likewise, with the texture that the source answers; a source that is
\* gone leaves the unit as it was, but takes it.  The number is not compared
\* with the size of the table, and may be the name of a texture.
AssignData ==
  LET id == union[bound] IN
  /\ bound \in Constant /\ type[bound] = "DATA"
  /\ \/ /\ id \in Id
        /\ unitOf' = [unitOf EXCEPT ![bound] = numTex]
        /\ units' = IF source[id] # NoSource THEN [units EXCEPT ![numTex] = bound] ELSE units
        /\ bound' = bound + 1 /\ numTex' = numTex + 1
        /\ UNCHANGED <<constants, manager, undefined>>
     \/ id \notin Id /\ Undefined

EndBind ==
  /\ bound = NumConstants
  /\ bound' = -1
  /\ UNCHANGED <<numTex, units, unitOf, constants, manager, undefined>>

Bind == BeginBind \/ AssignUniform \/ AssignTexture \/ AssignData \/ EndBind

Lost == undefined /\ UNCHANGED vars

Next == (~undefined /\ (Script \/ Application \/ Bind)) \/ Lost

Spec == Init /\ [][Next]_vars

-----------------------------------------------------------------------------
Sampler == {c \in Constant : type[c] \in {"TEX", "DATA"}}

TypeOK ==
  /\ buffer \in {"none", "live"}
  /\ type \in [Constant -> {"SCREEN", "MATRIX", "FLOAT", "INT", "TEX", "DATA"}]
  /\ union \in [Constant -> {0, UINT16_MAX, Memory} \union Texture \union Id]
  /\ dealloc \in [Constant -> BOOLEAN] /\ block \in [Constant -> Nat]
  /\ \A k \in DOMAIN free : free[k] \in Id
  /\ source \in [Id -> Source \union {NoSource}] /\ context \in [Id -> Source \union {NoSource}]
  /\ registered \subseteq Source /\ sourceId \in [Source -> Id \union {UINT32_MAX}]
  /\ bound \in -1 .. NumConstants /\ numTex \in 0 .. NumConstants
  /\ units \in [Constant -> Constant] /\ unitOf \in [Constant -> Constant]
  /\ undefined \in BOOLEAN

\* Whatever is set over what, dealloc_constant says of each constant that there
\* is memory of it, and all of that is freed with the buffer; a pointer to
\* memory is never without its flag.
MemoryOwned == \A c \in Constant :
  /\ block[c] # 0 <=> buffer = "live" /\ dealloc[c]
  /\ buffer = "live" /\ union[c] = Memory => dealloc[c]

\* When all constants are assigned, each sampler reads a unit of its own, and
\* the unit still has its texture, unless its source was unregistered.
UnitsApart ==
  bound = NumConstants => \A c \in Sampler :
    /\ \A d \in Sampler : c # d => unitOf[c] # unitOf[d]
    /\ (type[c] = "DATA" => source[union[c]] # NoSource) => units[unitOf[c]] = c

\* Every id is either free, once, or of one registered source that finds its
\* function and its context there: also after a source that found the table
\* full was unregistered like any other.
SourcesInv ==
  LET withId == {s \in registered : sourceId[s] \in Id} IN
  /\ Len(free) + Cardinality(withId) = MaxSources
  /\ \A j, k \in DOMAIN free : j # k => free[j] # free[k]
  /\ \A s \in withId : source[sourceId[s]] = s /\ context[sourceId[s]] = s
  /\ \A k \in DOMAIN free : source[free[k]] = NoSource /\ context[free[k]] = NoSource
=============================================================================
