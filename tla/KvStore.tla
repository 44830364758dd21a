------------------------------- MODULE KvStore -------------------------------
(***************************************************************************)
(* The NVFP4 KV cache of one layer: where the store kernel puts the packed *)
(* data and the block scales of a token, and where the attention kernels   *)
(* look for them.                                                          *)
(*                                                                         *)
(* Two writers exist.  The stock one always swizzles the scales of V for   *)
(* the SM100 reader; the overlay, compiled when vLLM starts, swizzles only *)
(* below device major 12 and takes the place of the stock one on GB10.     *)
(* Two readers exist: trtllm-gen (SM100, swizzled) and FA2 (GB10, linear). *)
(*                                                                         *)
(* What quantisation computes is abstracted: a cell holds the name of the  *)
(* group of 16 elements it belongs to.  Memory is byte-addressed; a slot   *)
(* is numbered through all pages, and a page is freed and reused by any    *)
(* later launch.                                                           *)
(***************************************************************************)
EXTENDS Integers, FiniteSets

CONSTANTS
  NumPages,    \* blocks of the cache
  BlockSize,   \* tokens of a page (page_size, block_size)
  Heads,       \* num_kv_heads
  ScaleDim,    \* groups of a head: head_size / 16
  GroupBytes,  \* packed bytes of a group: 8
  Majors,      \* device capability majors the server may run on
  OverlayMayFail,  \* the import of the overlay may raise
  UsedSlots,   \* bound: slots the scheduler hands out
  MaxTokens,   \* bound: tokens of one launch
  MaxLaunches  \* bound: launches of the store kernel

ASSUME SizeAssumption ==
  /\ NumPages \in Nat \ {0} /\ BlockSize \in Nat \ {0} /\ Heads \in Nat \ {0}
  /\ ScaleDim \in Nat \ {0} /\ GroupBytes \in Nat \ {0}
(* The kernel block sizes are multiples of 16, the head sizes of 64.       *)
ASSUME TileAssumption == BlockSize % 4 = 0 /\ ScaleDim % 4 = 0
ASSUME MajorAssumption == Majors \subseteq {10, 12} /\ OverlayMayFail \in BOOLEAN
ASSUME BoundAssumption ==
  /\ UsedSlots \subseteq 0..(NumPages * BlockSize - 1)
  /\ MaxTokens \in Nat /\ MaxLaunches \in Nat

VARIABLES
  major,     \* get_device_capability().major
  layout,    \* get_kv_cache_layout()
  overlay,   \* is vllm_gb10_nvfp4kv imported: "no", "active" or "failed"
  engine,    \* "starting", "serving" or "refused"
  mem,       \* the bytes of the cache
  launches,  \* store kernels launched; also the name of the latest one
  pending,   \* <<slot, side>> the blocks of the latest launch have to store
  owner      \* history: the last launch that was given each slot

vars == <<major, layout, overlay, engine, mem, launches, pending, owner>>

-----------------------------------------------------------------------------
(* The layout of a page: [K_data | K_scale | V_data | V_scale].            *)

DataDim == ScaleDim * GroupBytes
FullDim == DataDim + ScaleDim

Sides == {0, 1}                      \* K and V
HeadIds == 0..(Heads - 1)
Groups == 0..(ScaleDim - 1)
Slots == 0..(NumPages * BlockSize - 1)

PageBytes == 2 * Heads * BlockSize * FullDim
Bytes == 0..(NumPages * PageBytes - 1)

(* kv_cache.transpose(1, 2).split(num_kv_heads, dim=-2): the address of    *)
(* value_cache relative to key_cache, in the physical layout.              *)
SideOffset(kv) ==
  kv * (IF layout = "HND" THEN Heads * BlockSize * FullDim ELSE Heads * FullDim)

(* Mutant: the scales of a side follow all of the side's bytes. *)
DataPerSide == Heads * BlockSize * FullDim

(* data_per_kv: the scales of a side follow its data *)
DataPerKv == Heads * BlockSize * DataDim

(* The strides the dispatch derives from the cache it is given; a head (or *)
(* token) row is dim bytes long.                                           *)
Inside(head, token, dim) ==
  IF layout = "HND" THEN head * (BlockSize * dim) + token * dim
  ELSE head * dim + token * (Heads * dim)

DataAt(slot, kv, head, g) ==
  (slot \div BlockSize) * PageBytes + SideOffset(kv)
    + Inside(head, slot % BlockSize, DataDim) + g * GroupBytes

ScaleAt(slot, kv, head, token, s) ==
  (slot \div BlockSize) * PageBytes + SideOffset(kv) + DataPerKv
    + Inside(head, token, ScaleDim) + s

(* swizzle_scale_offset: a 4-token tile of scales, transposed *)
SwizzledToken(t, s) == (t \div 4) * 4 + (s \div (ScaleDim \div 4))
SwizzledScale(t, s) == (s % (ScaleDim \div 4)) * 4 + (t % 4)

Linear(slot, kv, head, g) == ScaleAt(slot, kv, head, slot % BlockSize, g)
Swizzled(slot, kv, head, g) ==
  LET t == slot % BlockSize
  IN  ScaleAt(slot, kv, head, SwizzledToken(t, g), SwizzledScale(t, g))

-----------------------------------------------------------------------------
(* The writer.                                                             *)

(* reshape_and_cache_flash is the overlay's once it is imported on GB10.   *)
Overlaid == overlay = "active" /\ major = 12

(* Mutant: the writer of the stock image, whatever the device. *)
SwizzleAlways(kv) == kv = 1

(* The stock writer (external) swizzles V always; the overlay's does only  *)
(* below major 12.                                                         *)
SwizzleOnStore(kv) == kv = 1 /\ (Overlaid => major < 12)

StoreScaleAt(slot, kv, head, g) ==
  IF SwizzleOnStore(kv) THEN Swizzled(slot, kv, head, g) ELSE Linear(slot, kv, head, g)

(* The cells the block of a slot stores, and the bytes of each. *)
Stores(slot, kv) ==
  [slot : {slot}, launch : {launches}, kv : {kv}, head : HeadIds, group : Groups,
   part : {"data", "scale"}]

Span(c) ==
  IF c.part = "data"
    THEN {DataAt(c.slot, c.kv, c.head, c.group) + i : i \in 0..(GroupBytes - 1)}
    ELSE {StoreScaleAt(c.slot, c.kv, c.head, c.group)}

-----------------------------------------------------------------------------
(* The readers: FA2 (page_produce_kv_sf, as it is built here) reads scales *)
(* linearly; trtllm-gen (external) expects those of V swizzled.            *)

ReadScaleAt(slot, kv, head, g) ==
  IF kv = 1 /\ major = 10 THEN Swizzled(slot, kv, head, g) ELSE Linear(slot, kv, head, g)

-----------------------------------------------------------------------------
Unwritten == [slot |-> 0, launch |-> 0, kv |-> 0, head |-> 0, group |-> 0,
              part |-> "none"]

Init ==
  /\ major \in Majors /\ layout \in {"HND", "NHD"}
  /\ overlay = "no" /\ engine = "starting"
  /\ mem = [a \in Bytes |-> Unwritten]
  /\ launches = 0 /\ pending = {}
  /\ owner = [s \in Slots |-> 0]

(* The import that the image appends to vllm/platforms/cuda.py: it builds  *)
(* the overlay, and an exception is logged and swallowed.                  *)
ImportOverlay ==
  /\ engine = "starting" /\ overlay = "no"
  /\ overlay' \in IF OverlayMayFail THEN {"active", "failed"} ELSE {"active"}
  /\ UNCHANGED <<major, layout, engine, mem, launches, pending, owner>>

(* Mutant: the resolved layout is not checked. *)
AnyLayout == TRUE

(* FlashInferMetadataBuilder.__init__ refuses NVFP4 under another layout   *)
(* than HND.                                                               *)
LayoutAccepted == layout = "HND"

StartEngine ==
  /\ engine = "starting" /\ overlay # "no"
  /\ engine' = IF LayoutAccepted THEN "serving" ELSE "refused"
  /\ UNCHANGED <<major, layout, overlay, mem, launches, pending, owner>>

(* do_kv_cache_update: the scheduler (external) gives every token of a     *)
(* batch a slot of its own; the slots of padding tokens are negative and   *)
(* their blocks return at once.                                            *)
LaunchStore(slots) ==
  /\ engine = "serving" /\ pending = {} /\ launches < MaxLaunches
  /\ launches' = launches + 1
  /\ pending' = slots \X Sides
  /\ owner' = [s \in Slots |-> IF s \in slots THEN launches + 1 ELSE owner[s]]
  /\ UNCHANGED <<major, layout, overlay, engine, mem>>

(* The blocks of a launch run in any order and store K, then V. *)
StoreSide(slot, kv) ==
  /\ <<slot, kv>> \in pending
  /\ kv = 1 => <<slot, 0>> \notin pending
  /\ LET stores == Stores(slot, kv)
         written == UNION {Span(c) : c \in stores}
     IN  mem' = [a \in Bytes \union written |->
                   IF a \in written THEN CHOOSE c \in stores : a \in Span(c) ELSE mem[a]]
  /\ pending' = pending \ {<<slot, kv>>}
  /\ UNCHANGED <<major, layout, overlay, engine, launches, owner>>

Done ==
  /\ pending = {} /\ (engine = "refused" \/ launches = MaxLaunches)
  /\ UNCHANGED vars

Next ==
  \/ ImportOverlay
  \/ StartEngine
  \/ \E slots \in SUBSET UsedSlots : Cardinality(slots) <= MaxTokens /\ LaunchStore(slots)
  \/ \E slot \in Slots, kv \in Sides : StoreSide(slot, kv)
  \/ Done

Spec == Init /\ [][Next]_vars

-----------------------------------------------------------------------------
(* Properties.                                                             *)

Cells == [slot : Slots, launch : 0..MaxLaunches, kv : Sides, head : HeadIds,
          group : Groups, part : {"none", "data", "scale"}]

(* Every store lands inside the cache (mem keeps its domain). *)
TypeOK ==
  /\ major \in Majors /\ layout \in {"HND", "NHD"}
  /\ overlay \in {"no", "active", "failed"}
  /\ engine \in {"starting", "serving", "refused"}
  /\ mem \in [Bytes -> Cells]
  /\ launches \in 0..MaxLaunches
  /\ pending \subseteq Slots \X Sides
  /\ owner \in [Slots -> 0..MaxLaunches]

Stored(slot, kv) == owner[slot] # 0 /\ <<slot, kv>> \notin pending

Cell(slot, kv, head, g, part) ==
  [slot |-> slot, launch |-> owner[slot], kv |-> kv, head |-> head, group |-> g,
   part |-> part]

(* Whatever was stored since, in whichever order, in the same tile, page   *)
(* or slot, the attention kernel finds for every stored slot the packed    *)
(* data of the latest token of that slot, whole.                           *)
DataReadBack ==
  \A slot \in Slots, kv \in Sides : Stored(slot, kv) =>
    \A h \in HeadIds, g \in Groups, i \in 0..(GroupBytes - 1) :
      mem[DataAt(slot, kv, h, g) + i] = Cell(slot, kv, h, g, "data")

(* The same for the scales, where writer and reader have to agree on the   *)
(* swizzle, which each decides for itself.                                 *)
ScalesReadBack ==
  \A slot \in Slots, kv \in Sides : Stored(slot, kv) =>
    \A h \in HeadIds, g \in Groups :
      mem[ReadScaleAt(slot, kv, h, g)] = Cell(slot, kv, h, g, "scale")
=============================================================================
