--------------------------- MODULE AttentionKernel --------------------------
(***************************************************************************)
(* One thread block of the paged attention kernel                          *)
(* (BatchPrefillWithPagedKVCacheDevice): its warps load tiles of K and V   *)
(* into shared memory with asynchronous copies, fold them into an online   *)
(* softmax, merge what they hold and write the output.                     *)
(*                                                                         *)
(* A region of shared memory has one part per warp: for a tile the rows    *)
(* that warp loads, for an exchange buffer what that warp puts there.      *)
(* A part holds the number of the tile its bytes come from; Junk is        *)
(* memory that was never written, or that the other member of a union has  *)
(* overwritten.  Arithmetic is abstracted: the result of a step is the     *)
(* number of the tile when everything it read was of that tile, and Junk   *)
(* otherwise.  Reads and writes of different warps interleave freely       *)
(* between two barriers.  Rotary embedding in the kernel is left out: vLLM *)
(* plans its wrappers without it.                                          *)
(***************************************************************************)
EXTENDS Integers, Sequences

CONSTANTS
  NumWarps,   \* NUM_WARPS of the block: 4
  Kernels,    \* instantiations of the kernel (see KernelTraits)
  MaxTiles    \* bound: tiles of a chunk

(* A kernel is given by the width of a cache element, whether head_dim_vo  *)
(* exceeds 256, CTA_TILE_Q, whether Q is packed (A4Q), and whether the     *)
(* output is float, as it is for the partial results of a split-KV run.    *)
(* head_dim_qk equals head_dim_vo and is not 64.                           *)
KernelTraits ==
  [kv : {"fp4", "fp8", "b16"}, wide : BOOLEAN, tileQ : {16, 32, 64, 128},
   packedQ : BOOLEAN, floatOut : BOOLEAN]

ASSUME WarpsAssumption == NumWarps \in {2, 4} /\ MaxTiles \in Nat
(* FA2DetermineCtaTileQ selects 32 only for wide heads and more than 32    *)
(* only for others; Q is packed only beside an NVFP4 cache.                *)
ASSUME KernelsAssumption ==
  /\ Kernels \subseteq KernelTraits
  /\ \A c \in Kernels : IF c.wide THEN c.tileQ <= 32 ELSE c.tileQ # 32
  /\ \A c \in Kernels : c.packedQ => c.kv = "fp4"

VARIABLES
  kernel,    \* the instantiation that runs
  chunk,     \* tiles in the chunk of this block
  tiles,     \* num_iterations: those the mask leaves
  pad,       \* warps whose rows of the chunk's last tile are past its end
  pc,        \* what each warp does next
  arrived,   \* barriers each warp has arrived at
  iter,      \* the tile each warp works on
  flight,    \* cp.async groups each warp has committed and not waited for
  mem,       \* shared memory
  score,     \* what each warp holds in registers between two steps
  folded,    \* tiles each warp has folded into its accumulator
  output     \* what each warp has written to global memory

vars == <<kernel, chunk, tiles, pad, pc, arrived, iter, flight, mem, score,
          folded, output>>
fixed == <<kernel, chunk, tiles, pad>>

Warps == 0..(NumWarps - 1)

-----------------------------------------------------------------------------
(* What KernelTraits and the dispatch derive from the instantiation.       *)

(* NUM_WARPS_Q *)
QWarps ==
  IF kernel.tileQ > 32 THEN NumWarps
  ELSE IF kernel.wide /\ kernel.tileQ = 32 /\ kernel.kv # "fp8" THEN 2
  ELSE 1
KvWarps == NumWarps \div QWarps

(* tid.y and tid.z of a warp *)
Row(w) == w % QWarps
Col(w) == w \div QWarps
RowMates(w) == {v \in Warps : Row(v) = Row(w)}

VoSplit == kernel.wide                                   \* USE_VO_SPLIT
KvShared ==                                              \* USE_KV_SHARED_SMEM
  /\ VoSplit /\ kernel.kv # "fp4"
  /\ kernel.kv = "b16" \/ kernel.tileQ > 16
Repack == kernel.kv = "fp8" /\ ~kernel.wide /\ kernel.tileQ > 16  \* USE_KV_REPACK
Scaled == kernel.kv = "fp4"                              \* KVScaleFactorSmem

-----------------------------------------------------------------------------
(* Shared memory.                                                          *)

Junk == -1
Zero == 0       \* a part filled with zeros
Tag == Junk..MaxTiles

TileRegions == {"q", "k", "v"}
Regions == TileRegions \union {"ksf", "vsf", "stage", "max", "sum", "p", "merge", "o"}

(* The union of SharedStorageQKVO: the tiles, the buffer in which warps    *)
(* exchange their states, and the staged output.                           *)
Aliased(r, s) ==
  LET member(x) == IF x \in TileRegions THEN "tiles" ELSE x
  IN  /\ {member(r), member(s)} \subseteq {"tiles", "merge", "o"}
      /\ member(r) # member(s)

(* Shared memory after warp w has stored writes, a set of region and tag.  *)
Stored(w, writes) ==
  [r \in Regions |->
     IF \E x \in writes : x.region = r
       THEN [mem[r] EXCEPT ![w] = (CHOOSE x \in writes : x.region = r).tag]
     ELSE IF \E x \in writes : Aliased(r, x.region) THEN [v \in Warps |-> Junk]
     ELSE mem[r]]

Put(region, tag) == [region |-> region, tag |-> tag]

VRegion == IF KvShared THEN "k" ELSE "v"

(* Mutant: rows past the end of the chunk are loaded too. *)
InRangeAlways(w, t) == TRUE

(* kv_idx < kv_len for the rows warp w loads of tile t *)
InRange(w, t) == t < chunk \/ (t = chunk /\ w \notin pad)

(* load_q_packed_global_smem, load_q_global_smem: the first column of      *)
(* warps loads Q.                                                          *)
LoadQ(w) == IF Col(w) = 0 THEN {Put("q", Zero)} ELSE {}

(* page_produce_kv and page_produce_kv_sf for K do not touch (kNoFill) the *)
(* rows past the end; for V they fill them with zeros (kFillZero).         *)
LoadK(w, t) ==
  IF InRange(w, t)
    THEN {Put("k", t)} \union (IF Scaled THEN {Put("ksf", t)} ELSE {})
    ELSE {}

VTag(w, t) == IF InRange(w, t) THEN t ELSE Zero

(* Mutant: the rows of V past the end keep what they held. *)
LoadVNoFill(w, t) ==
  IF InRange(w, t)
    THEN {Put(VRegion, t)} \union (IF Scaled THEN {Put("vsf", t)} ELSE {})
    ELSE {}

LoadV(w, t) ==
  {Put(VRegion, VTag(w, t))} \union (IF Scaled THEN {Put("vsf", VTag(w, t))} ELSE {})

(* What the reading steps must find. *)
QReady(w) ==
  \A v \in Warps :
    Col(v) = 0 /\ (kernel.packedQ \/ Row(v) = Row(w)) => mem["q"][v] = Zero
KReady(t) ==
  \A v \in Warps :
    InRange(v, t) => mem["k"][v] = t /\ (Scaled => mem["ksf"][v] = t)
VReady(t) ==
  \A v \in Warps :
    mem[VRegion][v] = VTag(v, t) /\ (Scaled => mem["vsf"][v] = VTag(v, t))
All(region, ws, t) == \A v \in ws : mem[region][v] = t

TagIf(good, t) == IF good THEN t ELSE Junk

-----------------------------------------------------------------------------
(* Barriers and asynchronous copies.                                       *)

(* A warp acts when every warp has arrived at the barrier it arrived at.   *)
At(w, label) == pc[w] = label /\ \A v \in Warps : arrived[v] >= arrived[w]

Goto(w, label) == pc' = [pc EXCEPT ![w] = label] /\ UNCHANGED arrived

(* block.sync() *)
Sync(w, label) ==
  /\ pc' = [pc EXCEPT ![w] = label]
  /\ arrived' = [arrived EXCEPT ![w] = arrived[w] + 1]

Commit(w, group) == flight' = [flight EXCEPT ![w] = Append(flight[w], group)]

(* cp_async::wait_group<n>: all groups but the last n have arrived.        *)
WaitGroup(w, n) ==
  LET len == Len(flight[w])
  IN  /\ \A i \in 1..(len - n) : flight[w][i] = {}
      /\ flight' = [flight EXCEPT ![w] = IF len <= n THEN flight[w]
                                         ELSE SubSeq(flight[w], len - n + 1, len)]

(* The copies of a group arrive at any time after they were issued.        *)
Arrive(w) ==
  \E i \in DOMAIN flight[w] :
    /\ flight[w][i] # {}
    /\ mem' = Stored(w, flight[w][i])
    /\ flight' = [flight EXCEPT ![w][i] = {}]
    /\ UNCHANGED <<fixed, pc, arrived, iter, score, folded, output>>

-----------------------------------------------------------------------------
(* The steps of a warp.                                                    *)

(* Q and the first K tile; the first V tile too unless it would clobber K. *)
Prologue(w) ==
  /\ At(w, "prologue")
  /\ flight' = [flight EXCEPT ![w] =
       <<LoadQ(w), LoadK(w, 1)>> \o (IF KvShared THEN << >> ELSE <<LoadV(w, 1)>>)]
  /\ Goto(w, "top")
  /\ UNCHANGED <<fixed, iter, mem, score, folded, output>>

(* Mutant: the shared buffer is not drained. *)
OneGroupAhead == 1

(* Groups that may stay in flight in the loop: the next load of the other  *)
(* operand, if it has a buffer of its own.                                 *)
GroupsAhead == IF KvShared THEN 0 ELSE 1

WaitK(w) ==
  /\ At(w, "top") /\ iter[w] <= tiles
  /\ WaitGroup(w, GroupsAhead)
  /\ Sync(w, IF Repack THEN "repackK" ELSE "scores")
  /\ UNCHANGED <<fixed, iter, mem, score, folded, output>>

RepackK(w) ==
  /\ At(w, "repackK")
  /\ mem' = Stored(w, {Put("stage", TagIf(KReady(iter[w]), iter[w]))})
  /\ Sync(w, "scores")
  /\ UNCHANGED <<fixed, iter, flight, score, folded, output>>

(* compute_qk or compute_qk_nvf4, the mask, and update_mdo_states; a       *)
(* VO-split kernel publishes its row maxima instead.                       *)
Scores(w) ==
  LET t == iter[w]
      s == TagIf(QReady(w) /\ IF Repack THEN All("stage", Warps, t) ELSE KReady(t), t)
  IN  /\ At(w, "scores")
      /\ score' = [score EXCEPT ![w] = s]
      /\ mem' = IF VoSplit THEN Stored(w, {Put("max", s)}) ELSE mem
      /\ Sync(w, IF VoSplit THEN "probs" ELSE "loadK")
      /\ UNCHANGED <<fixed, iter, flight, folded, output>>

(* vosplit_softmax_store_p after its first barrier *)
Probs(w) ==
  LET s == TagIf(score[w] = iter[w] /\ All("max", RowMates(w), iter[w]), iter[w])
  IN  /\ At(w, "probs")
      /\ mem' = Stored(w, {Put("p", s), Put("sum", s)})
      /\ Sync(w, "rowsum")
      /\ UNCHANGED <<fixed, iter, flight, score, folded, output>>

(* and after its second; the barrier is the one that ends the QK part.     *)
RowSum(w) ==
  /\ At(w, "rowsum")
  /\ score' = [score EXCEPT ![w] = TagIf(All("sum", RowMates(w), iter[w]), score[w])]
  /\ Sync(w, "loadK")
  /\ UNCHANGED <<fixed, iter, flight, mem, folded, output>>

(* The next K tile, or this tile's V where the buffer is shared.           *)
ProduceK(w) ==
  /\ At(w, "loadK")
  /\ Commit(w, IF KvShared THEN LoadV(w, iter[w]) ELSE LoadK(w, iter[w] + 1))
  /\ Goto(w, "waitV")
  /\ UNCHANGED <<fixed, iter, mem, score, folded, output>>

WaitV(w) ==
  /\ At(w, "waitV")
  /\ WaitGroup(w, GroupsAhead)
  /\ Sync(w, IF Repack THEN "repackV" ELSE "fold")
  /\ UNCHANGED <<fixed, iter, mem, score, folded, output>>

RepackV(w) ==
  /\ At(w, "repackV")
  /\ mem' = Stored(w, {Put("stage", TagIf(VReady(iter[w]), iter[w]))})
  /\ Sync(w, "fold")
  /\ UNCHANGED <<fixed, iter, flight, score, folded, output>>

(* Mutant: no barrier between this tile's V and the next load over it. *)
AfterFoldUnsynced(w) == Goto(w, "loadV")

(* block.sync() when the block is through with the V tile *)
AfterFold(w) == Sync(w, "loadV")

(* compute_sfm_v, vosplit_compute_pv *)
Fold(w) ==
  LET t == iter[w]
      good == /\ score[w] = t
              /\ IF Repack THEN All("stage", Warps, t) ELSE VReady(t)
              /\ VoSplit => All("p", RowMates(w), t)
  IN  /\ At(w, "fold")
      /\ folded' = [folded EXCEPT ![w] = Append(folded[w], TagIf(good, t))]
      /\ AfterFold(w)
      /\ UNCHANGED <<fixed, iter, flight, mem, score, output>>

(* The next V tile, or the next K tile where the buffer is shared.         *)
ProduceV(w) ==
  /\ At(w, "loadV")
  /\ Commit(w, IF KvShared THEN LoadK(w, iter[w] + 1) ELSE LoadV(w, iter[w] + 1))
  /\ iter' = [iter EXCEPT ![w] = iter[w] + 1]
  /\ Goto(w, "top")
  /\ UNCHANGED <<fixed, mem, score, folded, output>>

-----------------------------------------------------------------------------
(* After the loop.                                                         *)

Complete == [i \in 1..tiles |-> i]

(* threadblock_sync_mdo_states does nothing unless columns of warps hold   *)
(* partial states; a VO-split kernel has kept them equal all along.        *)
Merges == KvWarps > 1 /\ ~VoSplit

(* Mutants: the prefetch is left in flight; the first warp alone takes     *)
(* part in the exchange.                                                   *)
OneGroupLeft == 1
MergesAlone(w) == Merges /\ Col(w) = 0

GroupsAtExit == 0
EntersMerge(w) == Merges

Drain(w) ==
  /\ At(w, "top") /\ iter[w] > tiles
  /\ WaitGroup(w, GroupsAtExit)
  /\ Sync(w, IF EntersMerge(w) THEN "merge" ELSE "write")
  /\ UNCHANGED <<fixed, iter, mem, score, folded, output>>

MergePut(w) ==
  /\ At(w, "merge")
  /\ mem' = Stored(w, {Put("merge", TagIf(folded[w] = Complete, Zero))})
  /\ Sync(w, "combine")
  /\ UNCHANGED <<fixed, iter, flight, score, folded, output>>

Combine(w) ==
  /\ At(w, "combine")
  /\ score' = [score EXCEPT ![w] = TagIf(All("merge", RowMates(w), Zero), Zero)]
  /\ Goto(w, "write")
  /\ UNCHANGED <<fixed, iter, flight, mem, folded, output>>

(* vosplit_write_o and a float write_o_reg_gmem store from registers, each *)
(* warp its part; otherwise the first column stages its rows in shared     *)
(* memory, over the tiles and the merged states, and stores them.          *)
Writes(w) == VoSplit \/ kernel.floatOut \/ Col(w) = 0

WriteOutput(w) ==
  /\ At(w, "write")
  /\ output' = IF Writes(w)
       THEN [output EXCEPT ![w] =
               IF (IF Merges THEN score[w] = Zero ELSE folded[w] = Complete)
                 THEN "whole" ELSE "wrong"]
       ELSE output
  /\ mem' = IF Writes(w) /\ ~VoSplit /\ ~kernel.floatOut
              THEN Stored(w, {Put("o", Zero)}) ELSE mem
  /\ Sync(w, "exit")
  /\ UNCHANGED <<fixed, iter, flight, score, folded>>

Exit(w) ==
  /\ At(w, "exit")
  /\ Goto(w, "done")
  /\ UNCHANGED <<fixed, iter, flight, mem, score, folded, output>>

-----------------------------------------------------------------------------
Init ==
  /\ kernel \in Kernels
  /\ chunk \in 0..MaxTiles /\ tiles \in 0..chunk
  /\ pad \in SUBSET Warps /\ pad # Warps /\ (chunk = 0 => pad = {})
  /\ pc = [w \in Warps |-> "prologue"]
  /\ arrived = [w \in Warps |-> 0]
  /\ iter = [w \in Warps |-> 1]
  /\ flight = [w \in Warps |-> << >>]
  /\ mem = [r \in Regions |-> [w \in Warps |-> Junk]]
  /\ score = [w \in Warps |-> Junk]
  /\ folded = [w \in Warps |-> << >>]
  /\ output = [w \in Warps |-> "none"]

Step(w) ==
  \/ Prologue(w) \/ WaitK(w) \/ RepackK(w) \/ Scores(w) \/ Probs(w) \/ RowSum(w)
  \/ ProduceK(w) \/ WaitV(w) \/ RepackV(w) \/ Fold(w) \/ ProduceV(w)
  \/ Drain(w) \/ MergePut(w) \/ Combine(w) \/ WriteOutput(w) \/ Exit(w)

(* The block has left the multiprocessor. *)
Finished == \A w \in Warps : pc[w] = "done"
Done == Finished /\ UNCHANGED vars

Next == (\E w \in Warps : Step(w) \/ Arrive(w)) \/ Done

(* The scheduler runs every warp that can run, and copies arrive. *)
Fairness == \A w \in Warps : WF_vars(Step(w)) /\ WF_vars(Arrive(w))

Spec == Init /\ [][Next]_vars
FairSpec == Spec /\ Fairness

-----------------------------------------------------------------------------
(* Properties.                                                             *)

Labels == {"prologue", "top", "repackK", "scores", "probs", "rowsum", "loadK", "waitV",
           "repackV", "fold", "loadV", "merge", "combine", "write", "exit", "done"}

(* At most three groups are in flight, and the warps are never more than   *)
(* one barrier apart.                                                      *)
TypeOK ==
  /\ kernel \in Kernels
  /\ pc \in [Warps -> Labels]
  /\ \A v, w \in Warps : arrived[v] <= arrived[w] + 1
  /\ iter \in [Warps -> 1..(MaxTiles + 1)]
  /\ \A w \in Warps :
       Len(flight[w]) <= 3 /\ \A i \in DOMAIN flight[w] :
                                flight[w][i] \subseteq [region : Regions, tag : Tag]
  /\ mem \in [Regions -> [Warps -> Tag]]
  /\ score \in [Warps -> Tag]
  /\ \A w \in Warps : Len(folded[w]) <= MaxTiles
  /\ output \in [Warps -> {"none", "whole", "wrong"}]

(* Every warp folds the tiles of its chunk one after the other, and each   *)
(* time Q, K, V, their scales, the probabilities and the staged copies it  *)
(* read were all of that tile, from every warp that loaded a part of it,   *)
(* with zeros in place of the rows of V past the end.                      *)
TilesFoldInOrder ==
  \A w \in Warps : folded[w] = [i \in 1..Len(folded[w]) |-> i]

(* Nothing but the merged state of all tiles is ever written out, though   *)
(* states and staged output lie over the tiles prefetches write to; and    *)
(* at the end every part of the output is there.                           *)
OutputIsWhole ==
  /\ \A w \in Warps : output[w] # "wrong"
  /\ Finished => \A w \in Warps : Writes(w) => output[w] = "whole"

(* The block implements BlockService: no warp takes up a tile while        *)
(* another is behind it, each tile is folded from its own loads alone, and *)
(* a warp writes once, after the last warp has folded the last tile.       *)
Block == INSTANCE BlockService
ImplementsBlock == Block!Spec

(* Every block finishes: all warps reach the same barriers, and no warp    *)
(* waits for a copy that was never committed.                              *)
BlockFinishes == <>Finished
=============================================================================
