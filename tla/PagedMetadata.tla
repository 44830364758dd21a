--------------------------- MODULE PagedMetadata ---------------------------
(***************************************************************************)
(* The paged-KV metadata of a step: what build() computes from sequence    *)
(* lengths and block table (_compute_flashinfer_kv_metadata), the Triton   *)
(* program per request that gathers page indices on the GPU, chunk by      *)
(* chunk and in any order, and what an attention kernel then finds.        *)
(*                                                                         *)
(* All buffers are persistent: a step that needs less than an earlier one  *)
(* leaves that step's values behind its own.  An entry of the block table  *)
(* is named by step, row and column.  A step is built when the kernels of  *)
(* the last one are done: their overlap is the subject of StepPipeline.    *)
(***************************************************************************)
EXTENDS Integers, FiniteSets

CONSTANTS
  MaxReqs,      \* scheduler_config.max_num_seqs
  MaxModelLen,  \* model_config.max_model_len
  PageSize,     \* kv_cache_spec.block_size
  BlockSize,    \* BLOCK_SIZE of _copy_page_indices_kernel
  DcpWorld,     \* dcp_world_size
  DcpRank,      \* dcp_rank
  Interleave,   \* dcp_kv_cache_interleave_size
  MaxSteps      \* bound: steps built

ASSUME SizeAssumption ==
  /\ MaxReqs \in Nat \ {0} /\ MaxModelLen \in Nat
  /\ PageSize \in Nat \ {0} /\ BlockSize \in Nat \ {0}
ASSUME DcpAssumption ==
  DcpWorld \in Nat \ {0} /\ DcpRank \in 0..(DcpWorld - 1) /\ Interleave \in Nat \ {0}
ASSUME StepsAssumption == MaxSteps \in Nat

VARIABLES
  step,       \* steps built so far
  phase,      \* how far the stream is with the latest one
  batch,      \* its rows: n, and the lengths build() was given and adjusted
  host,       \* paged_kv_indptr.np and paged_kv_last_page_len.np
  gpu,        \* paged_kv_indptr.gpu and paged_kv_last_page_len.gpu
  indices,    \* paged_kv_indices.gpu
  copied      \* pages each gather program has copied

vars == <<step, phase, batch, host, gpu, indices, copied>>

Rows == 1..MaxReqs
Lens == 0..MaxModelLen

-----------------------------------------------------------------------------
(* num_blocks_np of one request: its length in pages, rounded up *)
Pages(len) == (len + (PageSize - 1)) \div PageSize

(* cdiv(max_model_len, block_size) *)
MaxPagesPerReq == Pages(MaxModelLen)

(* Mutant: the page count of a request is rounded down. *)
MaxPagesRoundedDown == MaxReqs * (MaxModelLen \div PageSize)

(* max_num_pages, the size of paged_kv_indices *)
MaxPages == MaxReqs * MaxPagesPerReq
Slots == 0..(MaxPages - 1)

(* np.cumsum(num_blocks_np): the pages of the first i rows *)
CumPages(blocks, i) ==
  Cardinality({e \in (1..i) \X (0..(MaxPagesPerReq - 1)) : e[2] < blocks[e[1]]})

(* Mutant: a full last page is reported as length 0. *)
LastPageRemainder(len) == len % PageSize

(* the np.where of _compute_flashinfer_kv_metadata *)
LastPageLen(len) ==
  IF len % PageSize = 0 /\ len # 0 THEN PageSize ELSE len % PageSize

(* get_dcp_local_seq_lens (external): the tokens of a sequence on this rank *)
LocalLen(len) ==
  Cardinality({t \in 0..(len - 1) : (t \div Interleave) % DcpWorld = DcpRank})

(* What a kernel derives from the metadata: get_seq_lens (external), and   *)
(* the page list of a row.                                                 *)
PlannedLen(r) ==
  LET pages == gpu.indptr[r] - gpu.indptr[r - 1]
  IN  (IF pages > 0 THEN pages - 1 ELSE 0) * PageSize + gpu.last[r]

PageList(r) ==
  [j \in 0..(gpu.indptr[r] - gpu.indptr[r - 1] - 1) |->
     indices[gpu.indptr[r - 1] + j]]

-----------------------------------------------------------------------------
(* build().  lens are the total lengths of the rows (0 for a padding row), *)
(* new the tokens to compute of the rows classified as prefills (0 for a   *)
(* decode).  Under DCP the lengths of the prefill rows are reduced in      *)
(* place, after num_blocks_np was computed from them and before            *)
(* paged_kv_last_page_len is; the rank-local lengths are computed last.    *)
Build(n, lens, new) ==
  LET context == [r \in 1..n |-> IF DcpWorld > 1 THEN lens[r] - new[r] ELSE lens[r]]
      blocks == [r \in 1..n |-> Pages(lens[r])]
  IN  /\ phase = "idle" /\ step < MaxSteps
      /\ step' = step + 1
      /\ phase' = "indptr"
      /\ batch' = [n |-> n, lens |-> lens,
                   adjusted |-> [r \in 1..n |-> IF DcpWorld > 1 THEN LocalLen(context[r])
                                                ELSE context[r]]]
      /\ host' = [indptr |-> [i \in 0..MaxReqs |->
                                IF i \in 1..n THEN CumPages(blocks, i) ELSE host.indptr[i]],
                  last |-> [r \in Rows |->
                              IF r <= n THEN LastPageLen(context[r]) ELSE host.last[r]]]
      /\ copied' = [r \in Rows |-> 0]
      /\ UNCHANGED <<gpu, indices>>

CopyIndptr ==
  /\ phase = "indptr"
  /\ phase' = "gather"
  /\ gpu' = [gpu EXCEPT !.indptr = [i \in 0..MaxReqs |->
                IF i <= batch.n THEN host.indptr[i] ELSE gpu.indptr[i]]]
  /\ UNCHANGED <<step, batch, host, indices, copied>>

NumBlocks(r) == gpu.indptr[r] - gpu.indptr[r - 1]

(* Mutant: load and store are not masked. *)
ChunkUnmasked(r) == copied[r]..(copied[r] + BlockSize - 1)

(* the offsets one iteration of a program loads and stores *)
Chunk(r) == {o \in copied[r]..(copied[r] + BlockSize - 1) : o < NumBlocks(r)}

(* One iteration of the loop of program r of _copy_page_indices_kernel *)
GatherChunk(r) ==
  /\ phase = "gather" /\ r <= batch.n
  /\ copied[r] < NumBlocks(r)
  /\ indices' = [p \in Slots |->
                   IF p - gpu.indptr[r - 1] \in Chunk(r)
                     THEN <<step, r, p - gpu.indptr[r - 1]>>
                     ELSE indices[p]]
  /\ copied' = [copied EXCEPT ![r] = copied[r] + Cardinality(Chunk(r))]
  /\ UNCHANGED <<step, phase, batch, host, gpu>>

CopyLastPageLen ==
  /\ phase = "gather"
  /\ \A r \in 1..batch.n : copied[r] >= NumBlocks(r)
  /\ phase' = "attend"
  /\ gpu' = [gpu EXCEPT !.last = [r \in Rows |->
                IF r <= batch.n THEN host.last[r] ELSE gpu.last[r]]]
  /\ UNCHANGED <<step, batch, host, indices, copied>>

Attend ==
  /\ phase = "attend"
  /\ phase' = "idle"
  /\ UNCHANGED <<step, batch, host, gpu, indices, copied>>

-----------------------------------------------------------------------------
Init ==
  /\ step = 0 /\ phase = "idle"
  /\ batch = [n |-> 0, lens |-> << >>, adjusted |-> << >>]
  /\ host = [indptr |-> [i \in 0..MaxReqs |-> 0], last |-> [r \in Rows |-> 0]]
  /\ gpu = [indptr |-> [i \in 0..MaxReqs |-> 0], last |-> [r \in Rows |-> 0]]
  /\ indices = [p \in Slots |-> <<0, 0, 0>>]
  /\ copied = [r \in Rows |-> 0]

(* The scheduler (external): any lengths up to max_model_len, decodes      *)
(* first.  Only DCP looks at the new tokens here.                          *)
NewTokens(n, lens) ==
  IF DcpWorld = 1 THEN {[r \in 1..n |-> 0]}
  ELSE {new \in [1..n -> Lens] :
          \A r \in 1..n : /\ new[r] <= lens[r]
                          /\ new[r] = 0 => \A s \in 1..r : new[s] = 0}

Step ==
  \E n \in Rows : \E lens \in [1..n -> Lens] :
    \E new \in NewTokens(n, lens) : Build(n, lens, new)

Done == step = MaxSteps /\ phase = "idle" /\ UNCHANGED vars

Next ==
  \/ Step
  \/ CopyIndptr
  \/ \E r \in Rows : GatherChunk(r)
  \/ CopyLastPageLen
  \/ Attend
  \/ Done

Spec == Init /\ [][Next]_vars

-----------------------------------------------------------------------------
(* Properties.                                                             *)

Entry == (0..MaxSteps) \X (0..MaxReqs) \X (0..MaxPagesPerReq)
Tables ==
  [indptr : [0..MaxReqs -> 0..(MaxReqs * MaxPagesPerReq)], last : [Rows -> 0..PageSize]]

(* Shapes and ranges of the buffers.                                       *)
TypeOK ==
  /\ step \in 0..MaxSteps
  /\ phase \in {"idle", "indptr", "gather", "attend"}
  /\ batch.n \in 0..MaxReqs
  /\ batch.lens \in [1..batch.n -> Lens] /\ batch.adjusted \in [1..batch.n -> Lens]
  /\ host \in Tables /\ gpu \in Tables
  /\ indices \in [Slots -> Entry]
  /\ copied \in [Rows -> 0..MaxPagesPerReq]

(* The pages of a batch fit the buffer sized at start-up.                  *)
BufferHoldsBatch == \A i \in 0..MaxReqs : host.indptr[i] <= MaxPages

(* Whatever the order of the gather programs, and whatever earlier steps   *)
(* left in the buffers, the kernels find for each row the first pages of   *)
(* that row's block table, in order, as many as its length needs.          *)
RowsReadOwnPages ==
  phase = "attend" =>
    \A r \in 1..batch.n :
      PageList(r) = [j \in 0..(Pages(batch.lens[r]) - 1) |-> <<step, r, j>>]

(* The length the kernels derive from page counts and last-page lengths is *)
(* the length build() meant after its adjustments ("Adjust seq_lens_cpu    *)
(* for DCP").                                                              *)
PlannedLengthIsAdjusted ==
  phase = "attend" =>
    \A r \in 1..batch.n : PlannedLen(r) = batch.adjusted[r]
=============================================================================
