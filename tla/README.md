# Verification of the NVFP4-KV / A4Q serving stack

This directory holds TLA+ models of the attention path this repository adds to
vLLM and FlashInfer for a GB10 (DGX Spark): a 4-bit KV cache (NVFP4), optionally
4-bit queries (A4Q), CUDA graphs and multi-token speculative decoding. TLC checks the
models on small instances, TLAPS proves the main results for every value of the
constants.

    tlc -config StepPipeline.cfg MCStepPipeline.tla     # any run of PROJECT.json
    tlapm StepPipelineProofs.tla                        # any *Proofs module

Paths below are relative to `src/recipe/build/` unless they start with `src/`.

## 1. The system

| part | state it keeps | operations | talks to |
|---|---|---|---|
| metadata builder, `a4q2_backend_flashinfer.py` | reused CPU buffers, persistent GPU buffers, one wrapper per captured batch size, a general one and a prefill one | `__init__`, `build`, `_get_decode_wrapper`, `fast_plan_decode` | called by vLLM's model runner once per step; plans FlashInfer wrappers; enqueues copies and the page gather on the stream |
| attention layer (`FlashInferImpl`), same file | none of its own | `forward`, `do_kv_cache_update` | runs the wrappers the builder planned; calls the store kernel |
| decode and prefill wrappers, `a4q_overlay/py/decode.py`, `prefill.py` | compiled module, types and A4Q flag, page-locked plan buffer, device workspace, frozen query length | `plan`, `fast_decode_plan`, `run` | compiled kernels |
| attention kernel, `a4q_overlay/cuda/include/.../prefill.cuh` | shared memory and registers of a block, partial results | one launch | reads cache, metadata and plan |
| KV store, `stage1/nvfp4_kv_cache_kernels.cu` and its overlay `vllm_gb10_nvfp4kv.py` | the paged cache | store a batch of tokens | replaces vLLM's writer at import time |
| module generation, `a4q_overlay/py/jit/` | compiled modules by URI | generate, compile, load | wrappers |
| start-up: `FlashInferBackend`, `FlashInferImpl`, `FlashInferMetadataBuilder` constructors, `stage1/utils_flashinfer.py` | the kept answer of the artifactory probe, query types, decode kernel, graph support | select backend, make layers, resolve graphs, make builders | each decides on its own, at a time of its own |
| configuration: `config_cache.py`, `envs.py`, `compressed_tensors.py` | cached answers | validate, probe, choose | builder, model loader |
| FP4 quantization, `quantization/fp4_quantization.py`, `fp4_kv_quantization.cu` | none | pure functions | wrappers, tests |
| images and scripts: two Dockerfiles, `src/oneshot.sh`, `src/recipe/launch_champion.sh`, `src/recipe/warm_gdn.py` | images, model directory, two containers on one port | pull, download, launch, wait for health, warm up, smoke | everything |

A step goes: the scheduler forms a batch; `build` computes page counts in CPU buffers,
enqueues their upload and the gather of page indices, decides how many rows are
decodes, picks wrappers and plans them; then the forward pass runs eagerly or a FULL
CUDA graph recorded at start-up is replayed, which reads whatever is in the buffers it
was recorded with. Each layer stores its new keys and values, and the attention
kernel reads the cache through the metadata and the plan. The CPU runs ahead of the
stream.

What is hard in it:

* **CPU against stream.** Reused buffers are rewritten while copies from them are
  queued. The V1 runner waits for the previous step's copies, the V2 runner does not.
* **Decisions made twice.** The runner picks a graph, the builder a wrapper; the plan
  counts chunks, the kernel counts them again; the writer of the cache decides to
  swizzle scales, the reader decides whether to expect that; `plan()` fixes a
  query length, `run()` derives it again from token counts; backend, layer, graph
  support and builder each decide on kernels and query types, partly from a network
  probe.
* **State left over.** Persistent GPU buffers, frozen wrappers, cache pages and shared
  memory all hold what earlier work left.
* **Barriers and copies in the kernel.** Asynchronous copies, overlapping buffers and
  barriers that every warp must reach equally often.
* **Deployment.** Scripts are interrupted and run again over what they left, two of them share
  a port, a GPU and a model name, failures are printed and ignored, Docker restarts
  crashed servers cold.
* **Boundaries.** Exact multiples of a page, padding rows of length 0, unsigned
  differences, masks skipped between two bounds rounded in different directions.

For each component, correct means:

* pipeline: every kernel uses the metadata and the plan of its own step, no legal
  batch makes `build` or `run` raise, every step is executed;
* paged metadata: every row finds its own pages and its own length;
* wrappers: what a run launches was compiled and laid out for the query and cache it
  gets, whatever was planned before;
* KV store: what was stored last in a slot is read back, data and scales;
* kernel block: every tile is folded once, in order, from memory that holds that
  tile; the block terminates;
* tiling: every row attends to exactly the keys attention is defined over, and split
  results are neither lost, overwritten nor counted twice;
* start-up: a server that started has no batch refused by a plan, a run or an assertion;
* scripts: what they report is true of the server clients will reach, they end, and
  running them again recovers.

`PROJECT.json` lists every component (`components`) and every hazard with its line
(`hazards`).

## 2. Modules

| module | models | state and actions |
|---|---|---|
| `StepService` | the promise of the backend to the engine | submitted steps are answered in order, each from its own metadata |
| `StepPipeline` | `build`, wrapper choice, plans, eager run and replay, stream | `CaptureGraph`, `Build`, `Launch` on the CPU; `CopyIndptr`, `CopyPageIndices`, `CopyLastPageLen`, `UploadPlan`, `Attend` on the stream |
| `PagedMetadata` | page counts, last-page lengths, DCP adjustments, the gather kernel | `Build`, `CopyIndptr`, `GatherChunk` per program, `CopyLastPageLen`, `Attend` |
| `KvStore` | byte addresses of store and read, the overlay's import | `ImportOverlay`, `StartEngine`, `LaunchStore`, `StoreSide` per block |
| `BlockService` | the promise of a thread block | warps fold the tiles together (`FoldTile`) and write once, at the end (`Write`) |
| `AttentionKernel` | the loop of one thread block, warp by warp | one action per stage of the loop and warp, `Arrive` for asynchronous copies |
| `KvTiling` | tiles, chunks, skipped iterations and masks, partial results, merge | `RunBlock`, `Merge` |
| `AttentionWrapper` | one decode or prefill wrapper and a client that calls it in any order | `DecodePlan`, `FastPlan`, `PrefillPlan`, `Run` |
| `ServingLanes` | backend selection, layer, graph support, builder, lanes of a batch and what refuses it | `SelectBackend`, `MakeLayer`, `ResolveGraphs`, `MakeBuilder`, `Serve`; `Network` |
| `Deployment` | `oneshot.sh`, `launch_champion.sh`, `warm_gdn.py`, and the machine under them | an action per command whose outcome matters; `ComesUp`, `GoesDown`, `Interrupt`, `Start` |
| `MC*` | instances for TLC | |
| `*Proofs` | theorems | |

The modules share no variables; each takes as input what its neighbour promises.
`StepPipeline` treats metadata as a tag (the step it belongs to) and `PagedMetadata` its
contents within a step. `KvTiling` takes a request whose lengths are right, which
`PagedMetadata` shows, and treats a block as one step, which `AttentionKernel`
opens up: there the tiles of the block are numbered and folded by racing warps.
`KvStore` ends where the kernel's loads begin. `AttentionWrapper` opens up the plan and
the run that `StepPipeline` reduces to a frozen query length, for any client instead of
the builder; `ServingLanes` shows which plans a builder can ask for on which device, and that these are
accepted. `Deployment` treats the server as something that comes up or does not. `StepPipeline` implements
`StepService` (`ImplementsService`, with `submitted <- launched` and the answers taken
from `views`), and `AttentionKernel` implements `BlockService` (`ImplementsBlock`; `tiles`,
`folded` and `output` are its own, shared memory, flights and barriers are hidden).

### StepPipeline

Data is a tag, the number of the step that produced it, 0 for what start-up leaves.
`host` and `hostPlan` are the CPU buffers the builder and the wrappers reuse, `gpu`, `own`
and `gpuPlan` their device counterparts, `jobs` the queue of the stream and `pos` its
place in it. A copy from pinned memory reads its source when it executes, one from
pageable memory was staged when enqueued (`Source`). `batch` carries what `build` hands
to `forward`. `views` is a history variable: the tags the kernels of a step read.

The model runner is external: it puts decodes first, and replays the smallest graph
that fits when every request has exactly the planned depth, padding with empty rows.
Every batch it can form up to the bounds is enumerated (`RunnerBatches`).

### PagedMetadata

An entry of the block table is named by step, row and column, so a page index left
by another step or row is told apart. Programs of the gather kernel interleave chunk by
chunk. A step is built when the previous one is finished; overlap is `StepPipeline`'s.

### KvStore

Memory is a function from byte addresses to named cells, so two stores that share a
byte, or a store that leaves the cache, are visible. Addresses come from the strides of
the code. Blocks of a launch interleave. The writer is the stock one until the
overlay has been imported on a device of major 12. `ReadScaleAt` follows the FA2 reader
(`page_produce_kv_sf` of prefill.cuh); the SM100 reader is outside the repository.

### AttentionKernel

A region of shared memory has one part per warp; a part holds the number of the tile its bytes
come from, or `Junk`. The union the kernel stores its tiles, merge buffers and staged
output in is `Aliased`: writing one member turns the others to `Junk`. A load commits a
group of copies, a wait leaves at most some groups in flight, and the bytes may arrive
at any time between. Everything between two barriers interleaves freely. What a
warp computes is the tile number when all it read was of that tile, and `Junk` otherwise.

When warps split a chunk of keys, those other than the first may still combine states while the first
stages its output over the same union; the code has that overlap too, and it is
harmless because only the first column of warps writes output and it combines first.
Rotary embedding in the kernel and the build option that de-swizzles V scales while
loading are left out.

### KvTiling

A result is the set of keys folded into it. Every comparison and subtraction is
unsigned modulo `Word`. `Requests` holds what the server can ask: the new tokens are the last
of the keys, a padding row has no keys, and sums of lengths stay below half the word. Non-causal
drafts, which `build` sends to prefill, may have a window like any other request. One case is left
out of `RowsAttendWhole` by a condition that names it, `WindowReaches`: a split non-causal request with
a window and more tokens than a query tile has rows (observation 10 of section 5). Partial results are placed by
`Slot`, which recomputes the plan's number of chunks as the kernel does.

### AttentionWrapper

`self` is the record of the attributes that decide what is launched, `lane` the
constructor arguments. A call that raises leaves the attributes assigned before the
raise, so the outcomes of a plan are the prefixes of its assignments (`DecodeNoted`,
`DecodeResolved`, `DecodeCompiled`, `DecodePlanned`, and the same for prefill). `promise`,
`full`, `first` and `refused` are history variables about the calls made.

The client plans any types and shapes in any order, after failures too. It keeps three
obligations of the interface: it runs only after a plan that returned, fast plans repeat
the types of the last full plan, and the query has the same number of rows for every
request. Two conditions of the properties name what the code does *not* guard:

* `FlagServed`: 4-bit queries are asked only of a wrapper with tensor cores. Without
  it `KernelServesTypes` fails; this is observation 6 of section 5.
* `QoIndptrIntact`: in graph mode a decode plan for longer queries writes `qo_indptr`
  (`decode.py:1491`) before checks that may still raise (lines 1546 and 1677), and a later
  plan of one row per request does not write it back. A client that catches such an error and goes
  on with single rows would run with the wrong `qo_indptr`. The builder never does: it
  plans a wrapper with one length and does not catch.

### ServingLanes

A configuration (`Options`) is a device, the cache type and whether this group of layers
uses it, head size, DCP, `use_trtllm_attention`, `disable_flashinfer_q_quantization`,
speculation, A4Q, the layout variable and sinks. Start-up is a sequence of phases that vLLM runs
(external): backend, layer, graph support, builder. Each evaluates the probes
itself; `Ask` keeps the first answer of `has_nvidia_artifactory`, asked only where the
code evaluates it, and `Network` changes what the next first question would be told at any time.
`Serve` is one batch: the lanes `build()` gives its prefills and decodes, and the set of
checks of `plan()`, `run()` and `forward()` that refuse it (`batch.refused`).
The external parts are the order of start-up and `determine_attention_backend`.

Eight kinds of configuration start and are refused in serving; each is a
definition, and `StartedServersServe` says there is no ninth:
`WideHeadsPacked` (A4Q with head size 512: line 870 against `prefill.py:2525`),
`ShardedNvfp4` (DCP passes no scale factors), `ModelTypeNvfp4Queries` (SM100, NVFP4, query quantization
disabled), `Fp8QueriesOnFa2` (SM100, FP8, no TRTLLM), `ShardedFp8Queries` (the
DCP prefill's output would have the 8-bit query type), `VerifyOnFa3` (SM90, FP8, no TRTLLM,
speculation), `OverriddenLayout` (SM100, layout forced to NHD) and `ShardedSinks`. None
is the deployed configuration (GB10, NVFP4, A4Q, head size 256). Removing any
of them from the property makes the run fail.

### Deployment

`files`, `images` and `box` (a container per script) persist; `run[s]` is where the
current run of script `s` is. A command may fail by chance, a script may be
interrupted between any two commands, and a server may crash or be restarted, until
`calm`. A failed `docker run` may leave a container behind that was created and not started: it
keeps the name and never comes up (`started`). `ComesUp` says when a server can serve: its image knows the 4-bit cache, all model files
are there, and no other container holds the port and the GPU. `Request` reaches whoever answers
on the port, as `curl` does. `lost` and `quiet` are history variables: the server this run
warmed has gone away since, and no error was printed.

Two conditions of `RerunsRecover` name what the scripts do not handle: `NoRival` (the
other script's container, which nothing removes and Docker restarts, occupies the port)
and `Resumable` (no partial download, disagreement 4).

## 3. Runs

| run | instance | shows |
|---|---|---|
| `step_pipeline` | 3 requests, queries up to 4 tokens, depths 0 and 1, 3 steps, fair | no batch makes `build` or `run` raise; a replayed graph reads the wrapper that was planned; kernels read their own metadata under both runners and their own plan under V1 and never one of an earlier step under V2; every built step finishes and `build` can go on; `StepService` is implemented |
| `step_plan_race` | 2 requests, 2 steps | *violated*: under V2 a plan buffer is rewritten before its upload executed |
| `paged_metadata` | 2 rows, lengths 0 to 5, pages and chunks of 2, 2 steps | pages fit, rows find their own pages and lengths |
| `paged_metadata_dcp` | 2 ranks | *violated*: page counts do not follow the lengths adjusted for DCP |
| `kv_store` | 2 pages of 4 tokens, 2 heads, 2 launches, both majors and layouts | data and scales read back |
| `kv_store_fallback` | the same, import may fail | *violated*: scales written by the stock writer are read by the other reader |
| `attention_kernel` | 2 warps, 2 tiles, six instantiations, fair | tiles fold in order, output is whole, the block finishes; `BlockService` is implemented |
| `kv_tiling` | groups of 3 heads, query tiles of 4, key tiles of 2, up to 3 tokens and 8 keys, all windows and chunks | rows attend to exactly what they should, partial results are disjoint |
| `attention_wrapper` | 1 or 2 requests of 1 or 2 rows, 6 combinations of types, wrappers with and without graph, tensor cores, `auto` or fa2, GB10 or Hopper | launches fit their module and their plan, graph shapes stay, planned runs are accepted |
| `serving_lanes` | all 4 devices, 3 caches and every combination of the options; head sizes 64, 256 and 512 where A4Q makes them matter: 12,672 configurations | layer and builder agree, captured graphs are decoded as decodes, large pages stay on TRTLLM, and a started server is refused nothing but in the eight named cases |
| `deployment` | 2 weight files, a sweep of 2 requests, 2 polls, both scripts, fair | DONE is true of this run's server, an error-free warm-up has warmed the server clients reach, every run ends, re-runs recover |
| `deployment_rerun` | the same, without fairness | *violated*: past the model step, the model may be partial |

Bounds and why they are enough:

* *Steps.* A race needs one step writing while its predecessor is in the queue; a third
  step lets a wrapper alternate between being planned and not, and shows the frozen
  wrappers, which remember one value, more than every pair of batches.
* *Requests, lengths, depths.* Depths 0 and 1 with parallel drafting make the
  threshold 1 or 3; queries of 1 to 4 tokens are then below, at and above the planned depth, up to
  the threshold and beyond it. Three requests allow a captured size, a padded one and one
  above the capture limit.
* *Pages.* Lengths 0 to 5 with pages of 2 are padding, partial, exact and several pages; a
  row of 3 pages needs two turns of the gather, the second masked.
* *Cache.* A tile of 4 tokens and 4 groups is the least the swizzle is defined on; two of the
  slots share a tile and the third lies in another page.
* *Kernel.* Two warps are the least that can disagree and two tiles the least that
  reuse a buffer; a chunk of two tiles with one masked has a prefetch nobody
  reads. Four warps in a 2x2 layout were explored with one tile, and all six
  instantiations with four warps, without finding anything else, but take too long to repeat.
* *Tiling.* Three heads do not divide a tile of four rows, so a token lies in two tiles;
  every request comes causal and non-causal; windows -1, 0, 1, 3 and chunks 0, 3, 4 are absent, shorter than a tile, and not multiples of one.
  `Word = 64` leaves room for the sums and lets `kv_len - qo_len` wrap for a row without keys.
* *Wrapper.* Two values of every argument are the least that can differ between two plans; the
  types are the caches with and without 4-bit queries, 8 bits throughout, a window, and a
  head size that A4Q refuses. The number of calls is not bounded.
* *Lanes.* Nothing is bounded but the head sizes: 128 behaves as 256 everywhere. Batches
  are any sequence.
* *Deployment.* Two weight files are the least of which one can be missing, two polls the
  least that are not the last, two sweep requests the least of which one may be left out. The number of runs is not bounded.

Fairness. `WF(Stream)`: the GPU executes what was enqueued. `WF(Launch)`: after `build`
returns the runner goes on to the forward pass. Nothing is assumed about `Build`: the engine may
idle. In the kernel, every warp that can run is eventually scheduled and every copy
arrives; a barrier is a condition, not an assumption. In the deployment, a shell goes
on to its next command (each has a time-out or ends by itself), a server that can come
up does, and once nothing fails by chance any more (`calm`, which is never forced) the operator runs
`oneshot.sh` again until it said DONE and the port answers. `RerunsRecover` speaks of
calm only; `RunsEnd` holds without it. After `calm` a first start is not slower than
the wait: if it always were, no number of runs would help.

Deadlock is checked in every run: the only states without a step of their own are the ends that
`Done` and `Rest` name; a client of a wrapper can always plan, and the network can always change.

## 4. What is proved

| module | theorems |
|---|---|
| `StepPipelineProofs` | `TypeCorrect`, `BuildIsSafe`, `RunIsSafe`, `ReplayIsPlanned`, `MetadataIsOwn`, `PlanIsOwn`, `PlanIsNoOlder`, `NeverStuck`, `PipelineRefinesService` |
| `PagedMetadataProofs` | `TypeCorrect`, `BufferSuffices`, `PagesAreOwn`, `LengthsAreOwn` (without DCP) |
| `KvStoreProofs` | `TypeCorrect`, `DataIsReadBack`, `ScalesAreReadBack` (the overlay does not fail) |
| `AttentionKernelProofs` | `TypeCorrect`, `TilesInOrder`, `OutputWhole`, `KernelRefinesBlock`, `EveryStepCounts`, `NeverStuck` |
| `KvTilingProofs` | `TypeCorrect`, `RowsAttendAll`, `PartialsDisjoint` |
| `AttentionWrapperProofs` | `TypeCorrect`, `KernelServes`, `QueriesSplit`, `GraphFrozen`, `PlannedAccepted` |
| `ServingLanesProofs` | `TypeCorrect`, `LayerMatches`, `GraphsMatch`, `LargePages`, `ServersServe` |
| `DeploymentProofs` | `TypeCorrect`, `DoneIsThisRun`, `QuietIsWarm`, `RunsGetOn`, `RecoverableStays`, `DeployedStays` |

The assumptions are the named `ASSUME`s of each module, which TLC evaluates on every run.

* **Pipeline.** `BuildNeverRaises` is not inductive: it needs that a persistent wrapper
  only ever froze the planned depth and that a captured size has made its first plan
  (`GraphInv`). Around it are facts on batches that hold by how batches are formed: a
  batch whose first rows are decodes has them all of one length. `RunNeverRaises` needs `BatchInv`: between `build` and
  `forward` the wrapper still holds the batch's length. The GPU properties need
  `V1Bound` (how far the CPU may be ahead), `HostInv` (whose data the reused buffers
  hold), `StreamInv` (which buffers are already this step's, by place in the stream)
  and `OwnInv` (the planned wrappers are ready when the kernels run). `SourceIsOwnStep` is
  where pinning matters. What is left of plans under V2, `PlanIsNoOlder`, follows from
  `PlanInv`: the plan buffer of every wrapper a step planned holds that step's plan or a later
  one, so the race of disagreement 1 can only let a later plan through. `NeverStuck`
  says that, until all steps have run, no exception was raised and the guard of an action
  holds: V1's wait for earlier copies cannot lock. The refinement follows from `views` being appended in order with singletons.
* **Paged metadata.** `HostInv` says the prefix sums on the CPU are those of the batch,
  `GpuInv` that the device copies follow by phase, `GatherInv` that a program
  has copied a prefix of its row and nobody else's. Rows of different programs are disjoint because prefix sums are monotone.
* **KV store.** The invariant says that a cell not pending is held by its owner. What has
  to be shown is that no two cells share a byte: an address is a number in mixed radix
  (page, side, head, token, group, byte), and the swizzle is a permutation of a tile.
* **Kernel.** `LockStep` cuts the loop at its barriers into stretches: all warps are in the same
  stretch of the same round, or those ahead wait at the start of the next one. Everything
  else is said of one warp alone, by program label: `Copies` (which groups it has in
  flight and what has landed), `Exchanged` (which of the values warps trade it has put), `Progress`
  (what it has folded) and `Merged` (whether its state is in memory, merged or written). A warp's step then
  only has to be compared with what its neighbours, in at most two stretches, can be reading.
  `EndIsQuiet` is why staging is safe: no copy is in flight once states are put for
  merging. The refinement adds that a warp takes up a tile when no other is at the one
  before and writes when all have left the loop. `EveryStepCounts` bounds the steps left by a measure each step
  decreases, `NeverStuck` says some warp may go on or some copy is on its way.
* **Tiling.** `BlockKeysAre` is the core: the iterations a block makes, some masked and
  some not, fold exactly the keys of its chunk a row attends to. It rests on
  `LoopReaches` (the last iteration is far enough), `MaskIs` (the unsigned comparisons
  say what they mean below the word) and `SkippedMask` (an unmasked iteration has nothing to
  mask, though its bounds are rounded). `ChunksCover` needs `WindowReaches`: the chunks of a
  windowed request add up to the keys its rows attend to when it is causal, is not split, or has
  no more tokens than a query tile has rows, which is what the plan's window adds.
* **Wrapper.** The invariant compares attributes with calls: `Served` and `Laid` say that the
  wrapper still is what the last returned call asked for, `Served` also that the last full plan's types
  survive any number of fast plans, `Captured` that the frozen length and the
  first returned plan agree, and `Indptr` who may have written `qo_indptr`. Each outcome of a plan has a
  lemma on the attributes it leaves; `RaiseKeeps` and `ReturnKeeps` do the rest once for
  all of them.

* **Lanes.** `LaneInv` says when the network stops mattering: from the layer on, the probe has
  been asked or the options make its answer irrelevant (`SettledInTime`), so the
  builder is a function of the configuration and the kept answer (`BuilderKnown`,
  `KeptBuilder`) and what chose a quantizing layer or large pages earlier still holds
  (`LayerKnown`, `LargeKnown`). Each check of a batch then has a lemma that names the
  configurations in which it can fail (`NativePrefillGap`, `TrtllmPrefillGap`, `NativeDecodeGap`, `SinkGap`).
* **Deployment.** `DoneInv`: at most one container serves, what `oneshot.sh` serves from can serve
  (image and model), and from its health check on the container under its name is of the run's image
  and profile. `WarmInv`: the shapes before the sweep's current request are
  warm on the server that answers, unless an error was printed or that server was lost.
  Three results are on steps. `RunsGetOn`: a command takes its own run nearer to
  the end and no other run anywhere but to its end. `RecoverableStays` and `DeployedStays`: once nothing fails
  by chance, neither script takes away what recovery starts from (no partial
  download, no rival) nor what it ends in (a deployment that serves).

Model-checked only: liveness (`BuiltStepsFinish`, `BlockFinishes`, `RunsEnd`,
`RerunsRecover`), since TLAPS reasons neither about fairness nor about `ENABLED`, and the
four violations. What liveness rests on is proved as safety: a measure that falls
(`EveryStepCounts`, `RunsGetOn`), a guard that holds until the end (the two `NeverStuck`),
a gain that is not lost (`RecoverableStays`, `DeployedStays`). That these guards are the `ENABLED` of
their actions was compared by TLC on the instances of section 3. The scripts have no counterpart of
`NeverStuck`.

## 5. Disagreements between code and text

1. `a4q_overlay/py/decode.py:898` keeps one page-locked plan buffer per wrapper; the builder's comment says
   reused CPU buffers are not pinned under V2 to avoid a race. The plan's buffer is pinned
   and the race exists for it (`step_plan_race`).
2. `a4q2_backend_flashinfer.py:1448` adjusts lengths for DCP after the page counts were
   taken and does not use the adjusted ones (`paged_metadata_dcp`). The deployment has no DCP.
3. `stage1/Dockerfile.combined:60` logs a failed overlay import and goes on, and
   `src/reports/A4Q_CUDAGRAPH_FIX_REPORT.md:145` calls that a clean fallback; but the stock
   writer swizzles scales that the GB10 reader reads linearly (`kv_store_fallback`).
4. `src/oneshot.sh:41` takes `config.json` and any one shard for a finished download, so an interrupted
   one is never resumed, while line 5 says "re-run any time (skips finished steps)"
   (`deployment_rerun`). Every later run launches a model that cannot load.

Observed while modelling, without a run of their own:

5. `a4q_overlay/py/prefill.py:1512` says split-KV is forced off for NVFP4 caches, naming decode;
   `decode.py:1731` passes on what the caller says, and the builder says split.
   `src/reports/A4Q_DECODE_AUTOTUNE_REPORT.md:70` relies on the split. Either the
   text is out of date or decode lacks the gate.
6. `a4q_overlay/py/decode.py:1685` refuses A4Q without tensor cores inside the branch that
   has tensor cores, so the check is dead and a CUDA-core wrapper accepts A4Q and packs
   queries for a kernel compiled for bf16. The builder does not ask for it.
7. The eight configurations of `ServingLanes` that start and are refused later. For
   `Fp8QueriesOnFa2` the comment at `a4q2_backend_flashinfer.py:1037` excludes fa2-only
   devices, but SM100 without TRTLLM is left with fa2 too.
8. `src/recipe/launch_champion.sh:2` promises that the first load "never hits a cold serve"; a
   failed warm-up is only a warning (line 27), and a restarted container is cold. `QuietRunIsWarm` is what remains of the promise.
9. `set_workspace_buffer` (`a4q2_backend_flashinfer.py:1138`) takes a workspace sized for
   another builder without comparing sizes. Its caller is outside the repository.
10. `a4q_overlay/cuda/include/flashinfer/attention/prefill.cuh:4393` counts on the chunks of a tile
   reaching `window_left + CTA_TILE_Q` keys from its first, which is enough for causal tokens. A
   non-causal token sees up to the last key, so a split non-causal request with a window and more
   tokens than `CTA_TILE_Q` loses keys at its end (5 tokens and keys, window 0, tiles of 4 rows, chunks of 4
   do). `build` (line 1347) sends non-causal drafts to this kernel with the layers' window; drafts are
   a few tokens long, and nothing but that keeps them clear of it.
11. Both scripts poll one port for one model name, so `oneshot.sh` (lines 69 to 77) says DONE over a server
   of `launch_champion.sh` while its own container cannot come up. `DoneServesThisRun` excludes
   servers of earlier runs, not this one.

## 6. Not modelled

Numbers: rounding to FP4 and E4M3, softmax, the tensor-core instructions and their
fragment layouts. The inside of the kernels the GB10 server cannot reach: TRTLLM, cascade, cuDNN,
cute-dsl, cutlass; user-supplied JIT modules. In `ServingLanes`: sliding windows, non-causal
drafts, e5m2, `VLLM_BATCH_INVARIANT`. The ragged and single-request kernels, custom
masks, multi-item scoring, rotary embedding in the kernel. A first start slower than the wait of
`oneshot.sh` is in `Deployment` only before `calm`. Benchmarks, diagnostics and reports. The stage-1
copy of the backend, which the second image replaces. Environment variables and the
cache configuration: read or validated once, without later operations.

## 7. Plan

Done: `StepService`, `StepPipeline`, `PagedMetadata`, `KvStore`, `BlockService`, `AttentionKernel`,
`KvTiling`, `AttentionWrapper`, `ServingLanes`, `Deployment`, and proofs for all of them. Next, in order:

1. **Module cache.** URI of a compiled module against the parameters it was compiled with; stale
   ahead-of-time modules. Property: equal URIs mean equal code.
2. **Pure functions.** Scale layouts of the quantization operators, choice of weight
   scheme.
3. **Kernel variants.** The loops of the ragged and single-request kernels as further
   instances of `AttentionKernel`.
