---------------------------- MODULE StepPipeline ----------------------------
(***************************************************************************)
(* The CPU side of a forward step (FlashInferMetadataBuilder.build, the    *)
(* plan of the wrappers it picks, the eager run or the replay of a FULL    *)
(* CUDA graph) and the GPU stream that executes, later and in order, what  *)
(* the CPU enqueued.                                                       *)
(*                                                                         *)
(* Data is abstracted to a tag: the number of the step that produced it.   *)
(* Tag 0 is what capture and initialisation leave behind.  What a kernel   *)
(* computes is right when every tag it reads is its own step's.            *)
(*                                                                         *)
(* The lane is the deployed one (GB10): causal attention, no DCP, native   *)
(* FlashInfer wrappers for prefill and decode.                             *)
(***************************************************************************)
EXTENDS Integers, Sequences, FiniteSets

CONSTANTS
  SpecDepths,        \* num_speculative_tokens the server may be started with
  ParallelDrafting,  \* a drafting step may verify 1 + 2 * NumSpec tokens
  MaxReqs,           \* scheduler_config.max_num_seqs
  MaxCapture,        \* compilation_config.max_cudagraph_capture_size (tokens)
  CaptureReqs,       \* request counts the runner captures FULL graphs for
  PinMemory,         \* PIN_MEMORY of the platform
  MaxQueryLen,       \* bound: longest query of one request in one step
  MaxSteps           \* bound: steps after capture

ASSUME SpecAssumption == SpecDepths \subseteq Nat
ASSUME FlagAssumption == ParallelDrafting \in BOOLEAN /\ PinMemory \in BOOLEAN
ASSUME ReqsAssumption == MaxReqs \in Nat \ {0} /\ CaptureReqs \subseteq 1..MaxReqs
ASSUME BoundAssumption ==
  MaxCapture \in Nat /\ MaxQueryLen \in Nat \ {0} /\ MaxSteps \in Nat
(* The runner captures only sizes that fit max_cudagraph_capture_size. *)
ASSUME CaptureAssumption ==
  \A n \in SpecDepths, b \in CaptureReqs :
    b * (1 + n) <= MaxCapture

VARIABLES
  useV2,      \* vllm_config.use_v2_model_runner
  numSpec,    \* speculative_config.num_speculative_tokens
  wrappers,   \* persistent decode wrappers and, at Dynamic, the general one
  graphs,     \* request counts with a captured FULL graph
  built,      \* steps built so far; also the tag of the latest one
  launched,   \* steps whose forward has been enqueued
  batch,      \* CommonAttentionMetadata of the step between build and forward
  jobs,       \* what each step enqueued on the stream
  host,       \* reused CPU buffers of the builder
  hostPlan,   \* page-locked int workspace of each wrapper
  gpu,        \* persistent GPU buffers of the builder
  own,        \* indptr / last_page_len tensors a non-graph wrapper holds
  gpuPlan,    \* device int workspace of each wrapper
  pos,        \* next operation of the stream: step number and operation
  views,      \* history: the tags the kernels of each finished step read
  err         \* the exception that stopped the engine, or "none"

cpuVars == <<useV2, numSpec, wrappers, graphs, built, launched, batch, jobs,
             host, hostPlan, err>>
gpuVars == <<gpu, own, gpuPlan, pos, views>>
vars == <<useV2, numSpec, wrappers, graphs, built, launched, batch, jobs,
          host, hostPlan, err, gpu, own, gpuPlan, pos, views>>

-----------------------------------------------------------------------------
(* Configuration fixed by FlashInferMetadataBuilder.__init__.              *)

PlannedQLen == 1 + numSpec

(* reorder_batch_threshold *)
Threshold == IF ParallelDrafting THEN 1 + 2 * numSpec ELSE 1 + numSpec

(* Mutant: the bound counts requests where the code counts tokens. *)
MaxBsInRequests == IF MaxCapture < MaxReqs THEN MaxCapture ELSE MaxReqs

(* _decode_cudagraph_max_bs, in tokens *)
DecodeCudagraphMaxBs ==
  LET reqs == (1 + numSpec) * MaxReqs
  IN  IF MaxCapture < reqs THEN MaxCapture ELSE reqs

(* Mutant: the pinning follows the platform only. *)
PinnedWherePossible == PinMemory

(* pin_memory: reused CPU buffers are not pinned under the V2 runner *)
PinnedBuffers == ~useV2 /\ PinMemory

(* Wrappers: one per persistent batch size, one dynamic, one for prefill.  *)
Dynamic == 0
Prefill == MaxReqs + 1
DecodeWrappers == 0..MaxReqs
AllWrappers == 0..(MaxReqs + 1)

(* What a decode wrapper remembers between plans: vllm_first_call and the  *)
(* frozen _q_len_per_req (0 stands for the attribute not being set).       *)
FreshWrapper == [first |-> TRUE, qlen |-> 0]

-----------------------------------------------------------------------------
(* Batches.  rows[r] is the query length of request r; a padding row of a  *)
(* FULL graph has length 0 and an empty KV range.                          *)

Longest(rows) ==
  CHOOSE m \in {rows[r] : r \in DOMAIN rows} : \A r \in DOMAIN rows : rows[r] <= m

(* query_start_loc[n]: the tokens of the first n requests *)
Span(rows, n) ==
  Cardinality({t \in (1..n) \X (1..MaxQueryLen) : t[2] <= rows[t[1]]})

NoBatch == [n |-> 0, rows |-> << >>, tokens |-> 0, replay |-> FALSE]

(* The model runner (external).  It moves decodes to the front, and when   *)
(* every request asks for exactly PlannedQLen tokens and a captured graph  *)
(* is large enough, pads the batch with empty rows to that graph's size    *)
(* and replays it; any other batch runs eagerly, unpadded.                 *)
Reordered(lens) ==
  \A r, s \in DOMAIN lens :
    r < s /\ lens[s] <= Threshold => lens[r] <= Threshold

GraphsFor(n, lens) ==
  IF \A r \in 1..n : lens[r] = PlannedQLen THEN {b \in graphs : n <= b} ELSE {}

Eager(n, lens) ==
  [n |-> n, rows |-> lens, tokens |-> Span(lens, n), replay |-> FALSE]

Replayed(b, n) ==
  [n |-> b, rows |-> [r \in 1..b |-> IF r <= n THEN PlannedQLen ELSE 0],
   tokens |-> b * PlannedQLen, replay |-> TRUE]

BatchOf(n, lens) ==
  LET fits == GraphsFor(n, lens)
  IN  IF fits = {} THEN Eager(n, lens)
      ELSE Replayed(CHOOSE b \in fits : \A c \in fits : b <= c, n)

RunnerBatches ==
  UNION {{BatchOf(n, lens) : lens \in {q \in [1..n -> 1..MaxQueryLen] : Reordered(q)}} :
           n \in 1..MaxReqs}

-----------------------------------------------------------------------------
(* How build() routes a batch.                                             *)

(* has_compact_spec_decode: an active row shorter than the longest one     *)
HasCompactSpecDecode(b) ==
  /\ Threshold > 1
  /\ \E r \in 1..b.n : b.rows[r] > 0 /\ b.rows[r] # Longest(b.rows)

(* split_decodes_and_prefills(require_uniform=True) (external): how many   *)
(* leading requests count as decodes                                       *)
SplitDecodes(b) ==
  LET odd == {r \in 1..b.n : b.rows[r] # b.rows[1]}
  IN  IF Threshold <= 1 /\ Longest(b.rows) <= Threshold THEN b.n
      ELSE IF b.rows[1] > Threshold THEN 0
      ELSE IF \A r \in odd : b.rows[r] = 0 THEN b.n
      ELSE (CHOOSE r \in odd : \A s \in odd : r <= s) - 1

NumDecodes(b) == IF HasCompactSpecDecode(b) THEN 0 ELSE SplitDecodes(b)

NumDecodeTokens(b) ==
  IF NumDecodes(b) = b.n THEN b.tokens ELSE Span(b.rows, NumDecodes(b))

(* decode_q_len_from_indptr *)
DecodeQLen(b) == Longest([r \in 1..NumDecodes(b) |-> b.rows[r]])

(* Mutants: the planned query length is not compared; the bound is strict. *)
EligibleAnyQLen(b) ==
  NumDecodes(b) = b.n /\ NumDecodeTokens(b) <= DecodeCudagraphMaxBs
EligibleStrictly(b) ==
  /\ NumDecodes(b) = b.n
  /\ NumDecodeTokens(b) < DecodeCudagraphMaxBs
  /\ DecodeQLen(b) = PlannedQLen

(* persistent_decode_wrapper_eligible *)
PersistentEligible(b) ==
  /\ NumDecodes(b) = b.n
  /\ NumDecodeTokens(b) <= DecodeCudagraphMaxBs
  /\ DecodeQLen(b) = PlannedQLen

(* _get_decode_wrapper *)
DecodeWrapper(b) == IF PersistentEligible(b) THEN NumDecodes(b) ELSE Dynamic

(* fast_plan_decode takes the original plan() for the dynamic wrapper and  *)
(* for the first call on a persistent one.                                 *)
OriginalPlan(w) == w = Dynamic \/ wrappers[w].first

FrozenShapeError(w, qlen) ==
  w # Dynamic /\ wrappers[w].qlen # 0 /\ wrappers[w].qlen # qlen

EmptyKvError(b, qlen) == qlen > 1 /\ \E r \in 1..NumDecodes(b) : b.rows[r] = 0

PlanError(b) ==
  LET w == DecodeWrapper(b)
      qlen == DecodeQLen(b)
  IN  IF NumDecodes(b) = 0 THEN "none"
      ELSE IF FrozenShapeError(w, qlen) THEN "frozen q_len_per_req"
      ELSE IF OriginalPlan(w) /\ EmptyKvError(b, qlen) THEN "empty KV range"
      ELSE "none"

-----------------------------------------------------------------------------
(* Start-up: the runner captures one FULL graph per size.  build() plans   *)
(* the wrapper of that size with a batch of full rows, and the recorded    *)
(* kernels keep reading that wrapper's buffers.  The stream is idle.       *)
CaptureGraph(b) ==
  /\ b \in CaptureReqs \ graphs
  /\ built = 0
  /\ wrappers' = [wrappers EXCEPT ![b] = [first |-> FALSE, qlen |-> PlannedQLen]]
  /\ graphs' = graphs \union {b}
  /\ UNCHANGED <<useV2, numSpec, built, launched, batch, jobs, host, hostPlan,
                 err, gpuVars>>

Finished == Len(views)

(* The V1 runner waits, before it touches its reused CPU buffers, for the  *)
(* copies of the step before; the V2 runner has no such synchronisation.   *)
InputBuffersFree ==
  useV2 \/ Finished = built \/ (pos.step = built /\ pos.op = "attend")

JobOf(b) ==
  LET nd == NumDecodes(b)
      w == DecodeWrapper(b)
  IN  [n |-> b.n, nd |-> nd, replay |-> b.replay,
       prefill |-> nd < b.n,
       decode |-> IF nd = 0 THEN {} ELSE {w},
       original |-> nd > 0 /\ OriginalPlan(w)]

Planned(job) == job.decode \union (IF job.prefill THEN {Prefill} ELSE {})

(* build(): compute the paged-KV metadata in the reused CPU buffers,       *)
(* enqueue the copies, plan the wrappers.                                  *)
Build ==
  /\ err = "none" /\ graphs = CaptureReqs
  /\ launched = built /\ built < MaxSteps
  /\ InputBuffersFree
  /\ \E b \in RunnerBatches :
       LET k == built + 1
           job == JobOf(b)
       IN  IF PlanError(b) = "none"
             THEN /\ batch' = b
                  /\ built' = k
                  /\ jobs' = Append(jobs, job)
                  /\ host' = [mirror |-> k, indptr |-> k, last |-> k]
                  /\ hostPlan' = [w \in AllWrappers |->
                                    IF w \in Planned(job) THEN k ELSE hostPlan[w]]
                  /\ wrappers' = [w \in DecodeWrappers |->
                                    IF w \in job.decode
                                      THEN [first |-> FALSE, qlen |-> DecodeQLen(b)]
                                      ELSE wrappers[w]]
                  /\ UNCHANGED err
             ELSE /\ err' = PlanError(b)
                  /\ UNCHANGED <<batch, built, jobs, host, hostPlan, wrappers>>
  /\ UNCHANGED <<useV2, numSpec, graphs, launched, gpuVars>>

(* Mutant: the tokens of the prefill part are counted as decode tokens. *)
RunAcceptsAllTokens(b) ==
  LET nd == NumDecodes(b)
  IN  nd = 0 \/ b.tokens \div nd = wrappers[DecodeWrapper(b)].qlen

(* run(): the eager decode call re-checks the query against the plan.      *)
RunAccepts(b) ==
  LET nd == NumDecodes(b)
  IN  nd = 0 \/ NumDecodeTokens(b) \div nd = wrappers[DecodeWrapper(b)].qlen

(* forward(), or the replay of the captured graph *)
Launch ==
  /\ err = "none" /\ launched < built
  /\ IF batch.replay \/ RunAccepts(batch)
       THEN /\ launched' = built
            /\ batch' = NoBatch
            /\ UNCHANGED err
       ELSE /\ err' = "q_len_per_req differs from plan"
            /\ UNCHANGED <<launched, batch>>
  /\ UNCHANGED <<useV2, numSpec, wrappers, graphs, built, jobs, host, hostPlan,
                 gpuVars>>

-----------------------------------------------------------------------------
(* The GPU stream.  A copy from a pinned CPU buffer reads the buffer when  *)
(* it executes; a copy from a pageable one was staged when it was enqueued *)
(* (external: CUDA).                                                       *)

Source(buf) == IF PinnedBuffers THEN host[buf] ELSE pos.step

At(op) == pos.op = op /\ pos.step <= built

Advance(op) == pos' = [pos EXCEPT !.op = op]

CopyIndptr ==
  /\ At("indptr")
  /\ gpu' = [gpu EXCEPT !.indptr = Source("mirror")]
  /\ Advance("indices")
  /\ UNCHANGED <<cpuVars, own, gpuPlan, views>>

(* _copy_page_indices_kernel gathers with the indptr it finds on the GPU.  *)
CopyPageIndices ==
  /\ At("indices")
  /\ gpu' = [gpu EXCEPT !.indices = gpu.indptr]
  /\ Advance("last")
  /\ UNCHANGED <<cpuVars, own, gpuPlan, views>>

CopyLastPageLen ==
  /\ At("last")
  /\ gpu' = [gpu EXCEPT !.last = Source("last")]
  /\ Advance("plan")
  /\ UNCHANGED <<cpuVars, own, gpuPlan, views>>

(* What plan() enqueued: the upload of the page-locked int workspace of    *)
(* every planned wrapper, and the copies of an original plan(), into the   *)
(* builder's buffers for a persistent wrapper and into tensors of its own  *)
(* for the others.                                                         *)
UploadPlan ==
  /\ At("plan")
  /\ LET job == jobs[pos.step]
         fresh == {w \in Planned(job) : w \in {Dynamic, Prefill}}
         persistent == job.original /\ job.decode # {Dynamic}
     IN  /\ gpuPlan' = [w \in AllWrappers |->
                          IF w \in Planned(job) THEN hostPlan[w] ELSE gpuPlan[w]]
         /\ own' = [w \in {Dynamic, Prefill} |->
                      IF w \in fresh
                        THEN [indptr |-> Source("indptr"), last |-> Source("last")]
                        ELSE own[w]]
         /\ gpu' = IF persistent
                     THEN [gpu EXCEPT !.indptr = Source("indptr"),
                                      !.last = Source("last")]
                     ELSE gpu
  /\ Advance("attend")
  /\ UNCHANGED <<cpuVars, views>>

(* The wrappers whose buffers the attention kernels of a step read: a      *)
(* replayed graph reads the buffers it was captured with.                  *)
KernelWrappers(job) == IF job.replay THEN {job.n} ELSE Planned(job)

MetadataRead(w) ==
  IF w \in {Dynamic, Prefill}
    THEN {own[w].indptr, own[w].last, gpu.indices}
    ELSE {gpu.indptr, gpu.last, gpu.indices}

(* Mutants: the kernels are enqueued by build() already, or one step late. *)
ForwardBuilt == pos.step <= built
ForwardLate == pos.step < launched

(* The attention kernels of a step are enqueued by its forward(). *)
ForwardEnqueued == pos.step <= launched

Attend ==
  /\ At("attend") /\ ForwardEnqueued
  /\ LET ws == KernelWrappers(jobs[pos.step])
     IN  views' = Append(views, [meta |-> UNION {MetadataRead(w) : w \in ws},
                                 plan |-> {gpuPlan[w] : w \in ws}])
  /\ pos' = [step |-> pos.step + 1, op |-> "indptr"]
  /\ UNCHANGED <<cpuVars, gpu, own, gpuPlan>>

-----------------------------------------------------------------------------
Init ==
  /\ useV2 \in BOOLEAN /\ numSpec \in SpecDepths
  /\ wrappers = [w \in DecodeWrappers |-> FreshWrapper]
  /\ graphs = {}
  /\ built = 0 /\ launched = 0
  /\ batch = NoBatch
  /\ jobs = << >>
  /\ host = [mirror |-> 0, indptr |-> 0, last |-> 0]
  /\ hostPlan = [w \in AllWrappers |-> 0]
  /\ gpu = [indptr |-> 0, indices |-> 0, last |-> 0]
  /\ own = [w \in {Dynamic, Prefill} |-> [indptr |-> 0, last |-> 0]]
  /\ gpuPlan = [w \in AllWrappers |-> 0]
  /\ pos = [step |-> 1, op |-> "indptr"]
  /\ views = << >>
  /\ err = "none"

(* The bounded model ends when every step has been executed. *)
Done ==
  /\ Finished = MaxSteps
  /\ UNCHANGED vars

Stream ==
  CopyIndptr \/ CopyPageIndices \/ CopyLastPageLen \/ UploadPlan \/ Attend

Next ==
  \/ \E b \in CaptureReqs : CaptureGraph(b)
  \/ Build
  \/ Launch
  \/ Stream
  \/ Done

(* The stream executes what was enqueued, and the engine's loop goes on.   *)
Fairness == WF_vars(Stream) /\ WF_vars(Launch)

Spec == Init /\ [][Next]_vars
FairSpec == Spec /\ Fairness

-----------------------------------------------------------------------------
(* Properties.                                                             *)

Tag == 0..MaxSteps
Ops == {"indptr", "indices", "last", "plan", "attend"}
Errors == {"none", "frozen q_len_per_req", "empty KV range",
           "q_len_per_req differs from plan"}

Jobs == [n : 1..MaxReqs, nd : 0..MaxReqs, replay : BOOLEAN, prefill : BOOLEAN,
         decode : SUBSET DecodeWrappers, original : BOOLEAN]

TypeOK ==
  /\ useV2 \in BOOLEAN /\ numSpec \in SpecDepths
  /\ wrappers \in [DecodeWrappers -> [first : BOOLEAN, qlen : Nat]]
  /\ graphs \subseteq CaptureReqs
  /\ built \in Tag /\ launched \in Tag
  /\ launched <= built /\ built <= launched + 1
  /\ jobs \in Seq(Jobs) /\ Len(jobs) = built
  /\ host \in [{"mirror", "indptr", "last"} -> Tag]
  /\ hostPlan \in [AllWrappers -> Tag] /\ gpuPlan \in [AllWrappers -> Tag]
  /\ gpu \in [{"indptr", "indices", "last"} -> Tag]
  /\ own \in [{Dynamic, Prefill} -> [{"indptr", "last"} -> Tag]]
  /\ pos \in [step : 1..(MaxSteps + 1), op : Ops]
  /\ views \in Seq([meta : SUBSET Tag, plan : SUBSET Tag])
  /\ Len(views) = pos.step - 1 /\ Len(views) <= launched
  /\ err \in Errors

(* The kernels of a step read the indptr, page indices and last-page       *)
(* lengths of that step, whichever wrapper and copies they came through    *)
(* and however far the CPU ran ahead (the race the comments at pin_memory  *)
(* and at paged_kv_indptr_cpu_buffer are about).                           *)
KernelsReadOwnMetadata == \A k \in 1..Len(views) : views[k].meta = {k}

(* Under the V1 runner the kernels of a step also run from the split-KV    *)
(* plan of that step, although every wrapper reuses one page-locked plan   *)
(* buffer and a replayed graph never looks at the wrapper build() chose.   *)
KernelsReadOwnPlan == ~useV2 => \A k \in 1..Len(views) : views[k].plan = {k}

(* Under either runner no kernel runs from an older plan than its step's:  *)
(* every wrapper it reads was planned for it, and the race on the plan's   *)
(* buffer only ever lets a later plan through.                             *)
KernelsReadNoOlderPlan == \A k \in 1..Len(views) : views[k].plan \subseteq k..built

(* Its own plan under either runner: what "we do not pin reused CPU        *)
(* buffers to avoid a race condition" promises, extended to the plan's     *)
(* buffer.                                                                 *)
KernelsReadOwnPlanAlways == \A k \in 1..Len(views) : views[k].plan = {k}

(* No legal sequence of batches makes build() raise: a persistent wrapper  *)
(* is never asked for another query length than the one it froze, and the  *)
(* padding rows of a graph never reach a full plan().                      *)
BuildNeverRaises == err \notin {"frozen q_len_per_req", "empty KV range"}

(* The eager run() finds as many query rows per request as were planned,   *)
(* though it derives them from the token counts of the metadata.           *)
RunNeverRaises == err # "q_len_per_req differs from plan"

(* The runner's choice to replay and the builder's choice of wrapper are   *)
(* made apart; a replayed graph's wrapper is the one build() re-planned.   *)
ReplayReadsPlannedWrapper ==
  \A k \in 1..Len(jobs) : jobs[k].replay => Planned(jobs[k]) = {jobs[k].n}

(* Every step that was built is eventually executed, and build() can go on *)
(* to the next: the V1 runner's wait for the previous step's copies cannot *)
(* lock it against the stream.                                             *)
BuiltStepsFinish ==
  \A k \in 1..MaxSteps :
    built = k ~> Len(views) >= k /\ (built = MaxSteps \/ ENABLED Build)

(* The pipeline implements the service: a step is submitted when its       *)
(* forward is enqueued.                                                    *)
Service == INSTANCE StepService
  WITH submitted <- launched,
       answers <- [k \in 1..Len(views) |-> views[k].meta]

ImplementsService == Service!Spec
=============================================================================
