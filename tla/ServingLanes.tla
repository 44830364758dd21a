--------------------------- MODULE ServingLanes ---------------------------
(***************************************************************************)
(* From a configuration to the kernels that serve it: backend selection,   *)
(* one layer (FlashInferImpl), the CUDA-graph support level, the metadata  *)
(* builder of the layer's KV-cache group, and then any sequence of batches.*)
(* Each of these decides about lanes and query types on its own, at a time *)
(* of its own, partly from a network probe whose first answer is kept; a   *)
(* batch fails in the middle of serving when two of them disagree or when  *)
(* a lane they chose refuses what they chose for it.                       *)
(*                                                                         *)
(* Query heads are a multiple of the KV heads, attention is causal without *)
(* a sliding window, the 8-bit type is e4m3, and VLLM_BATCH_INVARIANT is   *)
(* unset (it makes the probe say no).                                      *)
(***************************************************************************)


CONSTANTS
  Configurations,   \* the server configurations considered
  NoLayer,          \* the layer before it is made
  NoBuilder         \* the builder before it is made

Devices == {"SM80", "SM90", "SM100", "SM120"}
Caches == {"auto", "fp8", "nvfp4"}
HeadDims == {64, 128, 256, 512}

(* cache is --kv-cache-dtype, quantized whether this group's layers use it *)
(* (--kv-cache-dtype-skip-layers), force is use_trtllm_attention, plainQ is*)
(* disable_flashinfer_q_quantization, sharded is DCP, layout is            *)
(* VLLM_KV_CACHE_LAYOUT.                                                   *)
Options ==
  [device : Devices, cache : Caches, quantized : BOOLEAN, head : HeadDims,
   sharded : BOOLEAN, force : {"unset", "on", "off"}, plainQ : BOOLEAN,
   spec : BOOLEAN, a4q : BOOLEAN, layout : {"unset", "NHD", "HND"},
   sinks : BOOLEAN]

ASSUME ConfigurationsAssumption ==
  Configurations \subseteq {c \in Options : c.quantized => c.cache # "auto"}

VARIABLES
  conf,      \* what the operator asked for
  online,    \* whether NVIDIA's artifactory answers now
  known,     \* has_nvidia_artifactory's kept answer
  phase,     \* select, layer, graphs, builder, serve or refused
  page,      \* the kernel block size: at most 64, or larger
  layer,     \* FlashInferImpl
  graphs,    \* AttentionCGSupport
  builder,   \* FlashInferMetadataBuilder
  batch      \* lanes of the last batch, and the checks that refused it

vars == <<conf, online, known, phase, page, layer, graphs, builder, batch>>

Lanes == {"none", "native", "trtllm", "xqa"}
Queries == {"model", "fp8"}
Checks == {"sinks", "layout", "query", "fp8 on fa2", "tokens on fa3", "head",
           "cache type", "scales", "fp8 output"}

Layers == [quantizes : BOOLEAN]
Builders ==
  [qPrefill : Queries, qDecode : Queries, kernel : Lanes, multi : BOOLEAN,
   packsPrefill : BOOLEAN, packsDecode : BOOLEAN]

ASSUME NoLayerAssumption == NoLayer \notin Layers
ASSUME NoBuilderAssumption == NoBuilder \notin Builders

Idle == [prefill |-> "none", decode |-> "none", refused |-> {}]

-----------------------------------------------------------------------------
(* Probes                                                                  *)

(* has_nvidia_artifactory under functools.cache                            *)
Answer == IF known = "unasked" THEN online ELSE known = "yes"

(* Mutant: the probe is made again at every call. *)
AskAgain(asked) == known' = known

Ask(asked) ==
  known' = IF asked /\ known = "unasked"
             THEN IF online THEN "yes" ELSE "no"
             ELSE known

SupportsTrtllm(prefill) ==
  /\ Answer
  /\ \/ conf.device = "SM100"
     \/ conf.device \in {"SM90", "SM120"} /\ ~prefill

CanUseTrtllm == conf.force # "off" /\ SupportsTrtllm(FALSE)

-----------------------------------------------------------------------------
(* Selecting the backend                                                   *)

SupportsCache ==
  conf.cache = "nvfp4" =>
     \/ conf.device = "SM120"
     \/ conf.device = "SM100" /\ SupportsTrtllm(TRUE) /\ SupportsTrtllm(FALSE)

BlockSizes ==
  {"small"} \union
  (IF conf.device = "SM100" /\ CanUseTrtllm THEN {"large"} ELSE {})

Layout ==
  IF conf.layout # "unset" THEN conf.layout
  ELSE IF \/ conf.device = "SM100"
          \/ conf.device = "SM120" /\ conf.cache = "nvfp4" THEN "HND"
  ELSE "NHD"

SelectBackend ==
  /\ phase = "select"
  /\ Ask(conf.device = "SM100" /\ (conf.cache = "nvfp4" \/ conf.force # "off"))
  /\ \/ ~SupportsCache /\ phase' = "refused" /\ UNCHANGED page
     \/ SupportsCache /\ phase' = "layer" /\ page' \in BlockSizes
  /\ UNCHANGED <<conf, online, layer, graphs, builder, batch>>

-----------------------------------------------------------------------------
(* The layer                                                               *)

(* self.cache_dtype of the group, kv_cache_dtype of its layers             *)
Cache == IF conf.quantized THEN conf.cache ELSE "auto"

QuantizesQuery ==
  CanUseTrtllm /\ Cache # "auto" /\ conf.device = "SM100" /\ ~conf.plainQ

MakeLayer ==
  /\ phase = "layer"
  /\ Ask(conf.force # "off")
  /\ layer' = [quantizes |-> QuantizesQuery]
  /\ phase' = "graphs"
  /\ UNCHANGED <<conf, online, page, graphs, builder, batch>>

-----------------------------------------------------------------------------
(* CUDA-graph support                                                      *)

(* flashinfer_supports_uniform_multi_token_decode: the fast_decode_plan of *)
(* the overlay has the parameter it looks for.                             *)
UniformMultiToken == TRUE

GraphSupport ==
  IF conf.device # "SM90" /\ (CanUseTrtllm \/ UniformMultiToken)
    THEN "uniform" ELSE "single"

ResolveGraphs ==
  /\ phase = "graphs"
  /\ Ask(conf.device # "SM90" /\ conf.force # "off")
  /\ graphs' = GraphSupport
  /\ phase' = "builder"
  /\ UNCHANGED <<conf, online, page, layer, builder, batch>>

-----------------------------------------------------------------------------
(* The builder                                                             *)

Fa2Nvfp4 == Cache = "nvfp4" /\ conf.device = "SM120"

(* Mutant: 4-bit caches take 8-bit queries on every device. *)
QueryTypeOfCache(prefill) ==
  IF conf.plainQ \/ Cache = "auto" THEN "model"
  ELSE IF Cache = "fp8" /\ conf.device \notin {"SM90", "SM100"} THEN "model"
  ELSE "fp8"

(* get_q_data_type                                                         *)
QueryType(prefill) ==
  IF conf.plainQ \/ Cache = "auto" THEN "model"
  ELSE IF Cache = "nvfp4"
    THEN IF conf.device = "SM120" THEN "model" ELSE "fp8"
  ELSE IF conf.device = "SM90" /\ ~prefill /\ conf.force # "off" THEN "model"
  ELSE IF conf.device \in {"SM90", "SM100"} THEN "fp8"
  ELSE "model"

(* flashinfer_trtllm_api_decode_kernel, XQA given up under DCP             *)
DecodeKernel ==
  IF ~CanUseTrtllm \/ conf.device = "SM120" THEN "native"
  ELSE IF conf.device = "SM100" THEN "trtllm"
  ELSE IF conf.sharded THEN "native" ELSE "xqa"

(* Mutant: only TRTLLM decodes verify batches. *)
MultiTokenTrtllm(kernel) == conf.spec /\ ~conf.sharded /\ kernel = "trtllm"

(* reorder_batch_threshold > 1: verify batches are decodes                 *)
MultiToken(kernel) ==
  /\ conf.spec
  /\ ~conf.sharded
  /\ \/ kernel = "trtllm"
     \/ kernel = "native" /\ UniformMultiToken

Packed(heads) ==
  conf.a4q /\ Fa2Nvfp4 /\ ~conf.sharded /\ conf.head \in heads

SupportsSink ==
  /\ conf.force # "off"
  /\ conf.device = "SM100"
  /\ SupportsTrtllm(FALSE) /\ SupportsTrtllm(TRUE)

BuilderRefused ==
  \/ /\ Cache = "nvfp4" /\ ~Fa2Nvfp4
     /\ conf.force = "off" \/ ~SupportsTrtllm(TRUE) \/ ~SupportsTrtllm(FALSE)
  \/ Cache = "nvfp4" /\ Layout # "HND"
  \/ page = "large" /\ ~(conf.device = "SM100" /\ CanUseTrtllm)
  \/ conf.sinks /\ ~SupportsSink

NewBuilder ==
  [qPrefill |-> QueryType(TRUE), qDecode |-> QueryType(FALSE),
   kernel |-> DecodeKernel, multi |-> MultiToken(DecodeKernel),
   packsPrefill |-> Packed({128, 256, 512}), packsDecode |-> Packed({128, 256})]

(* Mutant: a refused builder is kept. *)
MakeBuilderFirst ==
  /\ phase = "builder"
  /\ Ask(conf.force # "off")
  /\ builder' = NewBuilder
  /\ phase' = IF BuilderRefused THEN "refused" ELSE "serve"
  /\ UNCHANGED <<conf, online, page, layer, graphs, batch>>

MakeBuilder ==
  /\ phase = "builder"
  /\ Ask(conf.force # "off")
  /\ \/ BuilderRefused /\ phase' = "refused" /\ UNCHANGED builder
     \/ ~BuilderRefused /\ phase' = "serve" /\ builder' = NewBuilder
  /\ UNCHANGED <<conf, online, page, layer, graphs, batch>>

-----------------------------------------------------------------------------
(* One batch: lanes, plans and the forward pass                            *)

(* Mutant: large pages take the lane of their own options. *)
PrefillUnforced ==
  /\ conf.force # "off" /\ ~conf.sharded /\ SupportsTrtllm(TRUE)
  /\ builder.qPrefill = "fp8" \/ conf.sinks \/ conf.force = "on"

(* use_trtllm_attention for the prefills of a batch; pages of 128 and more *)
(* force it on.                                                            *)
PrefillUsesTrtllm ==
  LET force == IF page = "large" THEN "on" ELSE conf.force
  IN /\ force # "off"
     /\ ~conf.sharded
     /\ SupportsTrtllm(TRUE)
     /\ \/ builder.qPrefill = "fp8"
        \/ conf.sinks
        \/ force = "on"
        \/ Cache = "auto"

AsksForPrefill ==
  (page = "large" \/ conf.force # "off") /\ ~conf.sharded

PrefillLane == IF PrefillUsesTrtllm THEN "trtllm" ELSE "native"

(* determine_attention_backend (external): fa3 is Hopper's                 *)
DeviceEngine == IF conf.device = "SM90" THEN "fa3" ELSE "fa2"

(* kv_cache_dtype stays the string "nvfp4" off the FA2 lane, which is no   *)
(* type a native plan knows.                                               *)
UnknownCacheType == Cache = "nvfp4" /\ ~Fa2Nvfp4

(* A layer that quantizes hands over 8-bit queries, which maybe_quant_query*)
(* cannot turn back.                                                       *)
QueryMismatch(q) == layer.quantizes /\ q # "fp8"

(* The prefill wrapper's plan() and run(), or BatchDCPPrefillWrapper's,    *)
(* which passes no scale factors and whose output has the query type.      *)
NativePrefillChecks ==
  (IF builder.packsPrefill /\ conf.head \notin {128, 256} THEN {"head"} ELSE {})
  \union (IF builder.qPrefill = "fp8" /\ DeviceEngine = "fa2" /\ ~UnknownCacheType
            THEN {"fp8 on fa2"} ELSE {})
  \union (IF UnknownCacheType THEN {"cache type"} ELSE {})
  \union (IF conf.sharded /\ Fa2Nvfp4 THEN {"scales"} ELSE {})
  \union (IF conf.sharded /\ builder.qPrefill = "fp8" /\ ~UnknownCacheType
            THEN {"fp8 output"} ELSE {})

TrtllmPrefillChecks ==
  (IF Layout # "HND" THEN {"layout"} ELSE {})
  \union (IF Cache = "nvfp4" /\ builder.qPrefill # "fp8" THEN {"query"} ELSE {})

(* The decode wrapper asks for the device's engine only with 8-bit data.   *)
DecodeEngine ==
  IF Cache = "fp8" \/ builder.qDecode = "fp8" THEN DeviceEngine ELSE "fa2"

NativeDecodeChecks(tokens) ==
  (IF builder.qDecode = "fp8" /\ DecodeEngine = "fa2" THEN {"fp8 on fa2"} ELSE {})
  \union (IF tokens = "many" /\ DecodeEngine = "fa3" THEN {"tokens on fa3"} ELSE {})
  \union (IF builder.packsDecode /\ conf.head \notin {128, 256} THEN {"head"} ELSE {})

PrefillChecks(lane) ==
  IF lane = "none" THEN {}
  ELSE (IF lane = "native" THEN NativePrefillChecks ELSE TrtllmPrefillChecks)
       \union (IF QueryMismatch(builder.qPrefill) THEN {"query"} ELSE {})

DecodeChecks(lane, tokens) ==
  IF lane = "none" THEN {}
  ELSE (IF lane = "native" THEN NativeDecodeChecks(tokens) ELSE {})
       \union (IF lane = "trtllm" /\ Layout # "HND" THEN {"layout"} ELSE {})
       \union (IF QueryMismatch(builder.qDecode) THEN {"query"} ELSE {})

(* build() refuses sinks unless every lane of the batch is TRTLLM's.       *)
SinkChecks(pre, dec) ==
  IF conf.sinks /\ (pre = "native" \/ dec = "native") THEN {"sinks"} ELSE {}

(* build() and forward() of a batch with prefills, and decodes of one or   *)
(* of many tokens; without multi-token decode, verify rows are prefills.   *)
Serve(prefills, tokens) ==
  LET pre == IF prefills THEN PrefillLane ELSE "none"
      dec == IF tokens = "none" THEN "none" ELSE builder.kernel
  IN /\ phase = "serve"
     /\ prefills \/ tokens # "none"
     /\ tokens = "many" => builder.multi
     /\ Ask(AsksForPrefill)
     /\ batch' = [prefill |-> pre, decode |-> dec,
                  refused |-> SinkChecks(pre, dec) \union PrefillChecks(pre)
                                \union DecodeChecks(dec, tokens)]
     /\ UNCHANGED <<conf, online, phase, page, layer, graphs, builder>>

-----------------------------------------------------------------------------

(* The artifactory comes and goes.                                         *)
Network ==
  /\ online' = ~online
  /\ UNCHANGED <<conf, known, phase, page, layer, graphs, builder, batch>>

Init ==
  /\ conf \in Configurations
  /\ online \in BOOLEAN
  /\ known = "unasked"
  /\ phase = "select"
  /\ page = "small"
  /\ layer = NoLayer
  /\ graphs = "none"
  /\ builder = NoBuilder
  /\ batch = Idle

Next ==
  \/ Network
  \/ SelectBackend
  \/ MakeLayer
  \/ ResolveGraphs
  \/ MakeBuilder
  \/ \E prefills \in BOOLEAN, tokens \in {"none", "one", "many"} :
        Serve(prefills, tokens)

Spec == Init /\ [][Next]_vars

-----------------------------------------------------------------------------
(* Properties                                                              *)

(* Types of the state; a server serves exactly when its builder was made.  *)
TypeOK ==
  /\ conf \in Configurations
  /\ online \in BOOLEAN
  /\ known \in {"unasked", "yes", "no"}
  /\ phase \in {"select", "layer", "graphs", "builder", "serve", "refused"}
  /\ page \in {"small", "large"}
  /\ layer \in Layers \union {NoLayer}
  /\ graphs \in {"none", "single", "uniform"}
  /\ builder \in Builders \union {NoBuilder}
  /\ batch \in [prefill : Lanes, decode : Lanes, refused : SUBSET Checks]
  /\ builder # NoBuilder <=> phase = "serve"
  /\ phase \in {"graphs", "builder", "serve"} => layer # NoLayer

(* A layer that hands over 8-bit queries has a builder that expects them in*)
(* both phases and decodes with TRTLLM, although layer and builder ask     *)
(* the probe at different times and the network may fail between           *)
(* (FlashInferImpl.supports_quant_query_input, get_q_data_type).           *)
LayerMatchesBuilder ==
  phase = "serve" /\ layer.quantizes =>
     /\ builder.qPrefill = "fp8" /\ builder.qDecode = "fp8"
     /\ builder.kernel = "trtllm"

(* When uniform batches of several tokens are captured as graphs, the      *)
(* builder made later takes such a batch as decodes, not as prefills, whose*)
(* wrapper has no persistent buffers (get_cudagraph_support against        *)
(* _init_reorder_batch_threshold).                                         *)
UniformGraphsHoldDecodes ==
  phase = "serve" /\ graphs = "uniform" /\ conf.spec /\ ~conf.sharded =>
     builder.multi

(* Pages of 128 tokens and more reach only TRTLLM kernels in both phases   *)
(* (get_supported_kernel_block_sizes, the builder's assertion, build()).   *)
LargePagesStayOnTrtllm ==
  page = "large" /\ ~conf.sharded =>
     {batch.prefill, batch.decode} \subseteq {"none", "trtllm"}

(* What start-up accepts although serving refuses it.                      *)
WideHeadsPacked == Fa2Nvfp4 /\ conf.a4q /\ conf.head = 512
ShardedNvfp4 == conf.sharded /\ Cache = "nvfp4"
ModelTypeNvfp4Queries == conf.device = "SM100" /\ Cache = "nvfp4" /\ conf.plainQ
Fp8QueriesOnFa2 ==
  /\ conf.device = "SM100" /\ Cache = "fp8" /\ ~conf.plainQ
  /\ conf.force = "off" \/ known = "no"
ShardedFp8Queries ==
  /\ conf.device \in {"SM90", "SM100"} /\ Cache = "fp8" /\ ~conf.plainQ
  /\ conf.sharded
VerifyOnFa3 ==
  /\ conf.device = "SM90" /\ Cache = "fp8" /\ conf.spec
  /\ conf.force = "off" \/ known = "no"
OverriddenLayout == conf.device = "SM100" /\ conf.layout = "NHD"
ShardedSinks == conf.sinks /\ conf.sharded

(* A server that started never has a batch refused by a plan, by run() or  *)
(* by an assertion of forward(), but for the eight cases above: whatever   *)
(* device, cache, head size and options it was started with and whenever   *)
(* the network failed, builder, layer and wrappers agree.                  *)
StartedServersServe ==
  batch.refused # {} =>
     \/ WideHeadsPacked \/ ShardedNvfp4 \/ ModelTypeNvfp4Queries
     \/ Fp8QueriesOnFa2 \/ ShardedFp8Queries \/ VerifyOnFa3
     \/ OverriddenLayout \/ ShardedSinks
=============================================================================
