------------------------ MODULE ServingLanesProofs ------------------------
(***************************************************************************)
(* Proofs about ServingLanes for every set of configurations.  Once the    *)
(* layer is made, the probe has been asked unless the options make its     *)
(* answer irrelevant; from then on everything the builder decided can be   *)
(* recomputed from the configuration and the kept answer (Settled), so     *)
(* what a batch runs into is a question about the configuration alone.     *)
(***************************************************************************)
EXTENDS ServingLanes, TLAPS

(* The answer is settled as far as the options let it matter.              *)
Settled == conf.force # "off" => known # "unasked"

LayerKnown ==
  layer # NoLayer /\ layer.quantizes =>
     /\ conf.device = "SM100" /\ conf.force # "off" /\ known = "yes"
     /\ Cache # "auto" /\ ~conf.plainQ

LargeKnown ==
  page = "large" => conf.device = "SM100" /\ conf.force # "off" /\ known = "yes"

GraphsKnown == graphs = "uniform" => conf.device # "SM90"

SettledInTime == phase \in {"graphs", "builder", "serve"} => Settled

BuilderKnown == phase = "serve" => builder = NewBuilder /\ ~BuilderRefused

IdleBefore == phase # "serve" => batch = Idle

LaneInv ==
  /\ TypeOK /\ LayerKnown /\ LargeKnown /\ GraphsKnown /\ SettledInTime
  /\ BuilderKnown /\ IdleBefore

-----------------------------------------------------------------------------
(* Type correctness                                                        *)

LEMMA ConfFields ==
  ASSUME conf \in Configurations
  PROVE  /\ conf \in Options
         /\ conf.quantized => conf.cache # "auto"
BY ConfigurationsAssumption

LEMMA ConfTypes ==
  ASSUME conf \in Configurations
  PROVE  /\ conf.device \in Devices /\ conf.cache \in Caches
         /\ conf.quantized \in BOOLEAN /\ conf.head \in HeadDims
         /\ conf.sharded \in BOOLEAN /\ conf.force \in {"unset", "on", "off"}
         /\ conf.plainQ \in BOOLEAN /\ conf.spec \in BOOLEAN
         /\ conf.a4q \in BOOLEAN /\ conf.layout \in {"unset", "NHD", "HND"}
         /\ conf.sinks \in BOOLEAN
BY ConfFields DEF Options

LEMMA NewBuilderType ==
  ASSUME conf \in Configurations
  PROVE  NewBuilder \in Builders
<1>1. QueryType(TRUE) \in Queries /\ QueryType(FALSE) \in Queries
  BY DEF QueryType, Queries
<1>2. DecodeKernel \in Lanes
  BY DEF DecodeKernel, Lanes
<1>3. MultiToken(DecodeKernel) \in BOOLEAN
  BY DEF MultiToken
<1>4. Packed({128, 256, 512}) \in BOOLEAN /\ Packed({128, 256}) \in BOOLEAN
  BY DEF Packed
<1> QED BY <1>1, <1>2, <1>3, <1>4 DEF NewBuilder, Builders

LEMMA AskType ==
  ASSUME known \in {"unasked", "yes", "no"}, NEW asked \in BOOLEAN, Ask(asked)
  PROVE  /\ known' \in {"unasked", "yes", "no"}
         /\ known # "unasked" => known' = known
         /\ asked => known' # "unasked"
         /\ known' = "yes" => Answer \/ known' = known
         /\ asked => (known' = "yes" <=> Answer)
BY DEF Ask, Answer

LEMMA ChecksAreChecks ==
  ASSUME NEW pre \in Lanes, NEW dec \in Lanes, NEW tokens
  PROVE  SinkChecks(pre, dec) \union PrefillChecks(pre)
           \union DecodeChecks(dec, tokens) \in SUBSET Checks
<1>1. SinkChecks(pre, dec) \subseteq Checks
  BY DEF SinkChecks, Checks
<1>2. NativePrefillChecks \subseteq Checks
  BY DEF NativePrefillChecks, Checks
<1>3. TrtllmPrefillChecks \subseteq Checks
  BY DEF TrtllmPrefillChecks, Checks
<1>4. NativeDecodeChecks(tokens) \subseteq Checks
  BY DEF NativeDecodeChecks, Checks
<1>5. PrefillChecks(pre) \subseteq Checks
  BY <1>2, <1>3 DEF PrefillChecks, Checks
<1>6. DecodeChecks(dec, tokens) \subseteq Checks
  BY <1>4 DEF DecodeChecks, Checks
<1> QED BY <1>1, <1>5, <1>6

LEMMA TypeStep ==
  ASSUME TypeOK, [Next]_vars
  PROVE  TypeOK'
<1> USE DEF TypeOK
<1>1. CASE Network
  BY <1>1 DEF Network
<1>2. CASE SelectBackend
  <2>1. BlockSizes \subseteq {"small", "large"}
    BY DEF BlockSizes
  <2>2. known' \in {"unasked", "yes", "no"}
    BY <1>2 DEF SelectBackend, Ask
  <2> QED BY <1>2, <2>1, <2>2 DEF SelectBackend
<1>3. CASE MakeLayer
  <2>1. known' \in {"unasked", "yes", "no"}
    BY <1>3 DEF MakeLayer, Ask
  <2>2. layer' \in Layers /\ layer' # NoLayer
    <3>1. QuantizesQuery \in BOOLEAN
      BY DEF QuantizesQuery
    <3> QED BY <1>3, <3>1, NoLayerAssumption DEF MakeLayer, Layers
  <2> QED BY <1>3, <2>1, <2>2 DEF MakeLayer
<1>4. CASE ResolveGraphs
  <2>1. known' \in {"unasked", "yes", "no"}
    BY <1>4 DEF ResolveGraphs, Ask
  <2>2. GraphSupport \in {"none", "single", "uniform"}
    BY DEF GraphSupport
  <2> QED BY <1>4, <2>1, <2>2 DEF ResolveGraphs
<1>5. CASE MakeBuilder
  <2>1. known' \in {"unasked", "yes", "no"}
    BY <1>5 DEF MakeBuilder, Ask
  <2>2. NewBuilder \in Builders /\ NewBuilder # NoBuilder
    BY NewBuilderType, NoBuilderAssumption
  <2> QED BY <1>5, <2>1, <2>2 DEF MakeBuilder
<1>6. ASSUME NEW prefills \in BOOLEAN, NEW tokens \in {"none", "one", "many"},
             Serve(prefills, tokens)
      PROVE  TypeOK'
  <2>1. known' \in {"unasked", "yes", "no"}
    BY <1>6 DEF Serve, Ask
  <2> DEFINE pre == IF prefills THEN PrefillLane ELSE "none"
             dec == IF tokens = "none" THEN "none" ELSE builder.kernel
  <2>2. pre \in Lanes
    BY DEF PrefillLane, Lanes
  <2>3. dec \in Lanes
    <3>1. builder \in Builders
      BY <1>6 DEF Serve
    <3> QED BY <3>1 DEF Builders, Lanes
  <2>4. batch' = [prefill |-> pre, decode |-> dec,
                  refused |-> SinkChecks(pre, dec) \union PrefillChecks(pre)
                                \union DecodeChecks(dec, tokens)]
    BY <1>6 DEF Serve
  <2> HIDE DEF pre, dec
  <2>5. batch' \in [prefill : Lanes, decode : Lanes, refused : SUBSET Checks]
    BY <2>2, <2>3, <2>4, ChecksAreChecks
  <2> QED BY <1>6, <2>1, <2>5 DEF Serve
<1>7. CASE UNCHANGED vars
  BY <1>7 DEF vars
<1> QED BY <1>1, <1>2, <1>3, <1>4, <1>5, <1>6, <1>7 DEF Next

LEMMA TypeInit == Init => TypeOK
BY NoLayerAssumption DEF Init, TypeOK, Idle, Lanes, Checks

(* The state has its type, and the server serves exactly when its builder  *)
(* was made, for every set of configurations (start-up of the backend).    *)
THEOREM TypeCorrect == Spec => []TypeOK
<1>1. Init => TypeOK
  BY TypeInit
<1>2. TypeOK /\ [Next]_vars => TypeOK'
  BY TypeStep
<1> QED BY <1>1, <1>2, PTL DEF Spec

-----------------------------------------------------------------------------
(* What the kept answer settles                                            *)

LEMMA KeptSupports ==
  ASSUME TypeOK, UNCHANGED conf, known # "unasked", known' = known,
         NEW prefill \in BOOLEAN
  PROVE  SupportsTrtllm(prefill)' <=> SupportsTrtllm(prefill)
BY DEF SupportsTrtllm, Answer

LEMMA KeptCanUse ==
  ASSUME TypeOK, UNCHANGED conf, Settled,
         known' = known \/ conf.force = "off"
  PROVE  CanUseTrtllm' <=> CanUseTrtllm
BY DEF CanUseTrtllm, SupportsTrtllm, Answer, Settled

(* The builder is a function of the configuration and the settled answer.  *)
LEMMA KeptBuilder ==
  ASSUME TypeOK, UNCHANGED <<conf, page>>, Settled,
         known' = known \/ conf.force = "off"
  PROVE  NewBuilder' = NewBuilder /\ (BuilderRefused' <=> BuilderRefused)
<1>1. CanUseTrtllm' <=> CanUseTrtllm
  BY KeptCanUse
<1>2. UNCHANGED <<Cache, Fa2Nvfp4, Layout>>
  BY DEF Cache, Fa2Nvfp4, Layout
<1>3. QueryType(TRUE)' = QueryType(TRUE) /\ QueryType(FALSE)' = QueryType(FALSE)
  BY <1>2 DEF QueryType
<1>4. DecodeKernel' = DecodeKernel
  BY <1>1 DEF DecodeKernel
<1>5. MultiToken(DecodeKernel)' <=> MultiToken(DecodeKernel)
  BY <1>4 DEF MultiToken, UniformMultiToken
<1>6. /\ Packed({128, 256, 512})' <=> Packed({128, 256, 512})
      /\ Packed({128, 256})' <=> Packed({128, 256})
  BY <1>2 DEF Packed
<1>7. SupportsSink' <=> SupportsSink
  <2>1. CASE conf.force = "off"
    BY <2>1 DEF SupportsSink
  <2>2. CASE conf.force # "off"
    BY <2>2 DEF SupportsSink, SupportsTrtllm, Answer, Settled
  <2> QED BY <2>1, <2>2
<1>8. BuilderRefused' <=> BuilderRefused
  <2>1. CASE conf.force = "off"
    BY <1>1, <1>2, <1>7, <2>1 DEF BuilderRefused
  <2>2. CASE conf.force # "off"
    <3>1. known # "unasked" /\ known' = known
      BY <2>2 DEF Settled
    <3>2. /\ SupportsTrtllm(TRUE)' <=> SupportsTrtllm(TRUE)
          /\ SupportsTrtllm(FALSE)' <=> SupportsTrtllm(FALSE)
      BY <3>1, KeptSupports
    <3> QED BY <1>1, <1>2, <1>7, <3>2 DEF BuilderRefused
  <2> QED BY <2>1, <2>2
<1> QED BY <1>3, <1>4, <1>5, <1>6, <1>8 DEF NewBuilder, MultiToken, Packed

LEMMA InvInit == Init => LaneInv
<1> SUFFICES ASSUME Init PROVE LaneInv
  OBVIOUS
<1>1. TypeOK
  BY TypeInit
<1> QED BY <1>1 DEF Init, LaneInv, LayerKnown, LargeKnown, GraphsKnown,
                    SettledInTime, BuilderKnown, IdleBefore

(* Once settled, a serving server asks nothing new.                        *)
LEMMA ServeKeeps ==
  ASSUME LaneInv, NEW prefills \in BOOLEAN, NEW tokens \in {"none", "one", "many"},
         Serve(prefills, tokens)
  PROVE  known' = known
<1>1. phase = "serve" /\ Ask(AsksForPrefill)
  BY DEF Serve
<1>2. Settled /\ LargeKnown
  BY <1>1 DEF LaneInv, SettledInTime
<1> QED BY <1>1, <1>2 DEF Ask, AsksForPrefill, Settled, LargeKnown

LEMMA InvStep ==
  ASSUME LaneInv, [Next]_vars
  PROVE  LaneInv'
<1> USE DEF LaneInv
<1>0. TypeOK'
  BY TypeStep
<1>1. CASE Network
  <2>1. known' = known /\ UNCHANGED <<conf, phase, page, layer, graphs, builder, batch>>
    BY <1>1 DEF Network
  <2>2. LayerKnown' /\ LargeKnown' /\ GraphsKnown' /\ SettledInTime' /\ IdleBefore'
    BY <2>1 DEF LayerKnown, LargeKnown, GraphsKnown, SettledInTime, Settled,
                IdleBefore, Cache
  <2>3. BuilderKnown'
    BY <2>1, KeptBuilder DEF BuilderKnown, SettledInTime
  <2> QED BY <1>0, <2>2, <2>3
<1>2. CASE SelectBackend
  <2>1. /\ phase = "select" /\ phase' \in {"refused", "layer"}
        /\ UNCHANGED <<conf, online, layer, graphs, builder, batch>>
    BY <1>2 DEF SelectBackend
  <2>2. LargeKnown'
    <3>1. ASSUME page' = "large", page # "large" PROVE LargeKnown'
      <4>1. conf.device = "SM100" /\ CanUseTrtllm
        BY <1>2, <3>1 DEF SelectBackend, BlockSizes
      <4>2. known' = "yes"
        BY <1>2, <4>1 DEF SelectBackend, Ask, CanUseTrtllm, SupportsTrtllm, Answer,
                          TypeOK
      <4> QED BY <2>1, <4>1, <4>2 DEF LargeKnown, CanUseTrtllm
    <3>2. ASSUME page = "large" PROVE known' = known
      BY <1>2, <3>2 DEF LargeKnown, SelectBackend, Ask
    <3> QED BY <2>1, <3>1, <3>2 DEF LargeKnown
  <2>3. LayerKnown'
    <3>1. known = "yes" => known' = "yes"
      BY <1>2 DEF SelectBackend, Ask
    <3> QED BY <2>1, <3>1 DEF LayerKnown, Cache
  <2>4. SettledInTime' /\ BuilderKnown' /\ GraphsKnown' /\ IdleBefore'
    BY <2>1 DEF SettledInTime, BuilderKnown, GraphsKnown, IdleBefore
  <2> QED BY <1>0, <2>2, <2>3, <2>4
<1>3. CASE MakeLayer
  <2>1. /\ phase = "layer" /\ phase' = "graphs" /\ Ask(conf.force # "off")
        /\ layer' = [quantizes |-> QuantizesQuery]
        /\ UNCHANGED <<conf, online, page, graphs, builder, batch>>
    BY <1>3 DEF MakeLayer
  <2>2. LayerKnown'
    <3>1. ASSUME QuantizesQuery PROVE known' = "yes"
      BY <2>1, <3>1 DEF QuantizesQuery, CanUseTrtllm, SupportsTrtllm, Answer, Ask, TypeOK
    <3>2. layer'.quantizes => QuantizesQuery
      BY <2>1
    <3> QED BY <2>1, <3>1, <3>2 DEF LayerKnown, QuantizesQuery, CanUseTrtllm, Cache
  <2>3. LargeKnown' /\ SettledInTime'
    BY <2>1 DEF LargeKnown, SettledInTime, Settled, Ask
  <2>4. BuilderKnown' /\ GraphsKnown' /\ IdleBefore'
    BY <2>1 DEF BuilderKnown, GraphsKnown, IdleBefore
  <2> QED BY <1>0, <2>2, <2>3, <2>4
<1>4. CASE ResolveGraphs
  <2>1. /\ phase = "graphs" /\ phase' = "builder" /\ graphs' = GraphSupport
        /\ known # "unasked" => known' = known
        /\ UNCHANGED <<conf, online, page, layer, builder, batch>>
    BY <1>4 DEF ResolveGraphs, Ask
  <2>2. LayerKnown' /\ LargeKnown' /\ SettledInTime'
    BY <2>1 DEF LayerKnown, LargeKnown, SettledInTime, Settled, Cache
  <2>3. GraphsKnown'
    BY <2>1 DEF GraphsKnown, GraphSupport
  <2>4. BuilderKnown' /\ IdleBefore'
    BY <2>1 DEF BuilderKnown, IdleBefore
  <2> QED BY <1>0, <2>2, <2>3, <2>4
<1>5. CASE MakeBuilder
  <2>1. /\ phase = "builder" /\ phase' \in {"refused", "serve"}
        /\ phase' = "serve" => ~BuilderRefused /\ builder' = NewBuilder
        /\ UNCHANGED <<conf, online, page, layer, graphs, batch>>
        /\ Ask(conf.force # "off")
    BY <1>5 DEF MakeBuilder
  <2>2. Settled /\ (known' = known \/ conf.force = "off")
    BY <2>1 DEF SettledInTime, Settled, Ask
  <2>3. known # "unasked" => known' = known
    BY <2>1 DEF Ask
  <2>4. LayerKnown' /\ LargeKnown' /\ GraphsKnown' /\ SettledInTime'
    BY <2>1, <2>2, <2>3 DEF LayerKnown, LargeKnown, GraphsKnown, SettledInTime,
                            Settled, Cache
  <2>5. BuilderKnown'
    BY <2>1, <2>2, KeptBuilder DEF BuilderKnown
  <2>6. IdleBefore'
    BY <2>1 DEF IdleBefore
  <2> QED BY <1>0, <2>4, <2>5, <2>6
<1>6. ASSUME NEW prefills \in BOOLEAN, NEW tokens \in {"none", "one", "many"},
             Serve(prefills, tokens)
      PROVE  LaneInv'
  <2>1. /\ phase = "serve" /\ known' = known
        /\ UNCHANGED <<conf, online, phase, page, layer, graphs, builder>>
    BY <1>6, ServeKeeps DEF Serve
  <2>2. LayerKnown' /\ LargeKnown' /\ GraphsKnown' /\ SettledInTime' /\ IdleBefore'
    BY <2>1 DEF LayerKnown, LargeKnown, GraphsKnown, SettledInTime, Settled,
                IdleBefore, Cache
  <2>3. BuilderKnown'
    BY <2>1, KeptBuilder DEF BuilderKnown, SettledInTime
  <2> QED BY <1>0, <2>2, <2>3
<1>7. CASE UNCHANGED vars
  <2>1. UNCHANGED <<conf, online, known, phase, page, layer, graphs, builder, batch>>
    BY <1>7 DEF vars
  <2>2. LayerKnown' /\ LargeKnown' /\ GraphsKnown' /\ SettledInTime' /\ IdleBefore'
    BY <2>1 DEF LayerKnown, LargeKnown, GraphsKnown, SettledInTime, Settled,
                IdleBefore, Cache
  <2>3. BuilderKnown'
    BY <2>1, KeptBuilder DEF BuilderKnown, SettledInTime
  <2> QED BY <1>0, <2>2, <2>3
<1> QED BY <1>1, <1>2, <1>3, <1>4, <1>5, <1>6, <1>7 DEF Next

LEMMA InvHolds == Spec => []LaneInv
<1>1. LaneInv /\ [Next]_vars => LaneInv'
  BY InvStep
<1> QED BY InvInit, <1>1, PTL DEF Spec

-----------------------------------------------------------------------------
(* Layer, graphs and builder                                               *)

LEMMA InvLayer == LaneInv => LayerMatchesBuilder
<1> SUFFICES ASSUME LaneInv, phase = "serve", layer.quantizes
             PROVE  /\ builder.qPrefill = "fp8" /\ builder.qDecode = "fp8"
                    /\ builder.kernel = "trtllm"
  BY DEF LayerMatchesBuilder
<1>1. layer # NoLayer /\ builder = NewBuilder
  BY DEF LaneInv, TypeOK, BuilderKnown
<1>2. /\ conf.device = "SM100" /\ conf.force # "off" /\ known = "yes"
      /\ Cache # "auto" /\ ~conf.plainQ
  BY <1>1 DEF LaneInv, LayerKnown
<1>3. QueryType(TRUE) = "fp8" /\ QueryType(FALSE) = "fp8"
  BY <1>2 DEF QueryType
<1>4. DecodeKernel = "trtllm"
  BY <1>2 DEF DecodeKernel, CanUseTrtllm, SupportsTrtllm, Answer
<1> QED BY <1>1, <1>3, <1>4 DEF NewBuilder

LEMMA InvGraphs == LaneInv => UniformGraphsHoldDecodes
<1> SUFFICES ASSUME LaneInv, phase = "serve", graphs = "uniform", conf.spec,
                    ~conf.sharded
             PROVE  builder.multi
  BY DEF UniformGraphsHoldDecodes
<1>1. conf.device # "SM90" /\ builder = NewBuilder /\ conf \in Configurations
  BY DEF LaneInv, TypeOK, GraphsKnown, BuilderKnown
<1>2. DecodeKernel \in {"native", "trtllm"}
  <2>1. conf.device \in {"SM80", "SM100", "SM120"}
    BY <1>1, ConfTypes DEF Devices
  <2> QED BY <2>1 DEF DecodeKernel, CanUseTrtllm, SupportsTrtllm
<1>3. MultiToken(DecodeKernel)
  BY <1>2 DEF MultiToken, UniformMultiToken
<1> QED BY <1>1, <1>3 DEF NewBuilder

(* Whatever the network did between the layer's construction and the       *)
(* builder's, a layer that quantizes queries has a builder for 8-bit       *)
(* queries and TRTLLM decode (FlashInferImpl.__init__, get_q_data_type).   *)
THEOREM LayerMatches == Spec => []LayerMatchesBuilder
BY InvHolds, InvLayer, PTL

(* The graph support level announced before the builder exists is one its  *)
(* batch classification honours (get_cudagraph_support).                   *)
THEOREM GraphsMatch == Spec => []UniformGraphsHoldDecodes
BY InvHolds, InvGraphs, PTL

-----------------------------------------------------------------------------
(* Large pages                                                             *)

LEMMA LargeLanes ==
  ASSUME LaneInv, phase = "serve", page = "large", ~conf.sharded
  PROVE  PrefillLane = "trtllm" /\ builder.kernel = "trtllm"
<1>1. /\ conf.device = "SM100" /\ conf.force # "off" /\ known = "yes"
      /\ builder = NewBuilder
  BY DEF LaneInv, LargeKnown, BuilderKnown
<1>2. SupportsTrtllm(TRUE) /\ CanUseTrtllm
  BY <1>1 DEF SupportsTrtllm, Answer, CanUseTrtllm
<1>3. PrefillUsesTrtllm
  BY <1>2 DEF PrefillUsesTrtllm
<1> QED BY <1>1, <1>2, <1>3 DEF PrefillLane, NewBuilder, DecodeKernel

LEMMA LargeStep ==
  ASSUME LaneInv, LargePagesStayOnTrtllm, [Next]_vars
  PROVE  LargePagesStayOnTrtllm'
<1>1. CASE UNCHANGED <<conf, page, batch>>
  BY <1>1 DEF LargePagesStayOnTrtllm
<1>2. CASE SelectBackend
  <2>1. batch' = Idle
    BY <1>2 DEF SelectBackend, LaneInv, IdleBefore
  <2> QED BY <2>1 DEF LargePagesStayOnTrtllm, Idle
<1>3. ASSUME NEW prefills \in BOOLEAN, NEW tokens \in {"none", "one", "many"},
             Serve(prefills, tokens)
      PROVE  LargePagesStayOnTrtllm'
  <2>1. /\ phase = "serve" /\ UNCHANGED <<conf, page>>
        /\ batch'.prefill = IF prefills THEN PrefillLane ELSE "none"
        /\ batch'.decode = IF tokens = "none" THEN "none" ELSE builder.kernel
    BY <1>3 DEF Serve
  <2> QED BY <2>1, LargeLanes DEF LargePagesStayOnTrtllm
<1> QED BY <1>1, <1>2, <1>3 DEF Next, Network, MakeLayer, ResolveGraphs,
                                MakeBuilder, vars

(* Once large pages are chosen, every prefill and decode of the server is  *)
(* TRTLLM's, whenever the network failed (get_supported_kernel_block_sizes,*)
(* build()).                                                               *)
THEOREM LargePages == Spec => []LargePagesStayOnTrtllm
<1>1. Init => LargePagesStayOnTrtllm
  BY DEF Init, LargePagesStayOnTrtllm, Idle
<1>2. LaneInv /\ LargePagesStayOnTrtllm /\ [Next]_vars => LargePagesStayOnTrtllm'
  BY LargeStep
<1> QED BY InvHolds, <1>1, <1>2, PTL DEF Spec

-----------------------------------------------------------------------------
(* What serving refuses                                                    *)

Gap ==
  \/ WideHeadsPacked \/ ShardedNvfp4 \/ ModelTypeNvfp4Queries
  \/ Fp8QueriesOnFa2 \/ ShardedFp8Queries \/ VerifyOnFa3
  \/ OverriddenLayout \/ ShardedSinks

(* What a serving server's builder is, read off the configuration.         *)
LEMMA Serving ==
  ASSUME LaneInv, phase = "serve"
  PROVE  /\ ~BuilderRefused /\ Settled /\ conf.device \in Devices
         /\ conf.head \in HeadDims /\ Cache \in Caches
         /\ builder.qPrefill = QueryType(TRUE)
         /\ builder.qDecode = QueryType(FALSE)
         /\ builder.kernel = DecodeKernel
         /\ builder.multi = MultiToken(DecodeKernel)
         /\ builder.packsPrefill = Packed({128, 256, 512})
         /\ builder.packsDecode = Packed({128, 256})
<1>1. builder = NewBuilder /\ ~BuilderRefused /\ Settled
  BY DEF LaneInv, BuilderKnown, SettledInTime
<1>2. conf \in Configurations
  BY DEF LaneInv, TypeOK
<1>3. Cache \in Caches
  BY <1>2, ConfTypes DEF Cache, Caches
<1> QED BY <1>1, <1>2, <1>3, ConfTypes DEF NewBuilder

(* 4-bit caches off the FA2 lane are served on SM100 with TRTLLM only.     *)
LEMMA TrtllmNvfp4 ==
  ASSUME LaneInv, phase = "serve", UnknownCacheType
  PROVE  /\ conf.device = "SM100" /\ conf.force # "off"
         /\ SupportsTrtllm(TRUE) /\ CanUseTrtllm
         /\ DecodeKernel = "trtllm"
<1>1. /\ conf.force # "off" /\ SupportsTrtllm(TRUE) /\ SupportsTrtllm(FALSE)
  BY Serving DEF UnknownCacheType, BuilderRefused
<1>2. conf.device = "SM100"
  BY <1>1 DEF SupportsTrtllm
<1>3. CanUseTrtllm
  BY <1>1 DEF CanUseTrtllm
<1> QED BY <1>1, <1>2, <1>3 DEF DecodeKernel

(* A prefill keeps off TRTLLM for a reason the configuration shows.        *)
LEMMA NativePrefill ==
  ASSUME LaneInv, phase = "serve", ~PrefillUsesTrtllm
  PROVE  \/ conf.sharded \/ conf.force = "off" \/ ~SupportsTrtllm(TRUE)
         \/ builder.qPrefill # "fp8" /\ ~conf.sinks
BY DEF PrefillUsesTrtllm, LaneInv, LargeKnown

LEMMA SettledNo ==
  ASSUME LaneInv, phase = "serve", conf.force # "off", ~Answer
  PROVE  known = "no"
BY Serving DEF Settled, Answer, LaneInv, TypeOK

LEMMA SinkGap ==
  ASSUME LaneInv, phase = "serve", conf.sinks
  PROVE  /\ PrefillLane = "native" => ShardedSinks
         /\ builder.kernel # "native"
<1>1. SupportsSink
  BY Serving DEF BuilderRefused
<1>2. /\ conf.force # "off" /\ conf.device = "SM100" /\ SupportsTrtllm(TRUE)
      /\ CanUseTrtllm
  BY <1>1 DEF SupportsSink, CanUseTrtllm
<1>3. PrefillLane = "native" => ~PrefillUsesTrtllm
  BY DEF PrefillLane
<1>4. PrefillLane = "native" => conf.sharded
  BY <1>2, <1>3, NativePrefill
<1> QED BY <1>2, <1>4, Serving DEF ShardedSinks, DecodeKernel

LEMMA NativePrefillGap ==
  ASSUME LaneInv, phase = "serve", ~PrefillUsesTrtllm, NativePrefillChecks # {}
  PROVE  Gap
<1>1. CASE UnknownCacheType
  <2>1. conf.sharded \/ builder.qPrefill # "fp8"
    BY <1>1, TrtllmNvfp4, NativePrefill
  <2>2. Cache = "nvfp4" /\ conf.device = "SM100"
    BY <1>1, TrtllmNvfp4 DEF UnknownCacheType
  <2>3. builder.qPrefill # "fp8" => conf.plainQ
    BY <2>2, Serving DEF QueryType
  <2> QED BY <2>1, <2>2, <2>3 DEF Gap, ShardedNvfp4, ModelTypeNvfp4Queries
<1>2. CASE builder.packsPrefill /\ conf.head \notin {128, 256}
  <2>1. Packed({128, 256, 512})
    BY <1>2, Serving
  <2> QED BY <1>2, <2>1 DEF Packed, Gap, WideHeadsPacked
<1>3. CASE builder.qPrefill = "fp8" /\ ~UnknownCacheType
  <2>1. QueryType(TRUE) = "fp8"
    BY <1>3, Serving
  <2>2. Cache # "nvfp4"
    BY <1>3, <2>1 DEF QueryType, UnknownCacheType, Fa2Nvfp4
  <2>3. Cache = "fp8" /\ ~conf.plainQ /\ conf.device \in {"SM90", "SM100"}
    BY <2>1, <2>2, Serving DEF QueryType, Caches
  <2>4. CASE conf.sharded
    BY <2>3, <2>4 DEF Gap, ShardedFp8Queries
  <2>5. CASE ~conf.sharded
    <3>1. DeviceEngine = "fa2"
      <4>1. CASE builder.packsPrefill
        BY <4>1, <2>2, Serving DEF Packed, Fa2Nvfp4
      <4>2. CASE ~builder.packsPrefill
        BY <1>3, <2>5, <4>2 DEF NativePrefillChecks
      <4> QED BY <4>1, <4>2
    <3>2. conf.device = "SM100"
      BY <2>3, <3>1 DEF DeviceEngine
    <3>3. conf.force = "off" \/ ~Answer
      BY <1>3, <2>5, <3>2, NativePrefill DEF SupportsTrtllm
    <3>4. conf.force = "off" \/ known = "no"
      BY <3>3, SettledNo
    <3> QED BY <2>3, <3>2, <3>4 DEF Gap, Fp8QueriesOnFa2
  <2> QED BY <2>4, <2>5
<1>4. CASE conf.sharded /\ Fa2Nvfp4
  BY <1>4 DEF Gap, ShardedNvfp4, Fa2Nvfp4
<1> QED BY <1>1, <1>2, <1>3, <1>4 DEF NativePrefillChecks

LEMMA TrtllmPrefillGap ==
  ASSUME LaneInv, phase = "serve", PrefillUsesTrtllm, TrtllmPrefillChecks # {}
  PROVE  Gap
<1>1. conf.device = "SM100"
  BY DEF PrefillUsesTrtllm, SupportsTrtllm
<1>2. CASE Layout # "HND"
  <2>1. conf.layout = "NHD"
    BY <1>1, <1>2, ConfTypes DEF Layout, LaneInv, TypeOK
  <2> QED BY <1>1, <2>1 DEF Gap, OverriddenLayout
<1>3. CASE Cache = "nvfp4" /\ builder.qPrefill # "fp8"
  <2>1. conf.plainQ
    BY <1>1, <1>3, Serving DEF QueryType
  <2> QED BY <1>1, <1>3, <2>1 DEF Gap, ModelTypeNvfp4Queries
<1> QED BY <1>2, <1>3 DEF TrtllmPrefillChecks

LEMMA PrefillGap ==
  ASSUME LaneInv, phase = "serve", PrefillChecks(PrefillLane) # {}
  PROVE  Gap
<1>1. ~QueryMismatch(builder.qPrefill)
  BY InvLayer DEF QueryMismatch, LayerMatchesBuilder
<1>2. CASE PrefillUsesTrtllm
  BY <1>1, <1>2, TrtllmPrefillGap DEF PrefillLane, PrefillChecks
<1>3. CASE ~PrefillUsesTrtllm
  BY <1>1, <1>3, NativePrefillGap DEF PrefillLane, PrefillChecks
<1> QED BY <1>2, <1>3

(* Decodes are native where TRTLLM may not be used.                        *)
LEMMA NativeDecodeGap ==
  ASSUME LaneInv, phase = "serve", NEW tokens, tokens = "many" => builder.multi,
         builder.kernel = "native", NativeDecodeChecks(tokens) # {}
  PROVE  Gap
<1>1. ~UnknownCacheType
  BY TrtllmNvfp4, Serving
<1>2. ~(builder.packsDecode /\ conf.head \notin {128, 256})
  BY Serving DEF Packed
<1>3. CASE builder.qDecode = "fp8" /\ DecodeEngine = "fa2"
  <2>1. QueryType(FALSE) = "fp8" /\ conf.device # "SM90"
    BY <1>3, Serving DEF DecodeEngine, DeviceEngine
  <2>2. Cache # "nvfp4"
    BY <1>1, <2>1 DEF QueryType, UnknownCacheType, Fa2Nvfp4
  <2>3. Cache = "fp8" /\ ~conf.plainQ /\ conf.device = "SM100"
    BY <2>1, <2>2, Serving DEF QueryType, Caches
  <2>4. ~CanUseTrtllm
    BY <2>3, Serving DEF DecodeKernel
  <2>5. conf.force = "off" \/ known = "no"
    BY <2>3, <2>4, SettledNo DEF CanUseTrtllm, SupportsTrtllm
  <2> QED BY <2>3, <2>5 DEF Gap, Fp8QueriesOnFa2
<1>4. CASE tokens = "many" /\ DecodeEngine = "fa3"
  <2>1. conf.spec /\ ~conf.sharded
    BY <1>4, Serving DEF MultiToken
  <2>2. conf.device = "SM90" /\ (Cache = "fp8" \/ QueryType(FALSE) = "fp8")
    BY <1>4, Serving DEF DecodeEngine, DeviceEngine
  <2>3. Cache = "fp8"
    BY <1>1, <2>2, Serving DEF UnknownCacheType, Fa2Nvfp4, QueryType, Caches
  <2>4. ~CanUseTrtllm
    BY <2>1, <2>2, Serving DEF DecodeKernel
  <2>5. conf.force = "off" \/ known = "no"
    BY <2>2, <2>4, SettledNo DEF CanUseTrtllm, SupportsTrtllm
  <2> QED BY <2>1, <2>2, <2>3, <2>5 DEF Gap, VerifyOnFa3
<1> QED BY <1>2, <1>3, <1>4 DEF NativeDecodeChecks

LEMMA DecodeGap ==
  ASSUME LaneInv, phase = "serve", NEW tokens, tokens = "many" => builder.multi,
         DecodeChecks(builder.kernel, tokens) # {}
  PROVE  Gap
<1>1. ~QueryMismatch(builder.qDecode)
  BY InvLayer DEF QueryMismatch, LayerMatchesBuilder
<1>2. CASE builder.kernel = "native"
  BY <1>1, <1>2, NativeDecodeGap DEF DecodeChecks
<1>3. CASE builder.kernel = "trtllm" /\ Layout # "HND"
  <2>1. conf.device = "SM100"
    BY <1>3, Serving DEF DecodeKernel, CanUseTrtllm, SupportsTrtllm
  <2>2. conf.layout = "NHD"
    BY <1>3, <2>1, ConfTypes DEF Layout, LaneInv, TypeOK
  <2> QED BY <2>1, <2>2 DEF Gap, OverriddenLayout
<1> QED BY <1>1, <1>2, <1>3 DEF DecodeChecks

LEMMA RefusedStep ==
  ASSUME LaneInv, StartedServersServe, [Next]_vars
  PROVE  StartedServersServe'
<1>1. CASE UNCHANGED <<conf, known, batch>>
  BY <1>1 DEF StartedServersServe, WideHeadsPacked, ShardedNvfp4, Fa2Nvfp4, Cache,
     ModelTypeNvfp4Queries, Fp8QueriesOnFa2, ShardedFp8Queries, VerifyOnFa3,
     OverriddenLayout, ShardedSinks
<1>2. CASE phase # "serve" /\ UNCHANGED batch
  BY <1>2 DEF LaneInv, IdleBefore, Idle, StartedServersServe
<1>3. ASSUME NEW prefills \in BOOLEAN, NEW tokens \in {"none", "one", "many"},
             Serve(prefills, tokens)
      PROVE  StartedServersServe'
  <2> DEFINE pre == IF prefills THEN PrefillLane ELSE "none"
             dec == IF tokens = "none" THEN "none" ELSE builder.kernel
  <2>1. /\ phase = "serve" /\ UNCHANGED conf /\ known' = known
        /\ tokens = "many" => builder.multi
        /\ batch'.refused = SinkChecks(pre, dec) \union PrefillChecks(pre)
                              \union DecodeChecks(dec, tokens)
    BY <1>3, ServeKeeps DEF Serve
  <2>2. SinkChecks(pre, dec) # {} => Gap
    BY <2>1, SinkGap DEF SinkChecks, Gap
  <2>3. PrefillChecks(pre) # {} => Gap
    BY <2>1, PrefillGap DEF PrefillChecks
  <2>4. DecodeChecks(dec, tokens) # {} => Gap
    BY <2>1, DecodeGap DEF DecodeChecks
  <2>5. batch'.refused # {} => Gap
    BY <2>1, <2>2, <2>3, <2>4
  <2> QED BY <2>1, <2>5 DEF StartedServersServe, Gap, WideHeadsPacked,
          ShardedNvfp4, Fa2Nvfp4, Cache, ModelTypeNvfp4Queries, Fp8QueriesOnFa2,
          ShardedFp8Queries, VerifyOnFa3, OverriddenLayout, ShardedSinks
<1> QED BY <1>1, <1>2, <1>3 DEF Next, Network, SelectBackend, MakeLayer,
                                ResolveGraphs, MakeBuilder, vars

(* A server that started serves every batch, but in the eight named        *)
(* configurations: no plan, run or assertion refuses what the builder, the *)
(* layer and the wrappers decided apart (FlashInferMetadataBuilder,        *)
(* FlashInferImpl).                                                        *)
THEOREM ServersServe == Spec => []StartedServersServe
<1>1. Init => StartedServersServe
  BY DEF Init, StartedServersServe, Idle
<1>2. LaneInv /\ StartedServersServe /\ [Next]_vars => StartedServersServe'
  BY RefusedStep
<1> QED BY InvHolds, <1>1, <1>2, PTL DEF Spec
=============================================================================
