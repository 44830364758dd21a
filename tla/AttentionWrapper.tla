-------------------------- MODULE AttentionWrapper --------------------------
(***************************************************************************)
(* One FlashInfer wrapper object, BatchDecodeWithPagedKVCacheWrapper or    *)
(* BatchPrefillWithPagedKVCacheWrapper, and a client that makes any calls  *)
(* of plan(), fast_decode_plan() and run(), with one wrapper for several   *)
(* types (as the parity test does) and after calls that raised.  The       *)
(* attributes of the object are kept as they are after every assignment    *)
(* that precedes a raise.                                                  *)
(*                                                                         *)
(* The client keeps three obligations of the interface: it runs only after *)
(* a plan that returned, it uses the fast plan only with the types of the  *)
(* full plan whose module is loaded, and it gives run() a query of         *)
(* [requests * length] rows.  The backends are fa2 and fa3; every request  *)
(* of a batch has the same query length.                                   *)
(***************************************************************************)
EXTENDS Integers

CONSTANTS
  Lanes,       \* how a wrapper may be constructed
  Calls,       \* arguments of plan() and fast_decode_plan()
  MaxQueryLen, \* bound: query rows per request given to run()
  NoCall, NoLaunch

QueryTypes == {"bf16", "fp8"}
CacheTypes == {"bf16", "fp8", "nvfp4"}
Engines == {"fa2", "fa3"}

Lane == [decode : BOOLEAN, tensorCores : BOOLEAN, cudaGraph : BOOLEAN,
         fixed : Nat, backend : {"auto"} \union Engines, hopper : BOOLEAN]
(* n requests of q query rows, the shortest with kv keys; query and cache  *)
(* types, head size, sliding window, 4-bit queries, disable_split_kv       *)
Call == [n : Nat \ {0}, q : Nat \ {0}, kv : Nat, qd : QueryTypes,
         kd : CacheTypes, hd : Nat, win : BOOLEAN, nvf4 : BOOLEAN,
         noSplit : BOOLEAN]

(* The device is Hopper (SM90) or GB10.  A prefill wrapper always uses     *)
(* tensor cores; a graph wrapper has buffers for a fixed number of         *)
(* requests.                                                               *)
ASSUME LaneAssumption ==
  /\ Lanes \subseteq Lane
  /\ \A l \in Lanes : (~l.decode => l.tensorCores) /\ (l.cudaGraph => l.fixed > 0)
ASSUME CallAssumption == Calls \subseteq Call
ASSUME BoundAssumption == MaxQueryLen \in Nat
ASSUME AbsentAssumption == NoCall \notin Call

VARIABLES
  lane,     \* constructor arguments
  self,     \* the attributes of the wrapper
  promise,  \* history: the call a plan last returned from, unless one raised since
  full,     \* history: the call of the last full plan, unless it raised
  first,    \* history: the first call that returned
  refused,  \* history: query lengths of calls that raised
  launch    \* what the last run() handed to the kernel

history == <<promise, full, first, refused>>
vars == <<lane, self, promise, full, first, refused, launch>>

-----------------------------------------------------------------------------
(* Attributes.  0 stands for an attribute that is None or not yet set.     *)

NoModule == [engine |-> "none", qd |-> "none", kd |-> "none", hd |-> 0,
             win |-> FALSE, nvf4 |-> FALSE]
NoPlan == [n |-> 0, q |-> 0, split |-> FALSE]

(* __init__: in graph mode a decode wrapper creates qo_indptr for queries  *)
(* of one row, and the client hands over the other buffers.                *)
Constructed(l) ==
  [backend |-> l.backend, module |-> NoModule, plan |-> NoPlan,
   nvf4 |-> FALSE, qd |-> "none", kd |-> "none", win |-> FALSE,
   qLen |-> 0, qoLast |-> 0, maxRows |-> 0,
   paged |-> IF l.cudaGraph THEN l.fixed ELSE 0,
   qo |-> IF l.cudaGraph THEN [n |-> l.fixed, q |-> 1] ELSE [n |-> 0, q |-> 0]]

Frozen(q) == lane.cudaGraph /\ self.qLen # 0 /\ self.qLen # q

(* Mutant: the batch only has to fit into the buffers. *)
TooManyRequests(n) == lane.cudaGraph /\ n > lane.fixed

WrongBatch(n) == lane.cudaGraph /\ n # lane.fixed

(* determine_attention_backend (external) *)
DeviceBackend == IF lane.hopper THEN "fa3" ELSE "fa2"

(* gen_batch_prefill_module refuses 8-bit queries on fa2,                  *)
(* gen_customize_batch_prefill_module a 4-bit cache on fa3, whose kernels  *)
(* have no scale factors, and 4-bit queries without a 4-bit cache; those   *)
(* are compiled for SM120 only and do not load on Hopper.                  *)
ModuleRefused(engine, c) ==
  \/ engine = "fa2" /\ c.qd = "fp8"
  \/ engine = "fa3" /\ c.kd = "nvfp4"
  \/ c.nvf4 /\ (c.kd # "nvfp4" \/ lane.hopper)

(* get_batch_prefill_module, get_batch_decode_module *)
ModuleOf(engine, c) ==
  [engine |-> engine, qd |-> c.qd, kd |-> c.kd, hd |-> c.hd, win |-> c.win,
   nvf4 |-> c.nvf4 /\ lane.tensorCores]

Raise(s, c) ==
  /\ self' = s
  /\ promise' = NoCall
  /\ refused' = refused \union {c.q}
  /\ launch' = NoLaunch
  /\ UNCHANGED <<lane, first>>

Return(s, c) ==
  /\ self' = s
  /\ promise' = c
  /\ first' = IF first = NoCall THEN c ELSE first
  /\ launch' = NoLaunch
  /\ UNCHANGED <<lane, refused>>

RaiseFull(s, c) == Raise(s, c) /\ full' = NoCall
ReturnFull(s, c) == Return(s, c) /\ full' = c

-----------------------------------------------------------------------------
(* BatchDecodeWithPagedKVCacheWrapper.plan()                               *)

(* Checks before the first assignment. *)
DecodeShapeRefused(c) ==
  \/ c.q > 1 /\ ~lane.tensorCores
  \/ Frozen(c.q)
  \/ WrongBatch(c.n)

(* Mutant: an unresolved backend leaves qo_indptr alone. *)
StagedQoResolved(c) ==
  IF ~lane.cudaGraph \/ (c.q > 1 /\ self.backend = "fa2")
    THEN [n |-> c.n, q |-> c.q]
    ELSE self.qo

(* In graph mode qo_indptr is rewritten only for longer queries. *)
StagedQo(c) ==
  IF ~lane.cudaGraph \/ (c.q > 1 /\ self.backend \in {"auto", "fa2"})
    THEN [n |-> c.n, q |-> c.q]
    ELSE self.qo

(* Mutant: the flag is set and never cleared. *)
DecodeNotedSticky(c) ==
  [self EXCEPT !.qo = StagedQo(c), !.paged = c.n,
               !.nvf4 = self.nvf4 \/ c.nvf4, !.qd = c.qd, !.kd = c.kd]

(* The copies of the arguments, then the flag and the types. *)
DecodeNoted(c) ==
  [self EXCEPT !.qo = StagedQo(c), !.paged = c.n,
               !.nvf4 = c.nvf4, !.qd = c.qd, !.kd = c.kd]

(* Some request holds fewer keys than it has queries. *)
KeysMissing(c) == c.q > 1 /\ c.kv < c.q

(* "auto" is resolved once, by the first plan that gets here. *)
DecodeBackend(c) ==
  IF lane.tensorCores /\ self.backend = "auto"
    THEN IF "fp8" \in {c.qd, c.kd} THEN DeviceBackend ELSE "fa2"
    ELSE self.backend

DecodeResolved(c) == [DecodeNoted(c) EXCEPT !.backend = DecodeBackend(c)]

DecodeRouteRefused(c) ==
  /\ lane.tensorCores
  /\ \/ c.q > 1 /\ DecodeBackend(c) = "fa3"
     \/ c.nvf4 /\ c.hd \notin {128, 256}
     \/ ModuleRefused(DecodeBackend(c), c)

Engine(backend) == IF lane.tensorCores THEN backend ELSE "cuda cores"
DecodeEngine(c) == Engine(DecodeBackend(c))

DecodeCompiled(c) ==
  [DecodeResolved(c) EXCEPT !.module = ModuleOf(DecodeEngine(c), c)]

(* Only the planner of fa2 takes disable_split_kv. *)
PlanOf(engine, c, noSplit) ==
  [n |-> c.n, q |-> c.q, split |-> ~(engine = "fa2" /\ noSplit)]

(* _q_len_per_req and the window are assigned last. *)
DecodePlanned(c) ==
  [DecodeCompiled(c) EXCEPT !.plan = PlanOf(DecodeEngine(c), c, c.noSplit),
                            !.win = c.win, !.qLen = c.q]

(* The planner of the module itself may raise (workspace, CUDA error). *)
DecodePlan(c) ==
  /\ lane.decode
  /\ \/ DecodeShapeRefused(c) /\ RaiseFull(self, c)
     \/ /\ ~DecodeShapeRefused(c) /\ KeysMissing(c)
        /\ RaiseFull(DecodeNoted(c), c)
     \/ /\ ~DecodeShapeRefused(c) /\ ~KeysMissing(c) /\ DecodeRouteRefused(c)
        /\ RaiseFull(DecodeResolved(c), c)
     \/ /\ ~DecodeShapeRefused(c) /\ ~KeysMissing(c) /\ ~DecodeRouteRefused(c)
        /\ \/ RaiseFull(DecodeCompiled(c), c)
           \/ ReturnFull(DecodePlanned(c), c)

-----------------------------------------------------------------------------
(* fast_decode_plan(): the module, the types and the flag stay as the full *)
(* plan left them; in graph mode the client has rewritten indptr and       *)
(* last_page_len itself.                                                   *)

SameTypes(c, d) ==
  /\ c.qd = d.qd /\ c.kd = d.kd /\ c.hd = d.hd
  /\ c.win = d.win /\ c.nvf4 = d.nvf4

FastRefused(c) ==
  \/ c.q > 1 /\ (~lane.tensorCores \/ self.backend \in {"auto", "fa3"})
  \/ Frozen(c.q)

(* Mutant: the fast plan leaves _q_len_per_req alone. *)
FastNotedLengthKept(c) == self

(* _q_len_per_req is assigned before the batch size is checked. *)
FastNoted(c) == [self EXCEPT !.qLen = c.q]

FastQo(c) ==
  IF ~lane.cudaGraph \/ c.q > 1 THEN [n |-> c.n, q |-> c.q] ELSE self.qo

FastStaged(c) ==
  [FastNoted(c) EXCEPT !.paged = c.n,
                       !.qo = IF lane.tensorCores THEN FastQo(c) ELSE self.qo]

FastPlanned(c) ==
  [FastStaged(c) EXCEPT !.plan = PlanOf(Engine(self.backend), c, c.noSplit),
                        !.win = c.win]

FastPlan(c) ==
  /\ lane.decode
  /\ full # NoCall /\ SameTypes(c, full)
  /\ \/ FastRefused(c) /\ Raise(self, c)
     \/ ~FastRefused(c) /\ WrongBatch(c.n) /\ Raise(FastNoted(c), c)
     \/ /\ ~FastRefused(c) /\ ~WrongBatch(c.n)
        /\ Raise(FastStaged(c), c) \/ Return(FastPlanned(c), c)
  /\ UNCHANGED full

-----------------------------------------------------------------------------
(* BatchPrefillWithPagedKVCacheWrapper.plan()                              *)

Rows(c) == c.n * c.q

(* _qo_indptr_last comes first; in graph mode the first call then fixes    *)
(* the largest number of rows.                                             *)
MaxRows(c) ==
  IF lane.cudaGraph /\ self.maxRows = 0 THEN Rows(c) ELSE self.maxRows

PrefillCounted(c) == [self EXCEPT !.qoLast = Rows(c), !.maxRows = MaxRows(c)]

PrefillShapeRefused(c) ==
  \/ lane.cudaGraph /\ Rows(c) > MaxRows(c)
  \/ WrongBatch(c.n)

(* The buffers, the flag and the types. *)
PrefillNoted(c) ==
  [PrefillCounted(c) EXCEPT !.qo = [n |-> c.n, q |-> c.q], !.paged = c.n,
                            !.nvf4 = c.nvf4, !.qd = c.qd, !.kd = c.kd]

(* Mutant: "auto" is handed on. *)
PrefillBackendKept(c) == self.backend

PrefillBackend(c) ==
  IF self.backend = "auto" THEN DeviceBackend ELSE self.backend

PrefillResolved(c) == [PrefillNoted(c) EXCEPT !.backend = PrefillBackend(c)]

PrefillRouteRefused(c) ==
  \/ c.nvf4 /\ (PrefillBackend(c) # "fa2" \/ c.hd \notin {128, 256})
  \/ ModuleRefused(PrefillBackend(c), c)

PrefillCompiled(c) ==
  [PrefillResolved(c) EXCEPT !.module = ModuleOf(PrefillBackend(c), c)]

(* _nvfp4_kv_requires_disabled_split_kv *)
PrefillNoSplit(c) == c.noSplit \/ c.kd = "nvfp4"

PrefillPlanned(c) ==
  [PrefillCompiled(c) EXCEPT
     !.plan = PlanOf(PrefillBackend(c), c, PrefillNoSplit(c)), !.win = c.win]

PrefillPlan(c) ==
  /\ ~lane.decode
  /\ \/ PrefillShapeRefused(c) /\ RaiseFull(PrefillCounted(c), c)
     \/ /\ ~PrefillShapeRefused(c) /\ PrefillRouteRefused(c)
        /\ RaiseFull(PrefillResolved(c), c)
     \/ /\ ~PrefillShapeRefused(c) /\ ~PrefillRouteRefused(c)
        /\ \/ RaiseFull(PrefillCompiled(c), c)
           \/ ReturnFull(PrefillPlanned(c), c)

-----------------------------------------------------------------------------
(* run().  x is what the client passes: query rows per request, types, and *)
(* whether there are scale factors.                                        *)

Inputs == [len : 1..MaxQueryLen, qd : QueryTypes, kd : CacheTypes, sf : BOOLEAN]

Requests == self.paged

(* _check_cached_qkv_data_type (external) and the check of kv_cache_sf *)
InputsRefused(x) ==
  \/ x.kd = "nvfp4" /\ ~x.sf
  \/ x.qd # self.qd \/ x.kd # self.kd
  \/ self.nvf4 /\ x.qd # "bf16"
  \/ self.plan = NoPlan

(* The query length is derived from the rows and compared with the plan's. *)
PlannedLen == IF self.qLen = 0 THEN 1 ELSE self.qLen

DecodeRunRefused(x) ==
  \/ InputsRefused(x)
  \/ IF lane.tensorCores THEN x.len # PlannedLen ELSE x.len > 1

PrefillRunRefused(x) ==
  \/ InputsRefused(x)
  \/ Requests * x.len # self.qoLast

RunRefused(x) ==
  IF lane.decode THEN DecodeRunRefused(x) ELSE PrefillRunRefused(x)

Launched(x) ==
  [module |-> self.module, plan |-> self.plan, qo |-> self.qo,
   requests |-> Requests, rows |-> Requests * x.len,
   causal |-> ~lane.decode \/ PlannedLen > 1,
   packed |-> self.nvf4, qd |-> x.qd, kd |-> x.kd, win |-> self.win]

Run(x) ==
  /\ promise # NoCall
  /\ launch' = IF RunRefused(x) THEN NoLaunch ELSE Launched(x)
  /\ UNCHANGED <<lane, self, history>>

-----------------------------------------------------------------------------
Init ==
  /\ lane \in Lanes
  /\ self = Constructed(lane)
  /\ promise = NoCall /\ full = NoCall /\ first = NoCall
  /\ refused = {}
  /\ launch = NoLaunch

Next ==
  \/ \E c \in Calls : DecodePlan(c) \/ FastPlan(c) \/ PrefillPlan(c)
  \/ \E x \in Inputs : Run(x)

Spec == Init /\ [][Next]_vars

-----------------------------------------------------------------------------
(* Properties.                                                             *)

Modules == [engine : Engines \union {"none", "cuda cores"},
            qd : QueryTypes \union {"none"}, kd : CacheTypes \union {"none"},
            hd : Nat, win : BOOLEAN, nvf4 : BOOLEAN]
Plans == [n : Nat, q : Nat, split : BOOLEAN]
Indptrs == [n : Nat, q : Nat]

Attributes ==
  [backend : {"auto"} \union Engines, module : Modules, plan : Plans,
   nvf4 : BOOLEAN, qd : QueryTypes \union {"none"},
   kd : CacheTypes \union {"none"}, win : BOOLEAN, qLen : Nat, qoLast : Nat,
   maxRows : Nat, paged : Nat, qo : Indptrs]

Launches ==
  [module : Modules, plan : Plans, qo : Indptrs, requests : Nat, rows : Nat,
   causal : BOOLEAN, packed : BOOLEAN, qd : QueryTypes, kd : CacheTypes,
   win : BOOLEAN]

TypeOK ==
  /\ lane \in Lanes
  /\ self \in Attributes
  /\ promise \in Calls \union {NoCall}
  /\ full \in Calls \union {NoCall}
  /\ first \in Calls \union {NoCall}
  /\ refused \subseteq Nat
  /\ launch \in Launches \union {NoLaunch}

(* 4-bit queries were asked of a wrapper that has tensor cores. *)
FlagServed(c) == c.nvf4 => lane.tensorCores

(* Whatever was planned before, and however plans failed, the kernel a run *)
(* reaches was compiled for the types of the query and the cache it gets,  *)
(* for packed queries exactly when they are packed, and for the window it  *)
(* is told: run() checks the types against attributes, never against the   *)
(* module it launches.                                                     *)
KernelServesTypes ==
  launch # NoLaunch /\ FlagServed(promise) =>
    /\ launch.module.qd = launch.qd /\ launch.module.kd = launch.kd
    /\ launch.module.nvf4 = launch.packed
    /\ launch.module.win = launch.win
    /\ launch.module.hd = promise.hd

(* In graph mode a refused plan for longer queries may have left its       *)
(* qo_indptr behind, which a plan for one row per request does not rewrite.*)
QoIndptrIntact ==
  lane.decode /\ lane.cudaGraph => refused \subseteq {1, promise.q}

(* The rows of a query are divided among requests as the plan assumed:     *)
(* qo_indptr, the plan, the page tables and the mask agree, and no request *)
(* reads rows behind the query (the comment at run(): the path "bakes      *)
(* q_len into the planned qo_indptr and mask mode").                       *)
QueriesSplitAsPlanned ==
  launch # NoLaunch /\ lane.tensorCores /\ QoIndptrIntact =>
    /\ launch.plan.n = launch.requests /\ launch.qo.n = launch.requests
    /\ launch.qo.q = launch.plan.q
    /\ launch.qo.n * launch.qo.q = launch.rows
    /\ launch.causal = (~lane.decode \/ launch.plan.q > 1)

(* What a captured graph recorded stays true: every plan of a graph wrapper*)
(* that returns has the number of requests, and for decode the query       *)
(* length, of the first, whatever calls raised or took the fast plan in    *)
(* between; a prefill plan never has more rows than the first.             *)
GraphShapeIsFrozen ==
  lane.cudaGraph /\ promise # NoCall =>
    /\ promise.n = first.n
    /\ lane.decode => promise.q = first.q
    /\ ~lane.decode => self.maxRows >= Rows(promise)

(* After a plan returned, a run with the query and cache it was made for   *)
(* is not refused, although plan() and run() compare different attributes. *)
PlannedRunsAccepted ==
  promise # NoCall /\ FlagServed(promise) =>
    ~RunRefused([len |-> promise.q, qd |-> promise.qd, kd |-> promise.kd,
                 sf |-> TRUE])
=============================================================================
