----------------------- MODULE AttentionWrapperProofs -----------------------
(***************************************************************************)
(* Theorems about AttentionWrapper, for every set of lanes and calls.      *)
(*                                                                         *)
(* The attributes of a wrapper are compared with the calls that were made: *)
(* Served says that module, types and flag are those of a call, Laid that  *)
(* plan, page tables and query length are.  Both hold of the last call     *)
(* that returned (promise), Served also of the last full plan (full) while *)
(* fast plans follow it.                                                   *)
(***************************************************************************)
EXTENDS AttentionWrapper, TLAPS

(* The module, types and flag of attributes s are those of call c. *)
Compiled(s, c) ==
  /\ s.module.qd = c.qd /\ s.module.kd = c.kd
  /\ s.module.hd = c.hd /\ s.module.win = c.win
  /\ s.module.nvf4 = (c.nvf4 /\ lane.tensorCores)
  /\ s.qd = c.qd /\ s.kd = c.kd /\ s.nvf4 = c.nvf4
  /\ c.nvf4 /\ lane.tensorCores => c.qd = "bf16"

Served(c) == Compiled(self, c)

Laid(c) ==
  /\ self.win = c.win /\ self.paged = c.n
  /\ self.plan.n = c.n /\ self.plan.q = c.q
  /\ lane.decode => self.qLen = c.q
  /\ ~lane.decode => self.qoLast = Rows(c)
  /\ lane.tensorCores \/ c.q = 1

CallsServed ==
  /\ promise # NoCall => Served(promise) /\ Laid(promise) /\ first # NoCall
  /\ full # NoCall => Served(full) /\ first # NoCall

(* The shape a graph was captured with. *)
Captured ==
  lane.cudaGraph =>
    /\ promise # NoCall =>
         promise.n = lane.fixed /\ (~lane.decode => self.maxRows >= Rows(promise))
    /\ first # NoCall => first.n = lane.fixed
    /\ lane.decode => self.qLen = IF first = NoCall THEN 0 ELSE first.q

(* qo_indptr of a graph wrapper for decode: what __init__ or some call for *)
(* longer queries, returned or refused, left there.                        *)
FrozenIndptr ==
  /\ self.qo.n = lane.fixed
  /\ self.qo.q \in {1} \union refused
       \union (IF first = NoCall THEN {} ELSE {first.q})
  /\ promise # NoCall /\ promise.q > 1 => self.qo.q = promise.q

Indptr ==
  lane.tensorCores =>
    IF lane.cudaGraph /\ lane.decode
      THEN FrozenIndptr
      ELSE promise # NoCall => self.qo = [n |-> promise.n, q |-> promise.q]

IInv ==
  /\ TypeOK /\ CallsServed /\ Captured /\ Indptr
  /\ KernelServesTypes /\ QueriesSplitAsPlanned

-----------------------------------------------------------------------------
(* Facts about the arguments. *)

LEMMA CallFields ==
  ASSUME NEW c \in Calls
  PROVE  /\ c # NoCall
         /\ c.n \in Nat \ {0} /\ c.q \in Nat \ {0} /\ c.qd \in QueryTypes
         /\ c.kd \in CacheTypes /\ c.hd \in Nat /\ c.win \in BOOLEAN
         /\ c.nvf4 \in BOOLEAN /\ c.noSplit \in BOOLEAN
         /\ Rows(c) \in Nat
  <1>1. c \in Call /\ c # NoCall
    BY CallAssumption, AbsentAssumption
  <1>2. /\ c.n \in Nat \ {0} /\ c.q \in Nat \ {0} /\ c.qd \in QueryTypes
        /\ c.kd \in CacheTypes /\ c.hd \in Nat /\ c.win \in BOOLEAN
        /\ c.nvf4 \in BOOLEAN /\ c.noSplit \in BOOLEAN
    BY <1>1 DEF Call
  <1>3. Rows(c) \in Nat
    BY <1>2 DEF Rows
  <1> QED BY <1>1, <1>2, <1>3

LEMMA LaneFields ==
  ASSUME TypeOK
  PROVE  /\ lane.decode \in BOOLEAN /\ lane.tensorCores \in BOOLEAN
         /\ lane.cudaGraph \in BOOLEAN /\ lane.fixed \in Nat
         /\ lane.hopper \in BOOLEAN
         /\ ~lane.decode => lane.tensorCores
  BY LaneAssumption DEF TypeOK, Lane

LEMMA PlanOfFields ==
  ASSUME NEW c \in Calls, NEW engine, NEW b \in BOOLEAN
  PROVE  /\ PlanOf(engine, c, b) \in Plans
         /\ PlanOf(engine, c, b).n = c.n /\ PlanOf(engine, c, b).q = c.q
  BY CallFields DEF PlanOf, Plans

LEMMA ModuleOfFields ==
  ASSUME TypeOK, NEW c \in Calls, NEW engine \in Engines \union {"cuda cores"}
  PROVE  /\ ModuleOf(engine, c) \in Modules
         /\ ModuleOf(engine, c).qd = c.qd /\ ModuleOf(engine, c).kd = c.kd
         /\ ModuleOf(engine, c).hd = c.hd /\ ModuleOf(engine, c).win = c.win
         /\ ModuleOf(engine, c).nvf4 = (c.nvf4 /\ lane.tensorCores)
  BY CallFields, LaneFields DEF ModuleOf, Modules

(* A module for 4-bit queries is only made for bf16 queries. *)
LEMMA PackedModules ==
  ASSUME NEW c \in Calls, NEW engine \in Engines, ~ModuleRefused(engine, c), c.nvf4
  PROVE  c.qd = "bf16"
  BY CallFields DEF ModuleRefused, Engines, QueryTypes

LEMMA BackendFields ==
  ASSUME TypeOK, NEW c \in Calls
  PROVE  /\ DecodeBackend(c) \in {"auto"} \union Engines
         /\ lane.tensorCores => DecodeBackend(c) \in Engines
         /\ PrefillBackend(c) \in Engines
         /\ DecodeEngine(c) \in Engines \union {"cuda cores"}
  <1>1. self.backend \in {"auto"} \union Engines
    BY DEF TypeOK, Attributes
  <1>2. DeviceBackend \in Engines
    BY DEF DeviceBackend, Engines
  <1> QED
    BY <1>1, <1>2 DEF DecodeBackend, PrefillBackend, DecodeEngine, Engine, Engines

-----------------------------------------------------------------------------
(* The attributes each outcome of a call leaves behind.                    *)

(* After a raise. *)
Left(s, c) ==
  /\ s \in Attributes
  /\ lane.decode /\ lane.cudaGraph =>
       /\ s.qLen = self.qLen
       /\ s.qo.n \in {self.qo.n, lane.fixed} /\ s.qo.q \in {self.qo.q, c.q}

(* After a plan of any kind returned. *)
Set(s, c) ==
  /\ s \in Attributes
  /\ s.win = c.win /\ s.paged = c.n /\ s.plan.n = c.n /\ s.plan.q = c.q
  /\ lane.decode => s.qLen = c.q
  /\ ~lane.decode => s.qoLast = Rows(c) /\ s.maxRows = MaxRows(c)
  /\ lane.tensorCores /\ ~(lane.cudaGraph /\ lane.decode) =>
       s.qo = [n |-> c.n, q |-> c.q]
  /\ lane.tensorCores /\ lane.cudaGraph /\ lane.decode =>
       s.qo = IF c.q > 1 THEN [n |-> c.n, q |-> c.q] ELSE self.qo

LEMMA SelfFields ==
  ASSUME TypeOK
  PROVE  /\ self \in Attributes
         /\ self.qo \in Indptrs /\ self.qo.n \in Nat /\ self.qo.q \in Nat
         /\ self.qLen \in Nat /\ self.maxRows \in Nat /\ self.qoLast \in Nat
         /\ self.paged \in Nat
  BY DEF TypeOK, Attributes, Indptrs

(* The outcomes of BatchDecodeWithPagedKVCacheWrapper.plan(). *)

LEMMA DecodeStaged ==
  ASSUME TypeOK, NEW c \in Calls, lane.decode, ~DecodeShapeRefused(c)
  PROVE  /\ Left(DecodeNoted(c), c)
         /\ DecodeNoted(c).qo = StagedQo(c)
         /\ DecodeNoted(c).paged = c.n /\ DecodeNoted(c).qd = c.qd
         /\ DecodeNoted(c).kd = c.kd /\ DecodeNoted(c).nvf4 = c.nvf4
  <1>1. /\ StagedQo(c) \in Indptrs
        /\ StagedQo(c) = self.qo \/ StagedQo(c) = [n |-> c.n, q |-> c.q]
    BY CallFields, SelfFields DEF StagedQo, Indptrs
  <1>2. lane.cudaGraph => c.n = lane.fixed
    BY DEF DecodeShapeRefused, WrongBatch
  <1>3. /\ DecodeNoted(c) \in Attributes
        /\ DecodeNoted(c).qo = StagedQo(c) /\ DecodeNoted(c).qLen = self.qLen
        /\ DecodeNoted(c).paged = c.n /\ DecodeNoted(c).qd = c.qd
        /\ DecodeNoted(c).kd = c.kd /\ DecodeNoted(c).nvf4 = c.nvf4
    BY <1>1, CallFields, SelfFields DEF DecodeNoted, Attributes
  <1> QED
    BY <1>1, <1>2, <1>3 DEF Left

LEMMA DecodeCompiledFields ==
  ASSUME TypeOK, NEW c \in Calls, lane.decode,
         ~DecodeShapeRefused(c), ~DecodeRouteRefused(c)
  PROVE  /\ Left(DecodeCompiled(c), c) /\ Compiled(DecodeCompiled(c), c)
         /\ DecodeCompiled(c).qo = StagedQo(c) /\ DecodeCompiled(c).paged = c.n
  <1> DEFINE M == ModuleOf(DecodeEngine(c), c)
  <1>1. /\ DecodeResolved(c) \in Attributes /\ Left(DecodeResolved(c), c)
        /\ DecodeResolved(c).qo = StagedQo(c) /\ DecodeResolved(c).paged = c.n
        /\ DecodeResolved(c).qd = c.qd /\ DecodeResolved(c).kd = c.kd
        /\ DecodeResolved(c).nvf4 = c.nvf4
    BY DecodeStaged, BackendFields DEF DecodeResolved, Left, Attributes
  <1>2. /\ M \in Modules
        /\ M.qd = c.qd /\ M.kd = c.kd /\ M.hd = c.hd /\ M.win = c.win
        /\ M.nvf4 = (c.nvf4 /\ lane.tensorCores)
    BY ModuleOfFields, BackendFields
  <1>3. /\ DecodeCompiled(c) \in Attributes /\ DecodeCompiled(c).module = M
        /\ DecodeCompiled(c).qo = StagedQo(c) /\ DecodeCompiled(c).paged = c.n
        /\ DecodeCompiled(c).qLen = DecodeResolved(c).qLen
        /\ DecodeCompiled(c).qd = c.qd /\ DecodeCompiled(c).kd = c.kd
        /\ DecodeCompiled(c).nvf4 = c.nvf4
    <2> HIDE DEF M
    <2> QED BY <1>1, <1>2 DEF DecodeCompiled, Attributes, M
  <1>4. c.nvf4 /\ lane.tensorCores => c.qd = "bf16"
    BY PackedModules, BackendFields DEF DecodeRouteRefused
  <1> HIDE DEF M
  <1> QED
    BY <1>1, <1>2, <1>3, <1>4 DEF Left, Compiled

LEMMA DecodePlannedFields ==
  ASSUME TypeOK, NEW c \in Calls, lane.decode,
         ~DecodeShapeRefused(c), ~DecodeRouteRefused(c)
  PROVE  Set(DecodePlanned(c), c) /\ Compiled(DecodePlanned(c), c)
  <1> DEFINE P == PlanOf(DecodeEngine(c), c, c.noSplit)
  <1>1. P \in Plans /\ P.n = c.n /\ P.q = c.q
    BY PlanOfFields, CallFields
  <1>2. /\ DecodeCompiled(c) \in Attributes /\ Compiled(DecodeCompiled(c), c)
        /\ DecodeCompiled(c).qo = StagedQo(c) /\ DecodeCompiled(c).paged = c.n
    BY DecodeCompiledFields DEF Left
  <1> HIDE DEF P
  <1>3. /\ DecodePlanned(c) \in Attributes
        /\ DecodePlanned(c).plan = P /\ DecodePlanned(c).win = c.win
        /\ DecodePlanned(c).qLen = c.q
        /\ DecodePlanned(c).qo = StagedQo(c) /\ DecodePlanned(c).paged = c.n
    BY <1>1, <1>2, CallFields DEF DecodePlanned, Attributes, P
  <1>4. Compiled(DecodePlanned(c), c)
    BY <1>2 DEF DecodePlanned, Compiled, Attributes
  <1>5. lane.tensorCores =>
          StagedQo(c) = IF ~lane.cudaGraph \/ c.q > 1
                          THEN [n |-> c.n, q |-> c.q] ELSE self.qo
    <2>1. lane.tensorCores /\ c.q > 1 => self.backend \in {"auto", "fa2"}
      BY SelfFields
         DEF DecodeRouteRefused, DecodeBackend, Attributes, Engines
    <2> QED BY <2>1 DEF StagedQo
  <1> QED
    BY <1>1, <1>3, <1>4, <1>5 DEF Set

(* The outcomes of fast_decode_plan(): the module is not touched. *)
LEMMA FastFields ==
  ASSUME TypeOK, NEW c \in Calls, lane.decode, ~FastRefused(c),
         lane.cudaGraph => self.qLen # 0
  PROVE  /\ Left(FastNoted(c), c)
         /\ \A d \in Calls : Compiled(self, d) => Compiled(FastNoted(c), d)
         /\ ~WrongBatch(c.n) =>
              /\ Left(FastStaged(c), c) /\ Set(FastPlanned(c), c)
              /\ \A d \in Calls : Compiled(self, d) =>
                   Compiled(FastStaged(c), d) /\ Compiled(FastPlanned(c), d)
  <1> DEFINE P == PlanOf(Engine(self.backend), c, c.noSplit)
             qo == IF lane.tensorCores THEN FastQo(c) ELSE self.qo
  <1>1. P \in Plans /\ P.n = c.n /\ P.q = c.q
    BY PlanOfFields, CallFields
  <1>2. lane.cudaGraph => self.qLen = c.q
    BY DEF FastRefused, Frozen
  <1>3. /\ FastNoted(c) \in Attributes /\ FastNoted(c).qLen = c.q
        /\ FastNoted(c).qo = self.qo
        /\ \A d \in Calls : Compiled(self, d) => Compiled(FastNoted(c), d)
    BY CallFields, SelfFields DEF FastNoted, Attributes, Compiled
  <1>4. qo \in Indptrs /\ (qo = self.qo \/ qo = [n |-> c.n, q |-> c.q])
    BY CallFields, SelfFields DEF FastQo, Indptrs
  <1>5. lane.tensorCores =>
          qo = IF ~lane.cudaGraph \/ c.q > 1
                 THEN [n |-> c.n, q |-> c.q] ELSE self.qo
    BY DEF FastQo
  <1> HIDE DEF P, qo
  <1>6. /\ FastStaged(c) \in Attributes
        /\ FastStaged(c).qLen = c.q /\ FastStaged(c).qo = qo
        /\ FastStaged(c).paged = c.n
        /\ \A d \in Calls : Compiled(self, d) => Compiled(FastStaged(c), d)
    BY <1>3, <1>4, CallFields DEF FastStaged, Attributes, Compiled, qo
  <1>7. /\ FastPlanned(c) \in Attributes
        /\ FastPlanned(c).plan = P /\ FastPlanned(c).win = c.win
        /\ FastPlanned(c).qLen = c.q /\ FastPlanned(c).qo = qo
        /\ FastPlanned(c).paged = c.n
        /\ \A d \in Calls : Compiled(self, d) => Compiled(FastPlanned(c), d)
    BY <1>1, <1>6, CallFields DEF FastPlanned, Attributes, Compiled, P
  <1>8. Left(FastNoted(c), c)
    BY <1>2, <1>3 DEF Left
  <1>9. ~WrongBatch(c.n) => Left(FastStaged(c), c)
    BY <1>2, <1>4, <1>6 DEF Left, WrongBatch
  <1>10. Set(FastPlanned(c), c)
    BY <1>1, <1>5, <1>7 DEF Set
  <1> QED
    BY <1>3, <1>6, <1>7, <1>8, <1>9, <1>10

(* The outcomes of BatchPrefillWithPagedKVCacheWrapper.plan(). *)

LEMMA PrefillCountedFields ==
  ASSUME TypeOK, NEW c \in Calls, ~lane.decode
  PROVE  /\ Left(PrefillCounted(c), c)
         /\ PrefillCounted(c).qoLast = Rows(c)
         /\ PrefillCounted(c).maxRows = MaxRows(c)
         /\ MaxRows(c) \in Nat
  <1>1. MaxRows(c) \in Nat
    BY CallFields, SelfFields DEF MaxRows
  <1> QED
    BY <1>1, CallFields, SelfFields DEF PrefillCounted, Left, Attributes

LEMMA PrefillResolvedFields ==
  ASSUME TypeOK, NEW c \in Calls, ~lane.decode
  PROVE  /\ Left(PrefillResolved(c), c)
         /\ PrefillResolved(c).qoLast = Rows(c)
         /\ PrefillResolved(c).maxRows = MaxRows(c)
         /\ PrefillResolved(c).qo = [n |-> c.n, q |-> c.q]
         /\ PrefillResolved(c).paged = c.n
         /\ PrefillResolved(c).qd = c.qd /\ PrefillResolved(c).kd = c.kd
         /\ PrefillResolved(c).nvf4 = c.nvf4
  <1> DEFINE qo == [n |-> c.n, q |-> c.q]
  <1>1. qo \in Indptrs
    BY CallFields DEF Indptrs
  <1> HIDE DEF qo
  <1>2. /\ PrefillNoted(c) \in Attributes
        /\ PrefillNoted(c).qoLast = Rows(c)
        /\ PrefillNoted(c).maxRows = MaxRows(c)
        /\ PrefillNoted(c).qo = qo /\ PrefillNoted(c).paged = c.n
        /\ PrefillNoted(c).qd = c.qd /\ PrefillNoted(c).kd = c.kd
        /\ PrefillNoted(c).nvf4 = c.nvf4
    BY <1>1, PrefillCountedFields, CallFields
       DEF PrefillNoted, Left, Attributes, qo
  <1>3. PrefillBackend(c) \in Engines
    BY BackendFields
  <1> QED
    BY <1>2, <1>3 DEF PrefillResolved, Left, Attributes, qo

LEMMA PrefillCompiledFields ==
  ASSUME TypeOK, NEW c \in Calls, ~lane.decode, ~PrefillRouteRefused(c)
  PROVE  /\ Left(PrefillCompiled(c), c) /\ Compiled(PrefillCompiled(c), c)
         /\ PrefillCompiled(c).qoLast = Rows(c)
         /\ PrefillCompiled(c).maxRows = MaxRows(c)
         /\ PrefillCompiled(c).qo = [n |-> c.n, q |-> c.q]
         /\ PrefillCompiled(c).paged = c.n
  <1> DEFINE M == ModuleOf(PrefillBackend(c), c)
  <1>1. /\ M \in Modules
        /\ M.qd = c.qd /\ M.kd = c.kd /\ M.hd = c.hd /\ M.win = c.win
        /\ M.nvf4 = (c.nvf4 /\ lane.tensorCores)
    BY ModuleOfFields, BackendFields
  <1>2. c.nvf4 => c.qd = "bf16"
    BY PackedModules, BackendFields DEF PrefillRouteRefused
  <1> HIDE DEF M
  <1> QED
    BY <1>1, <1>2, PrefillResolvedFields
       DEF PrefillCompiled, Left, Compiled, Attributes, M

LEMMA PrefillPlannedFields ==
  ASSUME TypeOK, NEW c \in Calls, ~lane.decode, ~PrefillRouteRefused(c)
  PROVE  Set(PrefillPlanned(c), c) /\ Compiled(PrefillPlanned(c), c)
  <1> DEFINE P == PlanOf(PrefillBackend(c), c, PrefillNoSplit(c))
  <1>1. P \in Plans /\ P.n = c.n /\ P.q = c.q
    BY PlanOfFields, CallFields DEF PrefillNoSplit
  <1> HIDE DEF P
  <1>2. /\ PrefillCompiled(c) \in Attributes /\ Compiled(PrefillCompiled(c), c)
        /\ PrefillCompiled(c).qoLast = Rows(c)
        /\ PrefillCompiled(c).maxRows = MaxRows(c)
        /\ PrefillCompiled(c).qo = [n |-> c.n, q |-> c.q]
        /\ PrefillCompiled(c).paged = c.n
    BY PrefillCompiledFields DEF Left
  <1>3. /\ PrefillPlanned(c) \in Attributes
        /\ PrefillPlanned(c).plan = P /\ PrefillPlanned(c).win = c.win
        /\ PrefillPlanned(c).qoLast = Rows(c)
        /\ PrefillPlanned(c).maxRows = MaxRows(c)
        /\ PrefillPlanned(c).qo = [n |-> c.n, q |-> c.q]
        /\ PrefillPlanned(c).paged = c.n
    BY <1>1, <1>2, CallFields DEF PrefillPlanned, Attributes, P
  <1>4. Compiled(PrefillPlanned(c), c)
    BY <1>2 DEF PrefillPlanned, Compiled, Attributes
  <1> QED
    BY <1>1, <1>3, <1>4 DEF Set

-----------------------------------------------------------------------------
(* Every call keeps the invariant.                                         *)

LEMMA RaiseKeeps ==
  ASSUME IInv, NEW c \in Calls, NEW s, Left(s, c), Raise(s, c),
         \/ full' = NoCall
         \/ full' = full /\ \A d \in Calls : Compiled(self, d) => Compiled(s, d)
  PROVE  IInv'
  <1>1. /\ self' = s /\ promise' = NoCall /\ refused' = refused \union {c.q}
        /\ launch' = NoLaunch /\ lane' = lane /\ first' = first
    BY DEF Raise
  <1>2. TypeOK'
    BY <1>1, CallFields DEF IInv, TypeOK, Left
  <1>3. CallsServed'
    BY <1>1 DEF IInv, TypeOK, CallsServed, Served, Compiled
  <1>4. Captured'
    BY <1>1 DEF IInv, Captured, Left
  <1>5. Indptr'
    <2> SUFFICES ASSUME lane.tensorCores, lane.cudaGraph, lane.decode
                 PROVE  FrozenIndptr'
      BY <1>1 DEF Indptr
    <2> QED BY <1>1 DEF IInv, Indptr, FrozenIndptr, Left
  <1>6. KernelServesTypes' /\ QueriesSplitAsPlanned'
    BY <1>1 DEF KernelServesTypes, QueriesSplitAsPlanned
  <1> QED
    BY <1>2, <1>3, <1>4, <1>5, <1>6 DEF IInv

LEMMA ReturnKeeps ==
  ASSUME IInv, NEW c \in Calls, NEW s, Set(s, c), Compiled(s, c), Return(s, c),
         full' = c \/ (full' = full /\ full # NoCall /\ Compiled(s, full)),
         lane.tensorCores \/ c.q = 1,
         lane.cudaGraph =>
           /\ c.n = lane.fixed
           /\ IF lane.decode THEN self.qLen \in {0, c.q} ELSE Rows(c) <= MaxRows(c)
  PROVE  IInv'
  <1>1. /\ self' = s /\ promise' = c /\ launch' = NoLaunch
        /\ first' = (IF first = NoCall THEN c ELSE first)
        /\ lane' = lane /\ refused' = refused
    BY DEF Return
  <1>2. c # NoCall /\ first' # NoCall /\ c.q \in Nat \ {0}
    BY <1>1, CallFields
  <1>3. TypeOK'
    BY <1>1 DEF IInv, TypeOK, Set
  <1>4. CallsServed'
    BY <1>1, <1>2 DEF CallsServed, Served, Compiled, Laid, Set, Rows
  <1>5. Captured'
    <2> SUFFICES ASSUME lane.cudaGraph PROVE Captured'
      BY <1>1 DEF Captured
    <2>1. lane.decode => first'.q = c.q /\ self'.qLen = c.q
      <3>1. first # NoCall => first \in Calls
        BY DEF IInv, TypeOK
      <3> QED BY <1>1, <3>1, CallFields DEF IInv, Captured, Set
    <2>2. Rows(c)' = Rows(c) /\ Rows(c) \in Nat /\ MaxRows(c) \in Nat
      BY CallFields, SelfFields DEF IInv, Rows, MaxRows
    <2> QED BY <1>1, <1>2, <2>1, <2>2 DEF IInv, Captured, Set, Rows
  <1>6. Indptr'
    <2> SUFFICES ASSUME lane.tensorCores, lane.cudaGraph, lane.decode
                 PROVE  FrozenIndptr'
      BY <1>1 DEF Indptr, Set
    <2>1. CASE c.q > 1
      <3>1. first'.q = c.q
        BY <1>1, <1>2, CallFields DEF IInv, TypeOK, Captured
      <3> QED BY <1>1, <1>2, <2>1, <3>1 DEF FrozenIndptr, Set
    <2>2. CASE ~(c.q > 1)
      BY <1>1, <1>2, <2>2 DEF IInv, Indptr, FrozenIndptr, Set
    <2> QED BY <2>1, <2>2
  <1>7. KernelServesTypes' /\ QueriesSplitAsPlanned'
    BY <1>1 DEF KernelServesTypes, QueriesSplitAsPlanned
  <1> QED
    BY <1>3, <1>4, <1>5, <1>6, <1>7 DEF IInv

LEMMA DecodePlanKeeps ==
  ASSUME IInv, NEW c \in Calls, DecodePlan(c)
  PROVE  IInv'
  <1>1. TypeOK /\ lane.decode
    BY DEF IInv, DecodePlan
  <1>2. CASE DecodeShapeRefused(c) /\ RaiseFull(self, c)
    <2>1. Left(self, c)
      BY <1>1, SelfFields DEF Left
    <2> QED BY <1>2, <2>1, RaiseKeeps DEF RaiseFull
  <1>3. CASE ~DecodeShapeRefused(c) /\ RaiseFull(DecodeNoted(c), c)
    BY <1>1, <1>3, DecodeStaged, RaiseKeeps DEF RaiseFull
  <1>4. CASE ~DecodeShapeRefused(c) /\ RaiseFull(DecodeResolved(c), c)
    <2>1. Left(DecodeResolved(c), c)
      BY <1>1, <1>4, DecodeStaged, BackendFields
         DEF DecodeResolved, Left, Attributes
    <2> QED BY <1>4, <2>1, RaiseKeeps DEF RaiseFull
  <1>5. CASE /\ ~DecodeShapeRefused(c) /\ ~DecodeRouteRefused(c)
             /\ RaiseFull(DecodeCompiled(c), c)
    BY <1>1, <1>5, DecodeCompiledFields, RaiseKeeps DEF RaiseFull
  <1>6. CASE /\ ~DecodeShapeRefused(c) /\ ~DecodeRouteRefused(c)
             /\ ReturnFull(DecodePlanned(c), c)
    <2>1. Set(DecodePlanned(c), c) /\ Compiled(DecodePlanned(c), c)
      BY <1>1, <1>6, DecodePlannedFields
    <2>2. /\ lane.tensorCores \/ c.q = 1
          /\ lane.cudaGraph => c.n = lane.fixed /\ self.qLen \in {0, c.q}
      BY <1>6, CallFields DEF DecodeShapeRefused, WrongBatch, Frozen
    <2> QED BY <1>1, <1>6, <2>1, <2>2, ReturnKeeps DEF ReturnFull
  <1> QED
    BY <1>2, <1>3, <1>4, <1>5, <1>6 DEF DecodePlan

LEMMA FastPlanKeeps ==
  ASSUME IInv, NEW c \in Calls, FastPlan(c)
  PROVE  IInv'
  <1>1. /\ TypeOK /\ lane.decode /\ full # NoCall /\ full \in Calls
        /\ SameTypes(c, full) /\ full' = full /\ Compiled(self, full)
    BY DEF IInv, TypeOK, CallsServed, Served, FastPlan
  <1>2. lane.cudaGraph => self.qLen # 0
    BY <1>1, CallFields DEF IInv, TypeOK, CallsServed, Captured
  <1>3. CASE FastRefused(c) /\ Raise(self, c)
    <2>1. Left(self, c)
      BY <1>1, SelfFields DEF Left
    <2> QED BY <1>1, <1>3, <2>1, RaiseKeeps
  <1>4. CASE ~FastRefused(c) /\ Raise(FastNoted(c), c)
    BY <1>1, <1>2, <1>4, FastFields, RaiseKeeps
  <1>5. CASE ~FastRefused(c) /\ ~WrongBatch(c.n) /\ Raise(FastStaged(c), c)
    BY <1>1, <1>2, <1>5, FastFields, RaiseKeeps
  <1>6. CASE ~FastRefused(c) /\ ~WrongBatch(c.n) /\ Return(FastPlanned(c), c)
    <2>1. Set(FastPlanned(c), c) /\ Compiled(FastPlanned(c), full)
      BY <1>1, <1>2, <1>6, FastFields
    <2>2. Compiled(FastPlanned(c), c)
      BY <1>1, <2>1 DEF Compiled, SameTypes
    <2>3. /\ lane.tensorCores \/ c.q = 1
          /\ lane.cudaGraph => c.n = lane.fixed /\ self.qLen \in {0, c.q}
      BY <1>6, CallFields DEF FastRefused, WrongBatch, Frozen
    <2> QED BY <1>1, <1>6, <2>1, <2>2, <2>3, ReturnKeeps
  <1> QED
    BY <1>3, <1>4, <1>5, <1>6 DEF FastPlan

LEMMA PrefillPlanKeeps ==
  ASSUME IInv, NEW c \in Calls, PrefillPlan(c)
  PROVE  IInv'
  <1>1. TypeOK /\ ~lane.decode
    BY DEF IInv, PrefillPlan
  <1>2. CASE RaiseFull(PrefillCounted(c), c)
    BY <1>1, <1>2, PrefillCountedFields, RaiseKeeps DEF RaiseFull
  <1>3. CASE RaiseFull(PrefillResolved(c), c)
    BY <1>1, <1>3, PrefillResolvedFields, RaiseKeeps DEF RaiseFull
  <1>4. CASE ~PrefillRouteRefused(c) /\ RaiseFull(PrefillCompiled(c), c)
    BY <1>1, <1>4, PrefillCompiledFields, RaiseKeeps DEF RaiseFull
  <1>5. CASE /\ ~PrefillShapeRefused(c) /\ ~PrefillRouteRefused(c)
             /\ ReturnFull(PrefillPlanned(c), c)
    <2>1. Set(PrefillPlanned(c), c) /\ Compiled(PrefillPlanned(c), c)
      BY <1>1, <1>5, PrefillPlannedFields
    <2>2. lane.cudaGraph => c.n = lane.fixed /\ Rows(c) <= MaxRows(c)
      BY <1>1, <1>5, CallFields, PrefillCountedFields
         DEF PrefillShapeRefused, WrongBatch
    <2> QED BY <1>1, <1>5, <2>1, <2>2, LaneFields, ReturnKeeps DEF ReturnFull
  <1> QED
    BY <1>2, <1>3, <1>4, <1>5 DEF PrefillPlan

(* A launch inherits from the attributes what they owe the planned call.   *)
LEMMA RunKeeps ==
  ASSUME IInv, NEW x \in Inputs, Run(x)
  PROVE  IInv'
  <1> DEFINE L == Launched(x)
  <1>1. /\ promise # NoCall /\ promise \in Calls
        /\ Compiled(self, promise) /\ Laid(promise)
    BY DEF IInv, TypeOK, CallsServed, Served, Run
  <1>2. /\ promise.q \in Nat \ {0} /\ promise.n \in Nat \ {0}
        /\ promise.nvf4 \in BOOLEAN
    BY <1>1, CallFields
  <1>3. x.len \in Nat /\ x.qd \in QueryTypes /\ x.kd \in CacheTypes
    BY BoundAssumption DEF Inputs
  <1>4. /\ lane' = lane /\ self' = self /\ promise' = promise /\ full' = full
        /\ first' = first /\ refused' = refused
    BY DEF Run, history
  <1>5. /\ L.module = self.module /\ L.plan = self.plan /\ L.qo = self.qo
        /\ L.requests = self.paged /\ L.rows = self.paged * x.len
        /\ L.causal = (~lane.decode \/ PlannedLen > 1)
        /\ L.packed = self.nvf4 /\ L.qd = x.qd /\ L.kd = x.kd
        /\ L.win = self.win
    BY DEF Launched, Requests
  <1>6. TypeOK'
    <2>1. /\ self.module \in Modules /\ self.plan \in Plans
          /\ self.qo \in Indptrs /\ self.paged \in Nat
          /\ self.nvf4 \in BOOLEAN /\ self.win \in BOOLEAN
      BY DEF IInv, TypeOK, Attributes
    <2>2. self.paged * x.len \in Nat
      BY <1>3, <2>1
    <2>3. (~lane.decode \/ PlannedLen > 1) \in BOOLEAN
      OBVIOUS
    <2>4. L \in Launches
      BY <1>3, <2>1, <2>2, <2>3 DEF Launched, Requests, Launches
    <2> QED BY <1>4, <2>4 DEF IInv, TypeOK, Run
  <1>7. CallsServed' /\ Captured' /\ Indptr'
    BY <1>4 DEF IInv, CallsServed, Served, Compiled, Laid, Captured, Indptr,
                FrozenIndptr, Rows
  <1>8. ASSUME launch' # NoLaunch PROVE launch' = L /\ ~RunRefused(x)
    BY <1>8 DEF Run
  <1>9. KernelServesTypes'
    <2> SUFFICES ASSUME launch' # NoLaunch, FlagServed(promise)
                 PROVE  /\ L.module.qd = L.qd /\ L.module.kd = L.kd
                        /\ L.module.nvf4 = L.packed /\ L.module.win = L.win
                        /\ L.module.hd = promise.hd
      BY <1>4, <1>8 DEF KernelServesTypes, FlagServed
    <2>1. x.qd = self.qd /\ x.kd = self.kd
      BY <1>8 DEF RunRefused, DecodeRunRefused, PrefillRunRefused, InputsRefused
    <2>2. (promise.nvf4 /\ lane.tensorCores) = promise.nvf4
      BY <1>2 DEF FlagServed
    <2> QED BY <1>1, <1>5, <2>1, <2>2 DEF Compiled, Laid
  <1>10. QueriesSplitAsPlanned'
    <2> SUFFICES ASSUME launch' # NoLaunch, lane.tensorCores, QoIndptrIntact
                 PROVE  /\ L.plan.n = L.requests /\ L.qo.n = L.requests
                        /\ L.qo.q = L.plan.q /\ L.qo.n * L.qo.q = L.rows
                        /\ L.causal = (~lane.decode \/ L.plan.q > 1)
      BY <1>4, <1>8 DEF QueriesSplitAsPlanned, QoIndptrIntact
    <2>1. /\ self.paged = promise.n /\ self.plan.n = promise.n
          /\ self.plan.q = promise.q
      BY <1>1 DEF Laid
    <2>2. self.qo.n = promise.n /\ self.qo.q = promise.q
      <3>1. CASE ~(lane.cudaGraph /\ lane.decode)
        BY <1>1, <3>1 DEF IInv, Indptr
      <3>2. CASE lane.cudaGraph /\ lane.decode
        <4>1. promise.n = lane.fixed /\ promise.q = first.q /\ first # NoCall
          BY <1>1, <3>2 DEF IInv, Captured, CallsServed, Laid
        <4>2. FrozenIndptr /\ refused \subseteq {1, promise.q}
          BY <3>2 DEF IInv, Indptr, QoIndptrIntact
        <4>3. self.qo.n = promise.n
          BY <4>1, <4>2 DEF FrozenIndptr
        <4>4. self.qo.q \in {1, promise.q}
          BY <4>1, <4>2 DEF FrozenIndptr
        <4>5. promise.q > 1 => self.qo.q = promise.q
          BY <1>1, <4>2 DEF FrozenIndptr
        <4> QED BY <1>2, <4>3, <4>4, <4>5
      <3> QED BY <3>1, <3>2
    <2>3. self.paged * x.len = promise.n * promise.q
      <3>1. CASE lane.decode
        <4>1. x.len = PlannedLen
          BY <1>8, <3>1 DEF RunRefused, DecodeRunRefused
        <4>2. PlannedLen = promise.q
          BY <1>1, <1>2, <3>1 DEF PlannedLen, Laid
        <4> QED BY <2>1, <4>1, <4>2
      <3>2. CASE ~lane.decode
        BY <1>1, <1>8, <3>2
           DEF RunRefused, PrefillRunRefused, Requests, Laid, Rows
      <3> QED BY <3>1, <3>2
    <2>4. lane.decode => PlannedLen = promise.q
      BY <1>1, <1>2 DEF PlannedLen, Laid
    <2> QED BY <1>5, <2>1, <2>2, <2>3, <2>4
  <1> QED
    BY <1>6, <1>7, <1>9, <1>10 DEF IInv

LEMMA InitEstablishes ==
  ASSUME Init
  PROVE  IInv
  <1>1. lane \in Lane /\ Constructed(lane) = self
    BY LaneAssumption DEF Init
  <1>2. TypeOK
    BY <1>1 DEF Init, TypeOK, Constructed, Attributes, NoModule, Modules,
                NoPlan, Plans, Indptrs, Lane
  <1>3. CallsServed /\ Captured /\ Indptr
    BY <1>1 DEF Init, CallsServed, Captured, Indptr, FrozenIndptr, Constructed
  <1>4. KernelServesTypes /\ QueriesSplitAsPlanned
    BY DEF Init, KernelServesTypes, QueriesSplitAsPlanned
  <1> QED
    BY <1>2, <1>3, <1>4 DEF IInv

LEMMA StutterKeeps ==
  ASSUME IInv, UNCHANGED vars
  PROVE  IInv'
  BY DEF IInv, vars, TypeOK, CallsServed, Served, Compiled, Laid, Captured, Rows,
         Indptr, FrozenIndptr, KernelServesTypes, FlagServed,
         QueriesSplitAsPlanned, QoIndptrIntact

-----------------------------------------------------------------------------
(* The theorems.                                                           *)

(* The invariant holds whatever a client calls. *)
THEOREM Invariance == Spec => []IInv
  <1>1. Init => IInv
    BY InitEstablishes
  <1>2. IInv /\ [Next]_vars => IInv'
    <2> SUFFICES ASSUME IInv, [Next]_vars PROVE IInv'
      OBVIOUS
    <2>1. ASSUME NEW c \in Calls, DecodePlan(c) PROVE IInv'
      BY <2>1, DecodePlanKeeps
    <2>2. ASSUME NEW c \in Calls, FastPlan(c) PROVE IInv'
      BY <2>2, FastPlanKeeps
    <2>3. ASSUME NEW c \in Calls, PrefillPlan(c) PROVE IInv'
      BY <2>3, PrefillPlanKeeps
    <2>4. ASSUME NEW x \in Inputs, Run(x) PROVE IInv'
      BY <2>4, RunKeeps
    <2>5. CASE UNCHANGED vars
      BY <2>5, StutterKeeps
    <2> QED BY <2>1, <2>2, <2>3, <2>4, <2>5 DEF Next
  <1> QED
    BY <1>1, <1>2, PTL DEF Spec

(* Type correctness: no sequence of calls, raising or not, leaves an       *)
(* attribute or a launch outside its type.                                 *)
THEOREM TypeCorrect == Spec => []TypeOK
  <1>1. IInv => TypeOK
    BY DEF IInv
  <1> QED BY <1>1, Invariance, PTL

(* The kernel that run() launches was compiled for the types, the packing  *)
(* and the window of the query and cache it is given, for any history of   *)
(* plans of other types and of plans that raised.                          *)
THEOREM KernelServes == Spec => []KernelServesTypes
  <1>1. IInv => KernelServesTypes
    BY DEF IInv
  <1> QED BY <1>1, Invariance, PTL

(* qo_indptr, plan, page tables and mask of a launch divide its rows alike.*)
THEOREM QueriesSplit == Spec => []QueriesSplitAsPlanned
  <1>1. IInv => QueriesSplitAsPlanned
    BY DEF IInv
  <1> QED BY <1>1, Invariance, PTL

(* A graph wrapper keeps the shape of the first plan that returned. *)
THEOREM GraphFrozen == Spec => []GraphShapeIsFrozen
  <1>1. IInv => GraphShapeIsFrozen
    BY DEF IInv, CallsServed, Captured, Laid, GraphShapeIsFrozen
  <1> QED BY <1>1, Invariance, PTL

(* run() accepts the query and cache that the last plan was made for. *)
THEOREM PlannedAccepted == Spec => []PlannedRunsAccepted
  <1>1. IInv => PlannedRunsAccepted
    <2> DEFINE x == [len |-> promise.q, qd |-> promise.qd,
                     kd |-> promise.kd, sf |-> TRUE]
    <2> SUFFICES ASSUME IInv, promise # NoCall, FlagServed(promise)
                 PROVE  ~RunRefused(x)
      BY DEF PlannedRunsAccepted
    <2>1. promise \in Calls /\ Compiled(self, promise) /\ Laid(promise)
      BY DEF IInv, TypeOK, CallsServed, Served
    <2>2. /\ promise.q \in Nat \ {0} /\ promise.n \in Nat \ {0}
          /\ promise.nvf4 \in BOOLEAN
      BY <2>1, CallFields
    <2>3. ~InputsRefused(x)
      <3>1. self.plan # NoPlan
        BY <2>1, <2>2 DEF Laid, NoPlan
      <3>2. self.nvf4 => promise.qd = "bf16"
        BY <2>1, <2>2 DEF Compiled, FlagServed
      <3> QED BY <2>1, <3>1, <3>2 DEF InputsRefused, Compiled
    <2>4. CASE lane.decode
      BY <2>1, <2>2, <2>3, <2>4
         DEF RunRefused, DecodeRunRefused, PlannedLen, Laid
    <2>5. CASE ~lane.decode
      BY <2>1, <2>3, <2>5
         DEF RunRefused, PrefillRunRefused, Requests, Laid, Rows
    <2> QED BY <2>4, <2>5
  <1> QED BY <1>1, Invariance, PTL
=============================================================================
