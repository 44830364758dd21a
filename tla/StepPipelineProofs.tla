------------------------ MODULE StepPipelineProofs ------------------------
(***************************************************************************)
(* Proofs about StepPipeline, for every value of its constants.            *)
(*                                                                         *)
(* The argument: the V1 runner lets build() touch the reused CPU buffers   *)
(* only when the stream has consumed them (V1Bound), so a pinned copy that *)
(* executes reads the buffers of its own step; the stream then hands each  *)
(* buffer down to the kernels of that step (StreamInv).  A replayed graph  *)
(* reads the wrapper build() planned (GraphInv, JobsInv), because a padded *)
(* batch always satisfies persistent_decode_wrapper_eligible.              *)
(***************************************************************************)
EXTENDS StepPipeline, FiniteSetTheorems, SequenceTheorems, WellFoundedInduction, TLAPS

USE SpecAssumption, FlagAssumption, ReqsAssumption, BoundAssumption
USE DEF SpecAssumption, FlagAssumption, ReqsAssumption, BoundAssumption

-----------------------------------------------------------------------------
(* Extremal elements, from the well-foundedness of < on Nat.               *)

(* A non-empty set of naturals has a least element: the padded graph size  *)
(* and the end of the uniform prefix of a batch exist.                     *)
LEMMA LeastExists ==
  ASSUME NEW S, S \subseteq Nat, S # {}
  PROVE  \E m \in S : \A x \in S : m <= x
<1>1. PICK m \in S : \A y \in S : ~(<<y, m>> \in OpToRel(<, Nat))
  BY NatLessThanWellFounded, WFMin, Zenon
<1>2. \A y \in S : ~(y < m)
  BY <1>1 DEF OpToRel
<1>3. \A y \in S : m <= y
  BY <1>2, SMT
<1> QED BY <1>3

(* A non-empty set of bounded naturals has a greatest element: the longest *)
(* query of a batch exists.                                                *)
LEMMA GreatestExists ==
  ASSUME NEW M \in Nat, NEW S, S \subseteq 0..M, S # {}
  PROVE  \E m \in S : \A x \in S : x <= m
<1> DEFINE T == {M - x : x \in S}
<1>1. T \subseteq Nat /\ T # {}
  <2>1. \A x \in S : M - x \in Nat
    OBVIOUS
  <2>2. PICK x \in S : TRUE
    OBVIOUS
  <2> QED BY <2>1, <2>2
<1> HIDE DEF T
<1>2. PICK t \in T : \A y \in T : t <= y
  BY <1>1, LeastExists
<1> USE DEF T
<1>3. PICK m \in S : t = M - m
  BY <1>2
<1>4. ASSUME NEW x \in S
      PROVE  x <= m
  <2>1. M - x \in T
    OBVIOUS
  <2>2. M - m <= M - x
    BY <1>2, <1>3, <2>1
  <2>3. x \in Int /\ m \in Int /\ M \in Int
    OBVIOUS
  <2> HIDE DEF T
  <2> QED BY <2>2, <2>3
<1> QED BY <1>4

-----------------------------------------------------------------------------
(* Batches.                                                                *)

(* Longest is the maximum of a non-empty row function. *)
LEMMA LongestIsMaximum ==
  ASSUME NEW M \in Nat, NEW n \in Nat \ {0}, NEW rows \in [1..n -> 0..M]
  PROVE  /\ \E r \in 1..n : Longest(rows) = rows[r]
         /\ \A r \in 1..n : rows[r] <= Longest(rows)
<1> DEFINE S == {rows[r] : r \in DOMAIN rows}
<1>1. S \subseteq 0..M /\ S # {} /\ DOMAIN rows = 1..n
  BY SMT
<1>2. \E m \in S : \A x \in S : x <= m
  <2> HIDE DEF S
  <2> QED BY <1>1, GreatestExists
<1>3. \E m \in S : \A r \in DOMAIN rows : rows[r] <= m
  BY <1>2
<1>4. Longest(rows) \in S /\ \A r \in DOMAIN rows : rows[r] <= Longest(rows)
  BY <1>3 DEF Longest
<1> QED BY <1>1, <1>4

(* The configuration part of the state. *)
Configured == numSpec \in SpecDepths /\ graphs \subseteq CaptureReqs

(* What is known of a batch the runner hands to build(). *)
WellFormed(b) ==
  /\ b.n \in 1..MaxReqs
  /\ b.rows \in [1..b.n -> 0..MaxQueryLen]
  /\ b.replay \in BOOLEAN
  /\ b.replay => /\ b.n \in graphs
                 /\ b.tokens = b.n * PlannedQLen
                 /\ b.rows[1] = PlannedQLen
                 /\ \A r \in 1..b.n : b.rows[r] \in {0, PlannedQLen}
  /\ ~b.replay => /\ b.tokens = Span(b.rows, b.n)
                  /\ \A r \in 1..b.n : b.rows[r] > 0

(* Every batch of the runner is well formed; the graph it is padded to has *)
(* been captured.                                                          *)
LEMMA BatchesWellFormed ==
  ASSUME Configured, NEW b \in RunnerBatches
  PROVE  WellFormed(b)
<1>0. PICK n \in 1..MaxReqs : \E lens \in [1..n -> 1..MaxQueryLen] : b = BatchOf(n, lens)
  BY DEF RunnerBatches
<1>1. PICK lens \in [1..n -> 1..MaxQueryLen] : b = BatchOf(n, lens)
  BY <1>0
<1> DEFINE fits == GraphsFor(n, lens)
<1>n. numSpec \in Nat /\ PlannedQLen \in Nat /\ PlannedQLen > 0
  BY DEF Configured, PlannedQLen
<1>g. ASSUME NEW d \in fits
      PROVE  /\ d \in graphs /\ n <= d
             /\ \A r \in 1..n : lens[r] = PlannedQLen
  <2>1. CASE \A r \in 1..n : lens[r] = PlannedQLen
    BY <2>1 DEF GraphsFor
  <2>2. CASE ~\A r \in 1..n : lens[r] = PlannedQLen
    BY <2>2 DEF GraphsFor
  <2> QED BY <2>1, <2>2
<1>h. graphs \subseteq 1..MaxReqs /\ graphs \subseteq Nat
  BY DEF Configured
<1>2. CASE fits = {}
  <2>1. b = Eager(n, lens)
    BY <1>1, <1>2 DEF BatchOf
  <2> QED BY <2>1 DEF Eager, WellFormed
<1>3. CASE fits # {}
  <2> DEFINE c == CHOOSE c \in fits : \A d \in fits : c <= d
  <2>1. fits \subseteq graphs /\ fits \subseteq Nat
    <3> HIDE DEF fits
    <3> QED BY <1>g, <1>h
  <2>2. c \in fits
    <3>1. \E d \in fits : \A e \in fits : d <= e
      <4> HIDE DEF fits
      <4> QED BY <2>1, <1>3, LeastExists
    <3> QED BY <3>1
  <2>3. b = Replayed(c, n)
    BY <1>1, <1>3 DEF BatchOf
  <2>4. /\ c \in graphs /\ c \in 1..MaxReqs /\ n <= c
        /\ \A r \in 1..n : lens[r] = PlannedQLen
    <3> HIDE DEF c, fits
    <3> QED BY <2>2, <1>g, <1>h
  <2> HIDE DEF c
  <2>5. PlannedQLen \in 0..MaxQueryLen
    <3>1. lens[1] \in 1..MaxQueryLen /\ lens[1] = PlannedQLen
      BY <2>4
    <3> QED BY <3>1, <1>n
  <2>6. /\ b.n = c /\ b.replay = TRUE /\ b.tokens = c * PlannedQLen
        /\ b.rows = [r \in 1..c |-> IF r <= n THEN PlannedQLen ELSE 0]
    BY <2>3 DEF Replayed
  <2>7. b.rows[1] = PlannedQLen /\ b.rows \in [1..c -> 0..MaxQueryLen]
    BY <2>4, <2>5, <2>6
  <2> QED BY <2>4, <2>6, <2>7 DEF WellFormed
<1> QED BY <1>2, <1>3

(* split_decodes_and_prefills never counts more decodes than requests. *)
LEMMA NumDecodesBounded ==
  ASSUME Configured, NEW b, WellFormed(b)
  PROVE  NumDecodes(b) \in 0..b.n
<1> DEFINE odd == {r \in 1..b.n : b.rows[r] # b.rows[1]}
           first == CHOOSE r \in odd : \A s \in odd : r <= s
<1>1. b.n \in 1..MaxReqs
  BY DEF WellFormed
<1>2. ASSUME odd # {} PROVE first \in 1..b.n
  <2>1. odd \subseteq Nat
    BY <1>1
  <2>2. \E r \in odd : \A s \in odd : r <= s
    <3> HIDE DEF odd
    <3> QED BY <2>1, <1>2, LeastExists
  <2> QED BY <2>2
<1>3. SplitDecodes(b) \in 0..b.n
  <2>1. CASE odd = {}
    BY <1>1, <2>1 DEF SplitDecodes
  <2>2. CASE odd # {}
    <3>1. first - 1 \in 0..b.n /\ 0 \in 0..b.n /\ b.n \in 0..b.n
      BY <1>1, <1>2, <2>2
    <3> QED BY <3>1 DEF SplitDecodes
  <2> QED BY <2>1, <2>2
<1> QED BY <1>1, <1>3 DEF NumDecodes

(* The query length handed to a decode wrapper is a natural number. *)
LEMMA DecodeQLenType ==
  ASSUME Configured, NEW b, WellFormed(b), NumDecodes(b) # 0
  PROVE  DecodeQLen(b) \in Nat
<1> DEFINE nd == NumDecodes(b)
           rows == [r \in 1..nd |-> b.rows[r]]
<1>1. nd \in 1..b.n /\ b.n \in Nat /\ b.rows \in [1..b.n -> 0..MaxQueryLen]
  BY NumDecodesBounded DEF WellFormed
<1>2. nd \in Nat \ {0} /\ rows \in [1..nd -> 0..MaxQueryLen]
  <2> HIDE DEF nd
  <2> QED BY <1>1
<1>3. \E r \in 1..nd : Longest(rows) = rows[r]
  <2> HIDE DEF rows, nd
  <2> QED BY <1>2, LongestIsMaximum
<1>4. Longest(rows) \in Nat
  <2> HIDE DEF rows, nd
  <2> QED BY <1>2, <1>3
<1> QED BY <1>4 DEF DecodeQLen

(* A batch the runner padded to a graph is all decodes and satisfies       *)
(* persistent_decode_wrapper_eligible: build() re-plans the wrapper the    *)
(* graph was captured with.                                                *)
LEMMA PaddedBatchEligible ==
  ASSUME Configured, NEW b, WellFormed(b), b.replay
  PROVE  NumDecodes(b) = b.n /\ PersistentEligible(b) /\ DecodeQLen(b) = PlannedQLen
<1>1. /\ b.n \in 1..MaxReqs /\ b.n \in graphs /\ b.n \in CaptureReqs
      /\ b.tokens = b.n * PlannedQLen
      /\ b.rows \in [1..b.n -> 0..MaxQueryLen]
      /\ b.rows[1] = PlannedQLen
      /\ \A r \in 1..b.n : b.rows[r] \in {0, PlannedQLen}
  BY DEF WellFormed, Configured
<1>2. /\ numSpec \in SpecDepths /\ numSpec \in Nat
      /\ PlannedQLen = 1 + numSpec /\ PlannedQLen \in Nat /\ PlannedQLen > 0
  BY DEF Configured, PlannedQLen
<1>3. Longest(b.rows) = PlannedQLen
  <2>1. /\ \E r \in 1..b.n : Longest(b.rows) = b.rows[r]
        /\ \A r \in 1..b.n : b.rows[r] <= Longest(b.rows)
    <3>1. b.n \in Nat \ {0}
      BY <1>1
    <3> QED BY <3>1, <1>1, LongestIsMaximum
  <2>2. PlannedQLen <= Longest(b.rows)
    BY <2>1, <1>1
  <2> QED BY <2>1, <2>2, <1>1, <1>2
<1>4. ~HasCompactSpecDecode(b)
  BY <1>1, <1>3 DEF HasCompactSpecDecode
<1>5. SplitDecodes(b) = b.n
  <2>1. PlannedQLen <= Threshold /\ Threshold \in Nat
    BY <1>2 DEF Threshold
  <2>2. \A r \in 1..b.n : b.rows[r] # b.rows[1] => b.rows[r] = 0
    BY <1>1
  <2>3. ~(b.rows[1] > Threshold)
    BY <2>1, <1>1, <1>2
  <2> QED BY <2>2, <2>3 DEF SplitDecodes
<1>6. NumDecodes(b) = b.n
  BY <1>4, <1>5 DEF NumDecodes
<1>7. DecodeQLen(b) = PlannedQLen
  <2>1. [r \in 1..NumDecodes(b) |-> b.rows[r]] = b.rows
    BY <1>1, <1>6
  <2> QED BY <2>1, <1>3 DEF DecodeQLen
<1>8. NumDecodeTokens(b) <= DecodeCudagraphMaxBs
  <2>1. NumDecodeTokens(b) = b.n * (1 + numSpec)
    BY <1>1, <1>2, <1>6 DEF NumDecodeTokens
  <2>2. b.n * (1 + numSpec) <= MaxCapture
    BY <1>1, <1>2, CaptureAssumption DEF CaptureAssumption
  <2>3. b.n * (1 + numSpec) <= (1 + numSpec) * MaxReqs
    <3>1. /\ b.n \in Nat /\ MaxReqs \in Nat /\ b.n <= MaxReqs
          /\ 1 + numSpec \in Nat
      BY <1>1, <1>2
    <3>2. \A x, y, z \in Nat : x <= y => x * z <= z * y
      BY SMT
    <3> QED BY <3>1, <3>2
  <2> QED BY <2>1, <2>2, <2>3 DEF DecodeCudagraphMaxBs
<1> QED BY <1>6, <1>7, <1>8 DEF PersistentEligible

(* The record of a step: every step plans some wrapper, and a replayed     *)
(* step plans exactly the wrapper of its graph.                            *)
JobSound(job) ==
  /\ job \in Jobs
  /\ Planned(job) # {} /\ Planned(job) \subseteq AllWrappers
  /\ job.replay => Planned(job) = {job.n}

LEMMA JobsOfBatches ==
  ASSUME Configured, NEW b, WellFormed(b)
  PROVE  JobSound(JobOf(b))
<1> DEFINE nd == NumDecodes(b)
           job == JobOf(b)
<1>1. b.n \in 1..MaxReqs /\ nd \in 0..b.n /\ b.replay \in BOOLEAN
  BY NumDecodesBounded DEF WellFormed
<1>2. nd # 0 => DecodeWrapper(b) \in DecodeWrappers
  BY <1>1 DEF DecodeWrapper, DecodeWrappers, Dynamic
<1>3. (nd > 0 /\ OriginalPlan(DecodeWrapper(b))) \in BOOLEAN
  OBVIOUS
<1>4. job.n = b.n /\ job.nd = nd /\ job.replay = b.replay
  BY DEF JobOf
<1>5. job \in Jobs
  <2>1. (IF nd = 0 THEN {} ELSE {DecodeWrapper(b)}) \in SUBSET DecodeWrappers
    BY <1>2
  <2>2. nd \in 0..MaxReqs /\ (nd < b.n) \in BOOLEAN
    BY <1>1
  <2>3. ASSUME NEW n \in 1..MaxReqs, NEW d \in 0..MaxReqs, NEW r \in BOOLEAN,
               NEW p \in BOOLEAN, NEW dec \in SUBSET DecodeWrappers, NEW o \in BOOLEAN
        PROVE  [n |-> n, nd |-> d, replay |-> r, prefill |-> p, decode |-> dec,
                original |-> o] \in Jobs
    BY DEF Jobs
  <2>4. job = [n |-> b.n, nd |-> nd, replay |-> b.replay, prefill |-> nd < b.n,
               decode |-> IF nd = 0 THEN {} ELSE {DecodeWrapper(b)},
               original |-> nd > 0 /\ OriginalPlan(DecodeWrapper(b))]
    BY Zenon DEF JobOf
  <2> HIDE DEF nd, job
  <2> QED BY <1>1, <1>3, <2>1, <2>2, <2>3, <2>4, Zenon
<1>p. Planned(job) = (IF nd = 0 THEN {} ELSE {DecodeWrapper(b)})
                       \union (IF nd < b.n THEN {Prefill} ELSE {})
  BY Zenon DEF Planned, JobOf
<1>6. Planned(job) # {} /\ Planned(job) \subseteq AllWrappers
  <2> HIDE DEF nd, job
  <2>1. CASE nd = 0
    BY <2>1, <1>1, <1>p DEF Prefill, AllWrappers
  <2>2. CASE nd # 0
    BY <2>2, <1>1, <1>2, <1>p DEF Prefill, AllWrappers, DecodeWrappers
  <2> QED BY <2>1, <2>2
<1>7. ASSUME b.replay PROVE Planned(job) = {job.n}
  <2>1. nd = b.n /\ PersistentEligible(b)
    BY <1>7, PaddedBatchEligible
  <2>2. DecodeWrapper(b) = b.n
    BY <2>1 DEF DecodeWrapper
  <2> HIDE DEF nd, job
  <2>3. nd # 0 /\ ~(nd < b.n)
    BY <2>1, <1>1
  <2> QED BY <2>2, <2>3, <1>4, <1>p, Zenon
<1>8. JobSound(job)
  <2> HIDE DEF job
  <2> QED BY <1>4, <1>5, <1>6, <1>7, Zenon DEF JobSound
<1> QED BY <1>8

-----------------------------------------------------------------------------
(* Type correctness.                                                       *)

(* The counters of a typed state. *)
Counters ==
  /\ built \in Nat /\ launched \in Nat /\ built <= MaxSteps
  /\ launched <= built /\ built <= launched + 1
  /\ Len(jobs) = built /\ jobs \in Seq(Jobs)
  /\ pos.step \in Nat \ {0} /\ pos.op \in Ops /\ pos = [step |-> pos.step, op |-> pos.op]
  /\ Len(views) = pos.step - 1 /\ pos.step <= launched + 1

LEMMA TypedCounters == TypeOK => Counters
<1> SUFFICES ASSUME TypeOK PROVE Counters
  OBVIOUS
<1>1. built \in 0..MaxSteps /\ launched \in 0..MaxSteps
  BY DEF TypeOK, Tag
<1>2. launched <= built /\ built <= launched + 1
  BY DEF TypeOK
<1>3. Len(jobs) = built /\ jobs \in Seq(Jobs)
  BY DEF TypeOK
<1>4. pos \in [step : 1..(MaxSteps + 1), op : Ops]
  BY DEF TypeOK
<1>5. pos.step \in 1..(MaxSteps + 1) /\ pos.op \in Ops
  BY <1>4
<1>6. pos = [step |-> pos.step, op |-> pos.op]
  BY <1>4
<1>7. Len(views) = pos.step - 1 /\ Len(views) <= launched
  BY DEF TypeOK
<1>8. MaxSteps \in Nat
  BY BoundAssumption
<1>9. built \in Nat /\ launched \in Nat /\ built <= MaxSteps /\ pos.step \in Nat \ {0}
  BY <1>1, <1>5, <1>8
<1>10. pos.step <= launched + 1
  BY <1>7, <1>9
<1> QED BY <1>2, <1>3, <1>5, <1>6, <1>7, <1>9, <1>10 DEF Counters

(* A copy that executes reads a tag, pinned or not. *)
LEMMA SourceType ==
  ASSUME TypeOK, pos.step <= built, NEW buf \in {"mirror", "indptr", "last"}
  PROVE  Source(buf) \in Tag
<1>1. host[buf] \in Tag
  BY DEF TypeOK
<1>2. pos.step \in Tag
  BY TypedCounters DEF Counters, Tag
<1> QED BY <1>1, <1>2 DEF Source

LEMMA KernelWrappersType ==
  ASSUME NEW job \in Jobs
  PROVE  KernelWrappers(job) \subseteq AllWrappers /\ Planned(job) \subseteq AllWrappers
BY DEF KernelWrappers, Planned, Jobs, AllWrappers, DecodeWrappers, Prefill

LEMMA InitTyped == Init => TypeOK
<1> SUFFICES ASSUME Init PROVE TypeOK
  OBVIOUS
<1>1. 0 \in Tag /\ MaxSteps + 1 \in Nat /\ 1 \in 1..(MaxSteps + 1)
  BY DEF Tag
<1> QED BY <1>1 DEF Init, TypeOK, FreshWrapper, Ops, Errors

LEMMA CaptureTyped ==
  ASSUME TypeOK, NEW b \in CaptureReqs, CaptureGraph(b)
  PROVE  TypeOK'
<1>1. b \in DecodeWrappers /\ PlannedQLen \in Nat
  BY DEF DecodeWrappers, PlannedQLen, TypeOK
<1>2. wrappers' \in [DecodeWrappers -> [first : BOOLEAN, qlen : Nat]]
  BY <1>1 DEF CaptureGraph, TypeOK
<1> QED BY <1>2 DEF CaptureGraph, TypeOK, gpuVars, Tag, Ops, Jobs, Errors

(* The configuration part of a typed state, as the lemmas on batches want it. *)
LEMMA TypedIsConfigured == TypeOK => Configured
BY DEF TypeOK, Configured

LEMMA BuildTyped ==
  ASSUME TypeOK, Build
  PROVE  TypeOK'
<1>1. PICK b \in RunnerBatches : 
        LET k == built + 1
            job == JobOf(b)
        IN  IF PlanError(b) = "none"
              THEN /\ batch' = b
                   /\ built' = k
                   /\ jobs' = Append(jobs, job)
                   /\ host' = [mirror |-> k, indptr |-> k, last |-> k]
                   /\ hostPlan' = [w \in AllWrappers |->
                                     IF w \in Planned(job) THEN k ELSE hostPlan[w]]
                   /\ wrappers' = [w \in DecodeWrappers |->
                                     IF w \in job.decode
                                       THEN [first |-> FALSE, qlen |-> DecodeQLen(b)]
                                       ELSE wrappers[w]]
                   /\ UNCHANGED err
              ELSE /\ err' = PlanError(b)
                   /\ UNCHANGED <<batch, built, jobs, host, hostPlan, wrappers>>
  BY DEF Build
<1>2. UNCHANGED <<useV2, numSpec, graphs, launched, gpuVars>>
      /\ launched = built /\ built < MaxSteps
  BY DEF Build
<1>3. Configured /\ WellFormed(b) /\ JobSound(JobOf(b))
  BY TypedIsConfigured, BatchesWellFormed, JobsOfBatches
<1>4. CASE PlanError(b) = "none"
  <2>0. built' = built + 1 /\ jobs' = Append(jobs, JobOf(b)) /\ err' = err
    BY <1>1, <1>4, Zenon
  <2>1. built + 1 \in Tag /\ built' = built + 1
    BY <1>2, <2>0, TypedCounters DEF Counters, Tag
  <2>2. jobs' \in Seq(Jobs) /\ Len(jobs') = built'
    BY <1>3, <2>0, TypedCounters DEF Counters, JobSound
  <2>3. host' \in [{"mirror", "indptr", "last"} -> Tag]
    BY <1>1, <1>4, <2>1
  <2>4. hostPlan' \in [AllWrappers -> Tag]
    BY <1>1, <1>4, <2>1 DEF TypeOK
  <2>5. wrappers' \in [DecodeWrappers -> [first : BOOLEAN, qlen : Nat]]
    <3>1. ASSUME NEW w \in JobOf(b).decode PROVE DecodeQLen(b) \in Nat
      <4>1. NumDecodes(b) # 0
        BY <3>1 DEF JobOf
      <4> QED BY <4>1, <1>3, DecodeQLenType
    <3>2. ASSUME NEW w \in DecodeWrappers
          PROVE  (IF w \in JobOf(b).decode
                   THEN [first |-> FALSE, qlen |-> DecodeQLen(b)]
                   ELSE wrappers[w]) \in [first : BOOLEAN, qlen : Nat]
      BY <3>1 DEF TypeOK
    <3> QED BY <1>1, <1>4, <3>2
  <2> QED BY <1>1, <1>2, <1>4, <2>1, <2>2, <2>3, <2>4, <2>5
          DEF TypeOK, gpuVars
<1>5. CASE PlanError(b) # "none"
  <2>1. err' \in Errors
    BY <1>1, <1>5 DEF PlanError, Errors
  <2> QED BY <1>1, <1>2, <1>5, <2>1 DEF TypeOK, gpuVars
<1> QED BY <1>4, <1>5

LEMMA LaunchTyped ==
  ASSUME TypeOK, Launch
  PROVE  TypeOK'
<1>1. /\ UNCHANGED <<useV2, numSpec, wrappers, graphs, built, jobs, host, hostPlan, gpuVars>>
      /\ launched < built
      /\ \/ launched' = built /\ UNCHANGED err
         \/ err' = "q_len_per_req differs from plan" /\ UNCHANGED launched
  BY DEF Launch
<1>2. err' \in Errors /\ launched' \in {launched, built}
  BY <1>1 DEF TypeOK, Errors
<1>3. /\ launched' \in Tag /\ launched' <= built' /\ built' <= launched' + 1
      /\ Len(views') <= launched'
  <2>1. views' = views /\ built' = built
    BY <1>1 DEF gpuVars
  <2>2. /\ built \in Nat /\ launched \in Nat /\ built <= MaxSteps
        /\ built <= launched + 1 /\ Len(views) \in Int /\ Len(views) <= launched
    BY TypedCounters DEF Counters
  <2>3. launched < built
    BY <1>1
  <2>4. Len(views') \in Int /\ Len(views') <= launched /\ built' = built
    BY <2>1, <2>2
  <2>5. CASE launched' = launched
    BY <2>5, <2>2, <2>3, <2>4 DEF Tag
  <2>6. CASE launched' = built
    BY <2>6, <2>2, <2>3, <2>4 DEF Tag
  <2> QED BY <1>2, <2>5, <2>6
<1> QED BY <1>1, <1>2, <1>3 DEF TypeOK, gpuVars

LEMMA CopiesTyped ==
  ASSUME TypeOK, CopyIndptr \/ CopyPageIndices \/ CopyLastPageLen
  PROVE  TypeOK'
<1>1. UNCHANGED <<cpuVars, own, gpuPlan, views>>
  BY DEF CopyIndptr, CopyPageIndices, CopyLastPageLen
<1>2. /\ pos'.step = pos.step
      /\ pos' \in [step : 1..(MaxSteps + 1), op : Ops]
  <2>1. /\ pos' = [pos EXCEPT !.op = pos'.op] /\ pos'.op \in Ops
    BY DEF CopyIndptr, CopyPageIndices, CopyLastPageLen, Advance, Ops, TypeOK
  <2> QED BY <2>1 DEF TypeOK
<1>3. gpu' \in [{"indptr", "indices", "last"} -> Tag]
  <2>1. pos.step <= built
    BY DEF CopyIndptr, CopyPageIndices, CopyLastPageLen, At
  <2>2. /\ gpu \in [{"indptr", "indices", "last"} -> Tag]
        /\ Source("mirror") \in Tag /\ Source("last") \in Tag
    BY <2>1, SourceType DEF TypeOK
  <2> QED BY <2>2 DEF CopyIndptr, CopyPageIndices, CopyLastPageLen
<1> QED BY <1>1, <1>2, <1>3 DEF TypeOK, cpuVars

LEMMA UploadTyped ==
  ASSUME TypeOK, UploadPlan
  PROVE  TypeOK'
<1> DEFINE job == jobs[pos.step]
           fresh == {w \in Planned(job) : w \in {Dynamic, Prefill}}
           persistent == job.original /\ job.decode # {Dynamic}
<1>1. /\ gpuPlan' = [w \in AllWrappers |->
                       IF w \in Planned(job) THEN hostPlan[w] ELSE gpuPlan[w]]
      /\ own' = [w \in {Dynamic, Prefill} |->
                   IF w \in fresh
                     THEN [indptr |-> Source("indptr"), last |-> Source("last")]
                     ELSE own[w]]
      /\ gpu' = IF persistent
                  THEN [gpu EXCEPT !.indptr = Source("indptr"), !.last = Source("last")]
                  ELSE gpu
      /\ pos' = [pos EXCEPT !.op = "attend"]
      /\ UNCHANGED <<cpuVars, views>>
      /\ pos.step <= built
  BY DEF UploadPlan, Advance, At
<1>2. Source("indptr") \in Tag /\ Source("last") \in Tag
  BY <1>1, SourceType
<1>3. gpuPlan' \in [AllWrappers -> Tag]
  BY <1>1 DEF TypeOK
<1>4. own' \in [{Dynamic, Prefill} -> [{"indptr", "last"} -> Tag]]
  <2>1. own \in [{Dynamic, Prefill} -> [{"indptr", "last"} -> Tag]]
    BY DEF TypeOK
  <2>2. [indptr |-> Source("indptr"), last |-> Source("last")]
          \in [{"indptr", "last"} -> Tag]
    BY <1>2
  <2> HIDE DEF fresh
  <2> QED BY <1>1, <2>1, <2>2
<1>5. gpu' \in [{"indptr", "indices", "last"} -> Tag]
  <2>1. gpu \in [{"indptr", "indices", "last"} -> Tag]
    BY DEF TypeOK
  <2> HIDE DEF persistent
  <2> QED BY <1>1, <1>2, <2>1
<1>6. pos'.step = pos.step /\ pos' \in [step : 1..(MaxSteps + 1), op : Ops]
  BY <1>1 DEF TypeOK, Ops
<1> QED BY <1>1, <1>3, <1>4, <1>5, <1>6 DEF TypeOK, cpuVars

LEMMA AttendTyped ==
  ASSUME TypeOK, Attend
  PROVE  TypeOK'
<1> DEFINE ws == KernelWrappers(jobs[pos.step])
           view == [meta |-> UNION {MetadataRead(w) : w \in ws},
                    plan |-> {gpuPlan[w] : w \in ws}]
<1>1. /\ views' = Append(views, view)
      /\ pos' = [step |-> pos.step + 1, op |-> "indptr"]
      /\ UNCHANGED <<cpuVars, gpu, own, gpuPlan>>
      /\ pos.step <= built /\ pos.step <= launched
  BY DEF Attend, At, ForwardEnqueued
<1>2. ws \subseteq AllWrappers
  <2>1. jobs[pos.step] \in Jobs
    BY <1>1, TypedCounters DEF Counters
  <2> QED BY <2>1, KernelWrappersType
<1>3. view \in [meta : SUBSET Tag, plan : SUBSET Tag]
  <2>1. ASSUME NEW w \in ws PROVE MetadataRead(w) \subseteq Tag /\ gpuPlan[w] \in Tag
    BY <1>2 DEF MetadataRead, TypeOK
  <2> HIDE DEF ws
  <2> QED BY <2>1
<1>4. /\ views' \in Seq([meta : SUBSET Tag, plan : SUBSET Tag])
      /\ Len(views') = Len(views) + 1
  <2>1. views \in Seq([meta : SUBSET Tag, plan : SUBSET Tag])
    BY DEF TypeOK
  <2> HIDE DEF view
  <2> QED BY <1>1, <1>3, <2>1
<1>5. /\ pos' \in [step : 1..(MaxSteps + 1), op : Ops]
      /\ Len(views') = pos'.step - 1 /\ Len(views') <= launched
  BY <1>1, <1>4, TypedCounters DEF Counters, Ops
<1> QED BY <1>1, <1>4, <1>5 DEF TypeOK, cpuVars

LEMMA NextTyped ==
  ASSUME TypeOK, [Next]_vars
  PROVE  TypeOK'
<1>1. CASE UNCHANGED vars
  BY <1>1 DEF vars, TypeOK
<1>2. CASE \E b \in CaptureReqs : CaptureGraph(b)
  BY <1>2, CaptureTyped
<1>3. CASE Build
  BY <1>3, BuildTyped
<1>4. CASE Launch
  BY <1>4, LaunchTyped
<1>5. CASE Stream
  BY <1>5, CopiesTyped, UploadTyped, AttendTyped DEF Stream
<1>6. CASE Done
  BY <1>6, <1>1 DEF Done
<1> QED BY <1>1, <1>2, <1>3, <1>4, <1>5, <1>6 DEF Next

(* Type correctness, for every value of the constants. *)
THEOREM TypeCorrect == Spec => []TypeOK
BY InitTyped, NextTyped, PTL DEF Spec

-----------------------------------------------------------------------------
(* The CPU side: wrappers, routing and the record of each step.            *)

(* A persistent wrapper has frozen nothing or PlannedQLen, and capture has *)
(* used up the first plan of every wrapper a graph reads.                  *)
GraphInv ==
  /\ \A w \in 1..MaxReqs : wrappers[w].qlen \in {0, PlannedQLen}
  /\ \A w \in graphs : ~wrappers[w].first

JobsInv == \A k \in 1..Len(jobs) : JobSound(jobs[k])

CpuInv == GraphInv /\ JobsInv /\ BuildNeverRaises

(* No batch of the runner makes plan() raise. *)
LEMMA PlanSucceeds ==
  ASSUME Configured, GraphInv, NEW b, WellFormed(b)
  PROVE  PlanError(b) = "none"
<1> DEFINE w == DecodeWrapper(b)
           qlen == DecodeQLen(b)
<1>1. ASSUME NumDecodes(b) # 0 PROVE ~FrozenShapeError(w, qlen)
  <2>1. CASE PersistentEligible(b)
    <3>1. w = NumDecodes(b) /\ qlen = PlannedQLen /\ w \in 1..MaxReqs
      BY <1>1, <2>1, NumDecodesBounded DEF DecodeWrapper, PersistentEligible, WellFormed
    <3>2. wrappers[w].qlen \in {0, PlannedQLen}
      BY <3>1 DEF GraphInv
    <3> HIDE DEF w, qlen
    <3> QED BY <3>1, <3>2 DEF FrozenShapeError
  <2>2. CASE ~PersistentEligible(b)
    BY <2>2 DEF DecodeWrapper, FrozenShapeError
  <2> QED BY <2>1, <2>2
<1>2. ASSUME NumDecodes(b) # 0 PROVE ~(OriginalPlan(w) /\ EmptyKvError(b, qlen))
  <2>0. b.n \in 1..MaxReqs /\ NumDecodes(b) \in 1..b.n /\ b.replay \in BOOLEAN
    BY <1>2, NumDecodesBounded DEF WellFormed
  <2>1. CASE b.replay
    <3>1. NumDecodes(b) = b.n /\ PersistentEligible(b) /\ b.n \in graphs
      BY <2>1, PaddedBatchEligible DEF WellFormed
    <3>2. w = b.n /\ w # Dynamic /\ ~wrappers[w].first
      BY <3>1, <2>0 DEF DecodeWrapper, GraphInv, Dynamic
    <3> HIDE DEF w
    <3> QED BY <3>2 DEF OriginalPlan
  <2>2. CASE ~b.replay
    <3>1. \A r \in 1..NumDecodes(b) : b.rows[r] # 0
      BY <2>0, <2>2 DEF WellFormed
    <3> QED BY <3>1 DEF EmptyKvError
  <2> QED BY <2>0, <2>1, <2>2
<1> QED BY <1>1, <1>2 DEF PlanError

LEMMA InitCpu == Init => CpuInv
<1> SUFFICES ASSUME Init PROVE CpuInv
  OBVIOUS
<1>1. \A w \in 1..MaxReqs : wrappers[w].qlen = 0
  BY DEF Init, FreshWrapper, DecodeWrappers
<1>2. Len(jobs) = 0 /\ graphs = {} /\ err = "none"
  BY DEF Init
<1> QED BY <1>1, <1>2 DEF CpuInv, GraphInv, JobsInv, BuildNeverRaises

LEMMA BuildCpu ==
  ASSUME TypeOK, CpuInv, Build
  PROVE  CpuInv'
<1>1. Configured
  BY TypedIsConfigured
<1>2. PICK b \in RunnerBatches :
        /\ PlanError(b) = "none" => 
             /\ jobs' = Append(jobs, JobOf(b))
             /\ wrappers' = [w \in DecodeWrappers |->
                               IF w \in JobOf(b).decode
                                 THEN [first |-> FALSE, qlen |-> DecodeQLen(b)]
                                 ELSE wrappers[w]]
             /\ UNCHANGED err
  <2>1. \A b : PlanError(b) = "none" \/ PlanError(b) # "none"
    OBVIOUS
  <2> QED BY <2>1 DEF Build
<1>3. UNCHANGED <<numSpec, graphs>>
  BY DEF Build
<1>4. WellFormed(b) /\ JobSound(JobOf(b))
  BY <1>1, BatchesWellFormed, JobsOfBatches
<1>5. /\ jobs' = Append(jobs, JobOf(b)) /\ err' = err
      /\ wrappers' = [w \in DecodeWrappers |->
                        IF w \in JobOf(b).decode
                          THEN [first |-> FALSE, qlen |-> DecodeQLen(b)]
                          ELSE wrappers[w]]
  BY <1>1, <1>2, <1>4, PlanSucceeds DEF CpuInv
<1>6. GraphInv'
  <2>1. ASSUME NEW w \in 1..MaxReqs
        PROVE  /\ wrappers'[w].qlen \in {0, PlannedQLen}
               /\ ~wrappers[w].first => ~wrappers'[w].first
    <3>1. w \in DecodeWrappers /\ w # Dynamic /\ wrappers[w].qlen \in {0, PlannedQLen}
      BY DEF DecodeWrappers, Dynamic, CpuInv, GraphInv
    <3>2. CASE w \in JobOf(b).decode
      <4>1. w = DecodeWrapper(b)
        BY <3>2 DEF JobOf
      <4>2. DecodeQLen(b) = PlannedQLen
        BY <4>1, <3>1 DEF DecodeWrapper, PersistentEligible
      <4> QED BY <4>2, <3>1, <3>2, <1>5
    <3>3. CASE w \notin JobOf(b).decode
      BY <3>1, <3>3, <1>5
    <3> QED BY <3>2, <3>3
  <2>2. PlannedQLen' = PlannedQLen /\ graphs' = graphs
    BY <1>3 DEF PlannedQLen
  <2>3. graphs \subseteq 1..MaxReqs
    BY <1>1 DEF Configured
  <2> QED BY <2>1, <2>2, <2>3 DEF GraphInv, CpuInv
<1>7. JobsInv'
  <2>1. jobs \in Seq(Jobs)
    BY TypedCounters DEF Counters
  <2>2. ASSUME NEW k \in 1..Len(jobs') PROVE JobSound(jobs'[k])
    <3>1. k \in 1..Len(jobs) \/ k = Len(jobs) + 1
      BY <1>5, <2>1
    <3>2. k \in 1..Len(jobs) => jobs'[k] = jobs[k]
      BY <1>5, <2>1
    <3>3. jobs'[Len(jobs) + 1] = JobOf(b)
      BY <1>5, <2>1
    <3> QED BY <3>1, <3>2, <3>3, <1>4 DEF CpuInv, JobsInv
  <2> QED BY <2>2 DEF JobsInv, JobSound
<1>8. BuildNeverRaises'
  BY <1>5 DEF CpuInv, BuildNeverRaises
<1> QED BY <1>6, <1>7, <1>8 DEF CpuInv

LEMMA NextCpu ==
  ASSUME TypeOK, CpuInv, [Next]_vars
  PROVE  CpuInv'
<1>1. CASE UNCHANGED <<numSpec, wrappers, graphs, jobs>> /\ BuildNeverRaises'
  <2>1. GraphInv'
    BY <1>1 DEF CpuInv, GraphInv, PlannedQLen
  <2>2. JobsInv'
    BY <1>1 DEF CpuInv, JobsInv, JobSound
  <2> QED BY <1>1, <2>1, <2>2 DEF CpuInv
<1>2. ASSUME NEW b \in CaptureReqs, CaptureGraph(b) PROVE CpuInv'
  <2>1. GraphInv'
    <3>1. /\ wrappers' = [wrappers EXCEPT ![b] = [first |-> FALSE, qlen |-> PlannedQLen]]
          /\ graphs' = graphs \union {b} /\ PlannedQLen' = PlannedQLen
      BY <1>2 DEF CaptureGraph, PlannedQLen
    <3>2. /\ DOMAIN wrappers = DecodeWrappers /\ b \in DecodeWrappers
          /\ 1..MaxReqs \subseteq DecodeWrappers /\ graphs \subseteq DecodeWrappers
      BY DEF TypeOK, DecodeWrappers
    <3>3. \A w \in DecodeWrappers :
            wrappers'[w] = IF w = b THEN [first |-> FALSE, qlen |-> PlannedQLen]
                                    ELSE wrappers[w]
      BY <3>1, <3>2
    <3> QED BY <3>1, <3>2, <3>3 DEF CpuInv, GraphInv
  <2>2. JobsInv' /\ BuildNeverRaises'
    BY <1>2 DEF CaptureGraph, CpuInv, JobsInv, JobSound, BuildNeverRaises
  <2> QED BY <2>1, <2>2 DEF CpuInv
<1>3. CASE Launch
  BY <1>1, <1>3 DEF Launch, CpuInv, BuildNeverRaises
<1>4. CASE Stream
  BY <1>1, <1>4 DEF Stream, CopyIndptr, CopyPageIndices, CopyLastPageLen, UploadPlan,
                    Attend, cpuVars, CpuInv, BuildNeverRaises
<1>5. CASE Done \/ UNCHANGED vars
  BY <1>1, <1>5 DEF Done, vars, CpuInv, BuildNeverRaises
<1> QED BY <1>2, <1>3, <1>4, <1>5, BuildCpu DEF Next

(* CpuInv is inductive relative to the types. *)
LEMMA CpuCorrect == Spec => []CpuInv
BY InitCpu, NextCpu, TypeCorrect, PTL DEF Spec

(* The tokens of n uniform rows. *)
LEMMA UniformSpan ==
  ASSUME NEW n \in Nat, NEW q \in 1..MaxQueryLen, NEW rows,
         \A r \in 1..n : rows[r] = q
  PROVE  Span(rows, n) = n * q
<1> DEFINE T == {t \in (1..n) \X (1..MaxQueryLen) : t[2] <= rows[t[1]]}
<1>1. T = (1..n) \X (1..q)
  <2>1. ASSUME NEW t \in T PROVE t \in (1..n) \X (1..q)
    BY <2>1
  <2>2. ASSUME NEW t \in (1..n) \X (1..q) PROVE t \in T
    BY <2>2
  <2>3. T \subseteq (1..n) \X (1..q)
    BY <2>1
  <2>4. (1..n) \X (1..q) \subseteq T
    BY <2>2
  <2> QED BY <2>3, <2>4, Zenon
<1>2. /\ IsFiniteSet(1..n) /\ IsFiniteSet(1..q)
      /\ Cardinality(1..n) = n /\ Cardinality(1..q) = q
  BY FS_Interval
<1>3. Cardinality((1..n) \X (1..q)) = n * q
  BY <1>2, FS_Product
<1> QED BY <1>1, <1>3 DEF Span

(* The decode part of an unpadded batch is uniform. *)
LEMMA EagerDecodesUniform ==
  ASSUME Configured, NEW b, WellFormed(b), ~b.replay, NumDecodes(b) # 0
  PROVE  \A r \in 1..NumDecodes(b) : b.rows[r] = b.rows[1]
<1> DEFINE odd == {r \in 1..b.n : b.rows[r] # b.rows[1]}
           first == CHOOSE r \in odd : \A s \in odd : r <= s
<1>1. /\ b.n \in 1..MaxReqs /\ b.rows \in [1..b.n -> 0..MaxQueryLen]
      /\ \A r \in 1..b.n : b.rows[r] > 0
  BY DEF WellFormed
<1>2. NumDecodes(b) = SplitDecodes(b) /\ NumDecodes(b) \in 1..b.n
  BY NumDecodesBounded, <1>1 DEF NumDecodes
<1>3. CASE odd = {}
  <2>1. \A r \in 1..b.n : b.rows[r] = b.rows[1]
    BY <1>3
  <2>2. 1..NumDecodes(b) \subseteq 1..b.n
    BY <1>1, <1>2
  <2> QED BY <2>1, <2>2
<1>4. CASE odd # {} /\ Threshold <= 1 /\ Longest(b.rows) <= Threshold
  <2>1. \A r \in 1..b.n : b.rows[r] <= Longest(b.rows)
    <3>1. b.n \in Nat \ {0}
      BY <1>1
    <3> QED BY <3>1, <1>1, LongestIsMaximum
  <2>2. Longest(b.rows) \in Int /\ Threshold \in Int
    <3>1. \E r \in 1..b.n : Longest(b.rows) = b.rows[r]
      <4>1. b.n \in Nat \ {0}
        BY <1>1
      <4> QED BY <4>1, <1>1, LongestIsMaximum
    <3>2. Longest(b.rows) \in Int
      <4> HIDE DEF odd, first
      <4> QED BY <3>1, <1>1
    <3>3. Threshold \in Int
      BY DEF Threshold, Configured
    <3> QED BY <3>2, <3>3
  <2>3. \A r \in 1..b.n : b.rows[r] = 1
    BY <1>1, <1>4, <2>1, <2>2
  <2> QED BY <1>1, <1>2, <2>3
<1>5. CASE odd # {} /\ ~(Threshold <= 1 /\ Longest(b.rows) <= Threshold)
  <2>1. first \in odd /\ \A s \in odd : first <= s
    <3>1. odd \subseteq Nat /\ odd # {}
      BY <1>1, <1>5
    <3>2. \E r \in odd : \A s \in odd : r <= s
      <4> HIDE DEF odd
      <4> QED BY <3>1, LeastExists
    <3> QED BY <3>2
  <2>2. ~\A r \in odd : b.rows[r] = 0
    <3>1. first \in 1..b.n /\ b.rows[first] > 0 /\ b.rows[first] # 0
      <4> HIDE DEF first
      <4> QED BY <1>1, <2>1
    <3> HIDE DEF first
    <3> QED BY <3>1, <2>1
  <2>3. SplitDecodes(b) \in {0, first - 1}
    <3> HIDE DEF first
    <3>1. SplitDecodes(b) = IF b.rows[1] > Threshold THEN 0 ELSE first - 1
      BY <1>5, <2>2 DEF SplitDecodes, first
    <3> QED BY <3>1
  <2>4. NumDecodes(b) = first - 1
    BY <1>2, <2>3
  <2>5. \A r \in 1..b.n : r < first => b.rows[r] = b.rows[1]
    <3> HIDE DEF first
    <3>1. \A r \in 1..b.n : r \in odd => first <= r
      BY <2>1
    <3>2. first \in Int
      BY <1>1, <2>1
    <3> QED BY <1>1, <3>1, <3>2
  <2>6. first \in Int
    <3> HIDE DEF first
    <3> QED BY <1>1, <2>1
  <2> HIDE DEF first, odd
  <2>7. \A r \in 1..NumDecodes(b) : r \in 1..b.n /\ r < first
    BY <1>1, <1>2, <2>4, <2>6
  <2> QED BY <2>5, <2>7
<1> QED BY <1>3, <1>4, <1>5

(* An eager step hands the run() of its wrapper as many query rows per     *)
(* request as were planned.                                                *)
LEMMA EagerRunAccepts ==
  ASSUME Configured, NEW b, WellFormed(b), ~b.replay,
         NumDecodes(b) # 0 => wrappers[DecodeWrapper(b)].qlen = DecodeQLen(b)
  PROVE  RunAccepts(b)
<1> SUFFICES ASSUME NumDecodes(b) # 0
             PROVE  NumDecodeTokens(b) \div NumDecodes(b) = DecodeQLen(b)
  BY DEF RunAccepts
<1> DEFINE nd == NumDecodes(b)
           q == b.rows[1]
           rows == [r \in 1..nd |-> b.rows[r]]
<1>1. /\ b.n \in 1..MaxReqs /\ b.rows \in [1..b.n -> 0..MaxQueryLen]
      /\ nd \in 1..b.n /\ q \in 1..MaxQueryLen
      /\ b.tokens = Span(b.rows, b.n)
  BY NumDecodesBounded DEF WellFormed
<1>2. \A r \in 1..nd : b.rows[r] = q
  BY EagerDecodesUniform
<1>3. NumDecodeTokens(b) = nd * q
  <2>1. NumDecodeTokens(b) = Span(b.rows, nd)
    BY <1>1 DEF NumDecodeTokens
  <2>2. Span(b.rows, nd) = nd * q
    <3> HIDE DEF nd, q
    <3>1. nd \in Nat
      BY <1>1
    <3> QED BY <3>1, <1>1, <1>2, UniformSpan
  <2> QED BY <2>1, <2>2
<1>4. DecodeQLen(b) = q
  <2>1. /\ nd \in Nat \ {0} /\ rows \in [1..nd -> 0..MaxQueryLen]
        /\ \A r \in 1..nd : rows[r] = q
    <3> HIDE DEF nd, q
    <3> QED BY <1>1, <1>2
  <2>2. \E r \in 1..nd : Longest(rows) = rows[r]
    <3> HIDE DEF nd, rows
    <3> QED BY <2>1, LongestIsMaximum
  <2>3. Longest(rows) = q
    <3> HIDE DEF nd, rows, q
    <3> QED BY <2>1, <2>2
  <2> QED BY <2>3 DEF DecodeQLen
<1>5. \A x, y \in Nat : x > 0 => (x * y) \div x = y
  BY SMT
<1> HIDE DEF nd, q
<1>6. nd \in Nat /\ nd > 0 /\ q \in Nat
  BY <1>1
<1>7. (nd * q) \div nd = q
  BY <1>5, <1>6
<1> QED BY <1>3, <1>4, <1>7 DEF nd

(* Between build() and the forward, the batch is the runner's and its      *)
(* wrapper is planned for its query length.                                *)
BatchInv ==
  launched < built =>
    /\ WellFormed(batch)
    /\ NumDecodes(batch) # 0 => wrappers[DecodeWrapper(batch)].qlen = DecodeQLen(batch)

RunInv == BatchInv /\ RunNeverRaises

LEMMA InitRun == Init => RunInv
BY DEF Init, RunInv, BatchInv, RunNeverRaises

(* Routing depends on the configuration and the batch alone. *)
LEMMA RoutingStable ==
  ASSUME NEW b, batch' = b, UNCHANGED <<numSpec, graphs>>
  PROVE  /\ WellFormed(batch)' <=> WellFormed(b)
         /\ NumDecodes(batch)' = NumDecodes(b)
         /\ DecodeWrapper(batch)' = DecodeWrapper(b)
         /\ DecodeQLen(batch)' = DecodeQLen(b)
<1>1. PlannedQLen' = PlannedQLen /\ Threshold' = Threshold
      /\ DecodeCudagraphMaxBs' = DecodeCudagraphMaxBs
  BY DEF PlannedQLen, Threshold, DecodeCudagraphMaxBs
<1>2. WellFormed(batch)' <=> WellFormed(b)
  BY <1>1 DEF WellFormed
<1>3. NumDecodes(batch)' = NumDecodes(b)
  <2>1. HasCompactSpecDecode(batch)' <=> HasCompactSpecDecode(b)
    BY <1>1 DEF HasCompactSpecDecode
  <2>2. SplitDecodes(batch)' = SplitDecodes(b)
    BY <1>1 DEF SplitDecodes
  <2> QED BY <2>1, <2>2 DEF NumDecodes
<1>4. DecodeQLen(batch)' = DecodeQLen(b)
  BY <1>3 DEF DecodeQLen
<1>5. DecodeWrapper(batch)' = DecodeWrapper(b)
  <2>1. NumDecodeTokens(batch)' = NumDecodeTokens(b)
    BY <1>3 DEF NumDecodeTokens
  <2>2. PersistentEligible(batch)' <=> PersistentEligible(b)
    BY <1>1, <1>3, <1>4, <2>1 DEF PersistentEligible
  <2> QED BY <1>3, <2>2 DEF DecodeWrapper
<1> QED BY <1>2, <1>3, <1>4, <1>5

LEMMA NextRun ==
  ASSUME TypeOK, CpuInv, RunInv, [Next]_vars
  PROVE  RunInv'
<1>1. CASE UNCHANGED <<numSpec, graphs, batch, built, launched, wrappers, err>>
  <2>1. PICK b : b = batch
    OBVIOUS
  <2>2. batch' = b
    BY <1>1, <2>1
  <2>3. /\ WellFormed(batch)' <=> WellFormed(b)
        /\ NumDecodes(batch)' = NumDecodes(b)
        /\ DecodeWrapper(batch)' = DecodeWrapper(b)
        /\ DecodeQLen(batch)' = DecodeQLen(b)
    BY <1>1, <2>2, RoutingStable
  <2> QED BY <1>1, <2>1, <2>3 DEF RunInv, BatchInv, RunNeverRaises
<1>2. CASE \E b \in CaptureReqs : CaptureGraph(b)
  <2>1. built = 0 /\ launched' = launched /\ built' = built /\ err' = err
    BY <1>2 DEF CaptureGraph
  <2>2. ~(launched' < built')
    BY <2>1, TypedCounters DEF Counters
  <2> QED BY <2>1, <2>2 DEF RunInv, BatchInv, RunNeverRaises
<1>3. CASE Build
  <2>1. Configured
    BY TypedIsConfigured
  <2>2. PICK b \in RunnerBatches :
          PlanError(b) = "none" =>
            /\ batch' = b /\ err' = err
            /\ wrappers' = [w \in DecodeWrappers |->
                              IF w \in JobOf(b).decode
                                THEN [first |-> FALSE, qlen |-> DecodeQLen(b)]
                                ELSE wrappers[w]]
    BY <1>3 DEF Build
  <2>3. WellFormed(b) /\ JobSound(JobOf(b))
    BY <2>1, BatchesWellFormed, JobsOfBatches
  <2>4. /\ batch' = b /\ err' = err
        /\ wrappers' = [w \in DecodeWrappers |->
                          IF w \in JobOf(b).decode
                            THEN [first |-> FALSE, qlen |-> DecodeQLen(b)]
                            ELSE wrappers[w]]
    BY <2>1, <2>2, <2>3, PlanSucceeds DEF CpuInv
  <2>5. UNCHANGED <<numSpec, graphs>>
    BY <1>3 DEF Build
  <2>6. ASSUME NumDecodes(b) # 0
        PROVE  wrappers'[DecodeWrapper(b)].qlen = DecodeQLen(b)
    <3>1. DecodeWrapper(b) \in JobOf(b).decode
      BY <2>6 DEF JobOf
    <3>2. DecodeWrapper(b) \in DecodeWrappers
      BY <2>3, <3>1 DEF JobSound, Jobs
    <3> QED BY <2>4, <3>1, <3>2
  <2>7. BatchInv'
    <3>1. /\ WellFormed(batch)' <=> WellFormed(b)
          /\ NumDecodes(batch)' = NumDecodes(b)
          /\ DecodeWrapper(batch)' = DecodeWrapper(b)
          /\ DecodeQLen(batch)' = DecodeQLen(b)
      BY <2>4, <2>5, RoutingStable
    <3> QED BY <2>3, <2>6, <3>1 DEF BatchInv
  <2> QED BY <2>4, <2>7 DEF RunInv, RunNeverRaises
<1>4. CASE Launch
  <2>1. launched < built
    BY <1>4 DEF Launch
  <2>2. batch.replay \/ RunAccepts(batch)
    <3>1. CASE ~batch.replay
      <4>1. PICK b : b = batch
        OBVIOUS
      <4>2. RunAccepts(b)
        BY <2>1, <3>1, <4>1, TypedIsConfigured, EagerRunAccepts DEF RunInv, BatchInv
      <4> QED BY <4>1, <4>2
    <3> QED BY <3>1
  <2>3. launched' = built /\ err' = err /\ built' = built
    BY <1>4, <2>2 DEF Launch
  <2>4. ~(launched' < built')
    BY <2>3, TypedCounters DEF Counters
  <2> QED BY <2>3, <2>4 DEF RunInv, BatchInv, RunNeverRaises
<1>5. CASE Stream
  BY <1>1, <1>5 DEF Stream, CopyIndptr, CopyPageIndices, CopyLastPageLen, UploadPlan,
                    Attend, cpuVars
<1>6. CASE Done \/ UNCHANGED vars
  BY <1>1, <1>6 DEF Done, vars
<1> QED BY <1>2, <1>3, <1>4, <1>5, <1>6 DEF Next

LEMMA RunCorrect == Spec => []RunInv
BY InitRun, NextRun, TypeCorrect, CpuCorrect, PTL DEF Spec

(* The eager run() never finds another number of query rows than planned.  *)
THEOREM RunIsSafe == Spec => []RunNeverRaises
BY RunCorrect, PTL DEF RunInv

(* build() never raises: whatever batches the runner hands over, no        *)
(* persistent wrapper is asked for another query length than it froze and  *)
(* no padding row reaches a full plan().                                   *)
THEOREM BuildIsSafe == Spec => []BuildNeverRaises
BY CpuCorrect, PTL DEF CpuInv

(* A replayed graph reads the wrapper that build() re-planned.             *)
THEOREM ReplayIsPlanned == Spec => []ReplayReadsPlannedWrapper
<1>1. CpuInv => ReplayReadsPlannedWrapper
  BY DEF CpuInv, JobsInv, JobSound, ReplayReadsPlannedWrapper
<1> QED BY <1>1, CpuCorrect, PTL

-----------------------------------------------------------------------------
(* The stream: what it has copied for the step it is in.                   *)

(* The V1 runner keeps build() at most one step ahead of the stream, and   *)
(* lets it start only when the copies of the step before are done.         *)
V1Bound ==
  ~useV2 => /\ built <= pos.step + 1
            /\ pos.op # "attend" => built <= pos.step

(* The reused CPU buffers hold the latest build's data. *)
HostInv ==
  /\ \A f \in {"mirror", "indptr", "last"} : host[f] = built
  /\ built > 0 => \A w \in Planned(jobs[built]) : hostPlan[w] = built

(* The builder's GPU buffers hold the data of the step in progress, from   *)
(* the copy that writes them to the kernels that read them.                *)
StreamInv ==
  /\ pos.op # "indptr" => pos.step <= built /\ gpu.indptr = pos.step
  /\ pos.op \in {"last", "plan", "attend"} => gpu.indices = pos.step
  /\ pos.op \in {"plan", "attend"} => gpu.last = pos.step

(* When the kernels may run, the wrappers of the step hold its data too.   *)
WrapperReady(w) ==
  /\ w \in {Dynamic, Prefill} => own[w].indptr = pos.step /\ own[w].last = pos.step
  /\ ~useV2 => gpuPlan[w] = pos.step

OwnInv ==
  pos.op = "attend" => \A w \in Planned(jobs[pos.step]) : WrapperReady(w)

ViewsInv == KernelsReadOwnMetadata /\ KernelsReadOwnPlan

GpuInv == V1Bound /\ HostInv /\ StreamInv /\ OwnInv /\ ViewsInv

(* A copy executes with the data of its own step: from a pinned buffer,    *)
(* because the buffer has not been rewritten; from a pageable one, because *)
(* it was staged.                                                          *)
LEMMA SourceIsOwnStep ==
  ASSUME Counters, V1Bound, HostInv, pos.step <= built, pos.op # "attend",
         NEW buf \in {"mirror", "indptr", "last"}
  PROVE  Source(buf) = pos.step
<1>1. CASE PinnedBuffers
  <2>1. built = pos.step
    BY <1>1 DEF PinnedBuffers, V1Bound, Counters
  <2>2. host[buf] = built
    BY DEF HostInv
  <2> QED BY <1>1, <2>1, <2>2 DEF Source
<1>2. CASE ~PinnedBuffers
  BY <1>2 DEF Source
<1> QED BY <1>1, <1>2

LEMMA InitGpu == Init => GpuInv
<1> SUFFICES ASSUME Init PROVE GpuInv
  OBVIOUS
<1>1. V1Bound /\ HostInv /\ StreamInv /\ OwnInv
  BY DEF Init, V1Bound, HostInv, StreamInv, OwnInv
<1>2. ViewsInv
  <2>1. Len(views) = 0
    BY DEF Init
  <2> QED BY <2>1 DEF ViewsInv, KernelsReadOwnMetadata, KernelsReadOwnPlan
<1> QED BY <1>1, <1>2 DEF GpuInv

LEMMA BuildGpu ==
  ASSUME TypeOK, GpuInv, Build
  PROVE  GpuInv'
<1>1. /\ UNCHANGED <<useV2, gpu, own, gpuPlan, pos, views>>
      /\ InputBuffersFree
  BY DEF Build, gpuVars
<1>2. PICK b \in RunnerBatches :
        \/ /\ built' = built + 1
           /\ jobs' = Append(jobs, JobOf(b))
           /\ host' = [mirror |-> built + 1, indptr |-> built + 1, last |-> built + 1]
           /\ hostPlan' = [w \in AllWrappers |->
                             IF w \in Planned(JobOf(b)) THEN built + 1 ELSE hostPlan[w]]
        \/ UNCHANGED <<built, jobs, host, hostPlan>>
  BY DEF Build
<1>3. ViewsInv'
  BY <1>1 DEF GpuInv, ViewsInv, KernelsReadOwnMetadata, KernelsReadOwnPlan
<1>4. CASE UNCHANGED <<built, jobs, host, hostPlan>>
  <2>1. V1Bound' /\ HostInv' /\ StreamInv'
    BY <1>1, <1>4 DEF GpuInv, V1Bound, HostInv, StreamInv, Planned, Prefill
  <2>2. OwnInv'
    BY <1>1, <1>4 DEF GpuInv, OwnInv, WrapperReady, Planned, Prefill, Dynamic
  <2> QED BY <1>3, <2>1, <2>2 DEF GpuInv
<1>5. CASE ~UNCHANGED <<built, jobs, host, hostPlan>>
  <2>0. /\ built' = built + 1
        /\ jobs' = Append(jobs, JobOf(b))
        /\ host' = [mirror |-> built + 1, indptr |-> built + 1, last |-> built + 1]
        /\ hostPlan' = [w \in AllWrappers |->
                          IF w \in Planned(JobOf(b)) THEN built + 1 ELSE hostPlan[w]]
    BY <1>2, <1>5
  <2>1. Counters
    BY TypedCounters
  <2>2. V1Bound'
    BY <1>1, <2>0, <2>1 DEF V1Bound, InputBuffersFree, Finished, Counters
  <2>3. HostInv'
    <3>1. jobs'[built'] = JobOf(b)
      BY <2>0, <2>1 DEF Counters
    <3>2. Planned(JobOf(b)) \subseteq AllWrappers
      BY TypedIsConfigured, BatchesWellFormed, JobsOfBatches DEF JobSound
    <3>3. \A w \in Planned(JobOf(b)) : hostPlan'[w] = built'
      BY <2>0, <3>2
    <3>4. \A w \in Planned(jobs'[built']) : hostPlan'[w] = built'
      BY <3>1, <3>3
    <3>5. \A f \in {"mirror", "indptr", "last"} : host'[f] = built'
      BY <2>0
    <3> QED BY <3>4, <3>5 DEF HostInv, Planned, Prefill
  <2>4. StreamInv'
    BY <1>1, <2>0, <2>1 DEF GpuInv, StreamInv, Counters
  <2>5. OwnInv'
    <3>1. ASSUME pos.op = "attend" PROVE jobs'[pos.step] = jobs[pos.step]
      BY <3>1, <2>0, <2>1 DEF GpuInv, StreamInv, Counters
    <3> QED BY <1>1, <3>1 DEF GpuInv, OwnInv, WrapperReady, Planned, Prefill, Dynamic
  <2> QED BY <1>3, <2>2, <2>3, <2>4, <2>5 DEF GpuInv
<1> QED BY <1>4, <1>5

LEMMA CopiesGpu ==
  ASSUME TypeOK, GpuInv, CopyIndptr \/ CopyPageIndices \/ CopyLastPageLen
  PROVE  GpuInv'
<1>1. UNCHANGED <<useV2, built, jobs, host, hostPlan, own, gpuPlan, views>>
      /\ pos.step <= built
  BY DEF CopyIndptr, CopyPageIndices, CopyLastPageLen, cpuVars, At
<1>2. Counters
  BY TypedCounters
<1>3. ViewsInv' /\ HostInv'
  BY <1>1 DEF GpuInv, ViewsInv, KernelsReadOwnMetadata, KernelsReadOwnPlan, HostInv,
              Planned, Prefill
<1>g. DOMAIN gpu = {"indptr", "indices", "last"} /\ DOMAIN pos = {"step", "op"}
  BY DEF TypeOK
<1>4. CASE CopyIndptr
  <2>1. pos.op = "indptr" /\ pos'.op = "indices" /\ pos'.step = pos.step
    BY <1>4, <1>g DEF CopyIndptr, At, Advance
  <2>2. gpu'.indptr = pos.step
    BY <1>4, <1>g, <1>1, <1>2, <2>1, SourceIsOwnStep DEF CopyIndptr, GpuInv
  <2>3. StreamInv' /\ OwnInv'
    BY <1>1, <2>1, <2>2 DEF StreamInv, OwnInv
  <2>4. V1Bound'
    BY <1>1, <1>2, <2>1 DEF GpuInv, V1Bound, Counters
  <2> QED BY <1>3, <2>3, <2>4 DEF GpuInv
<1>5. CASE CopyPageIndices
  <2>1. pos.op = "indices" /\ pos'.op = "last" /\ pos'.step = pos.step
    BY <1>5, <1>g DEF CopyPageIndices, At, Advance
  <2>2. gpu'.indptr = pos.step /\ gpu'.indices = pos.step
    BY <1>5, <1>g, <2>1 DEF CopyPageIndices, GpuInv, StreamInv
  <2>3. StreamInv' /\ OwnInv'
    BY <1>1, <2>1, <2>2 DEF StreamInv, OwnInv
  <2>4. V1Bound'
    BY <1>1, <1>2, <2>1 DEF GpuInv, V1Bound, Counters
  <2> QED BY <1>3, <2>3, <2>4 DEF GpuInv
<1>6. CASE CopyLastPageLen
  <2>1. pos.op = "last" /\ pos'.op = "plan" /\ pos'.step = pos.step
    BY <1>6, <1>g DEF CopyLastPageLen, At, Advance
  <2>2. gpu'.last = pos.step
    BY <1>6, <1>g, <1>1, <1>2, <2>1, SourceIsOwnStep DEF CopyLastPageLen, GpuInv
  <2>3. gpu'.indptr = pos.step /\ gpu'.indices = pos.step
    BY <1>6, <1>g, <2>1 DEF CopyLastPageLen, GpuInv, StreamInv
  <2>4. StreamInv' /\ OwnInv'
    BY <1>1, <2>1, <2>2, <2>3 DEF StreamInv, OwnInv
  <2>5. V1Bound'
    BY <1>1, <1>2, <2>1 DEF GpuInv, V1Bound, Counters
  <2> QED BY <1>3, <2>4, <2>5 DEF GpuInv
<1> QED BY <1>4, <1>5, <1>6

LEMMA UploadGpu ==
  ASSUME TypeOK, GpuInv, JobsInv, UploadPlan
  PROVE  GpuInv'
<1> DEFINE job == jobs[pos.step]
           fresh == {w \in Planned(job) : w \in {Dynamic, Prefill}}
           persistent == job.original /\ job.decode # {Dynamic}
<1>1. /\ gpuPlan' = [w \in AllWrappers |->
                       IF w \in Planned(job) THEN hostPlan[w] ELSE gpuPlan[w]]
      /\ own' = [w \in {Dynamic, Prefill} |->
                   IF w \in fresh
                     THEN [indptr |-> Source("indptr"), last |-> Source("last")]
                     ELSE own[w]]
      /\ gpu' = IF persistent
                  THEN [gpu EXCEPT !.indptr = Source("indptr"), !.last = Source("last")]
                  ELSE gpu
      /\ pos' = [pos EXCEPT !.op = "attend"]
      /\ pos.op = "plan" /\ pos.step <= built
  BY DEF UploadPlan, Advance, At
<1>2. UNCHANGED <<useV2, built, jobs, host, hostPlan, views>>
  BY DEF UploadPlan, cpuVars
<1>3. Counters
  BY TypedCounters
<1>4. pos'.op = "attend" /\ pos'.step = pos.step
  BY <1>1 DEF TypeOK
<1>5. Source("indptr") = pos.step /\ Source("last") = pos.step
  BY <1>1, <1>3, SourceIsOwnStep DEF GpuInv
<1>6. gpu'.indptr = pos.step /\ gpu'.indices = pos.step /\ gpu'.last = pos.step
  <2>1. /\ gpu.indptr = pos.step /\ gpu.indices = pos.step /\ gpu.last = pos.step
        /\ gpu \in [{"indptr", "indices", "last"} -> Tag]
    BY <1>1 DEF GpuInv, StreamInv, TypeOK
  <2> HIDE DEF persistent
  <2> QED BY <1>1, <1>5, <2>1
<1>7. StreamInv' /\ HostInv' /\ ViewsInv' /\ V1Bound'
  <2>1. StreamInv'
    BY <1>1, <1>2, <1>4, <1>6 DEF StreamInv
  <2>2. HostInv' /\ ViewsInv'
    BY <1>2 DEF GpuInv, ViewsInv, KernelsReadOwnMetadata, KernelsReadOwnPlan, HostInv,
                Planned, Prefill
  <2>3. V1Bound'
    BY <1>1, <1>2, <1>3, <1>4 DEF GpuInv, V1Bound, Counters
  <2> QED BY <2>1, <2>2, <2>3
<1>8. OwnInv'
  <2>1. ASSUME NEW w \in Planned(job) PROVE WrapperReady(w)'
    <3>1. ASSUME w \in {Dynamic, Prefill}
          PROVE  own'[w].indptr = pos.step /\ own'[w].last = pos.step
      BY <1>1, <1>5, <2>1, <3>1
    <3>2. ASSUME ~useV2 PROVE gpuPlan'[w] = pos.step
      <4>1. built = pos.step /\ built > 0
        BY <3>2, <1>1, <1>3 DEF GpuInv, V1Bound, Counters
      <4>2. hostPlan[w] = pos.step
        BY <2>1, <4>1 DEF GpuInv, HostInv
      <4>3. w \in AllWrappers
        BY <1>1, <1>3, <2>1 DEF JobsInv, JobSound, Counters
      <4> HIDE DEF job
      <4> QED BY <1>1, <2>1, <4>2, <4>3
    <3> QED BY <1>2, <1>4, <3>1, <3>2 DEF WrapperReady, Dynamic, Prefill
  <2> QED BY <1>2, <1>4, <2>1 DEF OwnInv, Planned, Prefill
<1> QED BY <1>7, <1>8 DEF GpuInv

LEMMA AttendGpu ==
  ASSUME TypeOK, GpuInv, JobsInv, Attend
  PROVE  GpuInv'
<1> DEFINE job == jobs[pos.step]
           ws == KernelWrappers(job)
           view == [meta |-> UNION {MetadataRead(w) : w \in ws},
                    plan |-> {gpuPlan[w] : w \in ws}]
<1>1. /\ views' = Append(views, view)
      /\ pos' = [step |-> pos.step + 1, op |-> "indptr"]
      /\ pos.op = "attend" /\ pos.step <= launched
  BY DEF Attend, At, ForwardEnqueued
<1>2. UNCHANGED <<useV2, built, jobs, host, hostPlan>>
  BY DEF Attend, cpuVars
<1>3. Counters
  BY TypedCounters
<1>4. ws = Planned(job) /\ ws # {}
  <2>1. JobSound(job)
    BY <1>1, <1>3 DEF JobsInv, Counters
  <2> HIDE DEF job
  <2> QED BY <2>1 DEF JobSound, KernelWrappers
<1>5. \A w \in ws : MetadataRead(w) = {pos.step}
  <2>1. gpu.indptr = pos.step /\ gpu.indices = pos.step /\ gpu.last = pos.step
    BY <1>1 DEF GpuInv, StreamInv
  <2>2. \A w \in ws : WrapperReady(w)
    BY <1>1, <1>4 DEF GpuInv, OwnInv
  <2> QED BY <2>1, <2>2 DEF MetadataRead, WrapperReady
<1>6. view.meta = {pos.step}
  <2> HIDE DEF ws
  <2> QED BY <1>4, <1>5
<1>7. ~useV2 => view.plan = {pos.step}
  <2>1. \A w \in ws : WrapperReady(w)
    BY <1>1, <1>4 DEF GpuInv, OwnInv
  <2> HIDE DEF ws
  <2> QED BY <1>4, <2>1 DEF WrapperReady
<1>8. ViewsInv'
  <2>1. /\ Len(views') = pos.step /\ views'[pos.step] = view
        /\ \A k \in 1..(pos.step - 1) : views'[k] = views[k]
        /\ Len(views) = pos.step - 1
    <3>1. views \in Seq([meta : SUBSET Tag, plan : SUBSET Tag])
      BY DEF TypeOK
    <3> HIDE DEF view
    <3> QED BY <1>1, <1>3, <3>1 DEF Counters
  <2>2. \A k \in 1..pos.step : k \in 1..(pos.step - 1) \/ k = pos.step
    BY <1>3 DEF Counters
  <2> HIDE DEF view
  <2> QED BY <1>2, <1>6, <1>7, <2>1, <2>2
          DEF GpuInv, ViewsInv, KernelsReadOwnMetadata, KernelsReadOwnPlan
<1>9. StreamInv' /\ OwnInv' /\ HostInv' /\ V1Bound'
  <2>1. StreamInv' /\ OwnInv'
    BY <1>1 DEF StreamInv, OwnInv
  <2>2. HostInv'
    BY <1>2 DEF GpuInv, HostInv, Planned, Prefill
  <2>3. V1Bound'
    BY <1>1, <1>2, <1>3 DEF GpuInv, V1Bound, Counters
  <2> QED BY <2>1, <2>2, <2>3
<1> QED BY <1>8, <1>9 DEF GpuInv

LEMMA NextGpu ==
  ASSUME TypeOK, CpuInv, GpuInv, [Next]_vars
  PROVE  GpuInv'
<1>1. CASE UNCHANGED <<useV2, built, jobs, host, hostPlan, gpu, own, gpuPlan, pos, views>>
  <2>1. V1Bound' /\ HostInv' /\ StreamInv'
    BY <1>1 DEF GpuInv, V1Bound, HostInv, StreamInv, Planned, Prefill
  <2>2. OwnInv' /\ ViewsInv'
    BY <1>1 DEF GpuInv, OwnInv, WrapperReady, Planned, Prefill, Dynamic,
                ViewsInv, KernelsReadOwnMetadata, KernelsReadOwnPlan
  <2> QED BY <2>1, <2>2 DEF GpuInv
<1>2. CASE \E b \in CaptureReqs : CaptureGraph(b)
  BY <1>1, <1>2 DEF CaptureGraph, gpuVars
<1>3. CASE Build
  BY <1>3, BuildGpu
<1>4. CASE Launch
  BY <1>1, <1>4 DEF Launch, gpuVars
<1>5. CASE Stream
  BY <1>5, CopiesGpu, UploadGpu, AttendGpu DEF Stream, CpuInv
<1>6. CASE Done \/ UNCHANGED vars
  BY <1>1, <1>6 DEF Done, vars
<1> QED BY <1>2, <1>3, <1>4, <1>5, <1>6 DEF Next

(* GpuInv is inductive relative to the types and to CpuInv. *)
LEMMA GpuCorrect == Spec => []GpuInv
BY InitGpu, NextGpu, TypeCorrect, CpuCorrect, PTL DEF Spec

(* However far the CPU runs ahead, and under either runner, the kernels of *)
(* a step read the paged-KV metadata of that step.                         *)
THEOREM MetadataIsOwn == Spec => []KernelsReadOwnMetadata
BY GpuCorrect, PTL DEF GpuInv, ViewsInv

(* Under the V1 runner they also run from that step's split-KV plan.       *)
THEOREM PlanIsOwn == Spec => []KernelsReadOwnPlan
BY GpuCorrect, PTL DEF GpuInv, ViewsInv

-----------------------------------------------------------------------------
(* What remains of that under the V2 runner, whose build() may overwrite   *)
(* the plan of a wrapper before it has been uploaded.                      *)

NoOlder(plan, k) == \A w \in Planned(jobs[k]) : k <= plan[w]

PlanInv ==
  /\ \A w \in AllWrappers : hostPlan[w] <= built /\ gpuPlan[w] <= built
  /\ \A k \in 1..built : NoOlder(hostPlan, k)
  /\ pos.op = "attend" => pos.step <= built /\ NoOlder(gpuPlan, pos.step)
  /\ KernelsReadNoOlderPlan

LEMMA InitPlan == Init => PlanInv
<1> SUFFICES ASSUME Init PROVE PlanInv
  OBVIOUS
<1>1. /\ Len(views) = 0 /\ built = 0 /\ pos.op # "attend"
      /\ \A w \in AllWrappers : hostPlan[w] = 0 /\ gpuPlan[w] = 0
  BY DEF Init
<1> QED BY <1>1 DEF PlanInv, KernelsReadNoOlderPlan

(* A build plans wrappers for its own step, and so for no older one.       *)
LEMMA BuildPlan ==
  ASSUME TypeOK, CpuInv, PlanInv, Build
  PROVE  PlanInv'
<1>1. /\ UNCHANGED <<gpuPlan, pos, views>> /\ Counters
      /\ hostPlan \in [AllWrappers -> 0..MaxSteps] /\ gpuPlan \in [AllWrappers -> 0..MaxSteps]
  BY TypedCounters DEF Build, gpuVars, TypeOK, Tag
<1>2. PICK b \in RunnerBatches :
        \/ /\ built' = built + 1
           /\ jobs' = Append(jobs, JobOf(b))
           /\ hostPlan' = [w \in AllWrappers |->
                             IF w \in Planned(JobOf(b)) THEN built + 1 ELSE hostPlan[w]]
        \/ UNCHANGED <<built, jobs, hostPlan>>
  BY DEF Build
<1>3. CASE UNCHANGED <<built, jobs, hostPlan>>
  BY <1>1, <1>3 DEF PlanInv, NoOlder, KernelsReadNoOlderPlan, Planned, Prefill, AllWrappers
<1>4. CASE /\ built' = built + 1
           /\ jobs' = Append(jobs, JobOf(b))
           /\ hostPlan' = [w \in AllWrappers |->
                             IF w \in Planned(JobOf(b)) THEN built + 1 ELSE hostPlan[w]]
  <2>1. /\ jobs'[built + 1] = JobOf(b)
        /\ \A k \in 1..built : jobs'[k] = jobs[k]
    <3>1. JobOf(b) \in Jobs
      BY TypedIsConfigured, BatchesWellFormed, JobsOfBatches DEF JobSound
    <3>2. jobs \in Seq(Jobs) /\ Len(jobs) = built
      BY <1>1 DEF Counters
    <3> QED BY <1>4, <3>1, <3>2, AppendProperties
  <2>2. Planned(JobOf(b)) \subseteq AllWrappers
    BY TypedIsConfigured, BatchesWellFormed, JobsOfBatches DEF JobSound
  <2>3. ASSUME NEW k \in 1..built, NEW w \in Planned(jobs[k])
        PROVE  k <= hostPlan'[w]
    <3>1. w \in AllWrappers /\ k <= hostPlan[w] /\ k <= built + 1
      BY <1>1, <2>3 DEF CpuInv, JobsInv, JobSound, Counters, PlanInv, NoOlder
    <3> QED BY <1>4, <3>1
  <2>4. ASSUME NEW w \in Planned(JobOf(b))
        PROVE  built + 1 <= hostPlan'[w]
    BY <1>1, <1>4, <2>2, <2>4 DEF Counters
  <2>5. \A k \in 1..built' : NoOlder(hostPlan, k)'
    <3>1. \A k \in 1..built' : k \in 1..built \/ k = built + 1
      BY <1>1, <1>4 DEF Counters
    <3> QED BY <2>1, <2>3, <2>4, <3>1 DEF NoOlder, Planned, Prefill
  <2>6. pos.op = "attend" => pos.step <= built' /\ NoOlder(gpuPlan, pos.step)'
    BY <1>1, <1>4, <2>1 DEF PlanInv, NoOlder, Counters, Planned, Prefill
  <2>7. KernelsReadNoOlderPlan'
    <3>1. built \in Nat /\ \A k \in 1..Len(views) : views[k].plan \subseteq k..built
      BY <1>1 DEF PlanInv, KernelsReadNoOlderPlan, Counters
    <3> QED BY <1>1, <1>4, <3>1 DEF KernelsReadNoOlderPlan
  <2>8. \A w \in AllWrappers : hostPlan'[w] <= built' /\ gpuPlan'[w] <= built'
    BY <1>1, <1>4 DEF PlanInv, Counters
  <2> QED BY <1>1, <2>5, <2>6, <2>7, <2>8 DEF PlanInv, AllWrappers
<1> QED BY <1>2, <1>3, <1>4

(* An upload copies the latest plan of each wrapper of its step.           *)
LEMMA UploadsPlan ==
  ASSUME TypeOK, CpuInv, PlanInv, UploadPlan
  PROVE  PlanInv'
<1>1. /\ UNCHANGED <<built, jobs, hostPlan, views>> /\ Counters
      /\ pos.step \in 1..built /\ pos'.step = pos.step /\ pos'.op = "attend"
  BY TypedCounters DEF UploadPlan, cpuVars, At, Advance, Counters, TypeOK
<1>2. gpuPlan' = [w \in AllWrappers |->
                    IF w \in Planned(jobs[pos.step]) THEN hostPlan[w] ELSE gpuPlan[w]]
  BY DEF UploadPlan
<1>3. Planned(jobs[pos.step]) \subseteq AllWrappers
  BY <1>1 DEF CpuInv, JobsInv, JobSound, Counters
<1>4. \A w \in Planned(jobs[pos.step]) : pos.step <= gpuPlan'[w]
  BY <1>1, <1>2, <1>3 DEF PlanInv, NoOlder
<1>5. \A w \in AllWrappers : hostPlan'[w] <= built' /\ gpuPlan'[w] <= built'
  BY <1>1, <1>2 DEF PlanInv
<1> QED BY <1>1, <1>4, <1>5
        DEF PlanInv, NoOlder, KernelsReadNoOlderPlan, Planned, Prefill, AllWrappers

(* The kernels read the wrappers planned for their step.                   *)
LEMMA AttendPlan ==
  ASSUME TypeOK, CpuInv, PlanInv, Attend
  PROVE  PlanInv'
<1> DEFINE job == jobs[pos.step]
           ws == KernelWrappers(job)
           view == [meta |-> UNION {MetadataRead(w) : w \in ws},
                    plan |-> {gpuPlan[w] : w \in ws}]
<1>1. /\ views' = Append(views, view) /\ pos.op = "attend" /\ pos'.op = "indptr"
      /\ UNCHANGED <<built, jobs, hostPlan, gpuPlan>> /\ Counters /\ pos.step \in 1..built
  BY TypedCounters DEF Attend, At, cpuVars, Counters
<1>2. ws \subseteq Planned(job) /\ ws \subseteq AllWrappers
  <2>1. JobSound(job)
    BY <1>1 DEF CpuInv, JobsInv, Counters
  <2> HIDE DEF job
  <2> QED BY <2>1 DEF JobSound, KernelWrappers
<1>3. view.plan \subseteq pos.step..built
  <2>1. \A w \in ws : gpuPlan[w] \in 0..MaxSteps /\ pos.step <= gpuPlan[w] /\ gpuPlan[w] <= built
    BY <1>1, <1>2 DEF PlanInv, NoOlder, TypeOK, Tag
  <2> HIDE DEF ws
  <2> QED BY <1>1, <2>1 DEF Counters
<1>4. KernelsReadNoOlderPlan'
  <2>1. /\ Len(views') = pos.step /\ views'[pos.step] = view
        /\ \A k \in 1..(pos.step - 1) : views'[k] = views[k]
        /\ Len(views) = pos.step - 1
    <3>1. views \in Seq([meta : SUBSET Tag, plan : SUBSET Tag])
      BY DEF TypeOK
    <3> HIDE DEF view
    <3> QED BY <1>1, <3>1 DEF Counters
  <2>2. \A k \in 1..pos.step : k \in 1..(pos.step - 1) \/ k = pos.step
    BY <1>1 DEF Counters
  <2> HIDE DEF view
  <2> QED BY <1>1, <1>3, <2>1, <2>2 DEF PlanInv, KernelsReadNoOlderPlan
<1> HIDE DEF view
<1> QED BY <1>1, <1>4 DEF PlanInv, NoOlder, Planned, Prefill, AllWrappers

LEMMA NextPlan ==
  ASSUME TypeOK, CpuInv, PlanInv, [Next]_vars
  PROVE  PlanInv'
<1>1. CASE UNCHANGED <<built, jobs, hostPlan, gpuPlan, views>> /\ (pos' = pos \/ pos'.op # "attend")
  BY <1>1 DEF PlanInv, NoOlder, KernelsReadNoOlderPlan, Planned, Prefill, AllWrappers
<1>2. CASE \E b \in CaptureReqs : CaptureGraph(b)
  BY <1>1, <1>2 DEF CaptureGraph, gpuVars
<1>3. CASE Build
  BY <1>3, BuildPlan
<1>4. CASE Launch
  BY <1>1, <1>4 DEF Launch, gpuVars
<1>5. CASE CopyIndptr \/ CopyPageIndices \/ CopyLastPageLen
  BY <1>1, <1>5 DEF CopyIndptr, CopyPageIndices, CopyLastPageLen, Advance, cpuVars, TypeOK
<1>6. CASE Done \/ UNCHANGED vars
  BY <1>1, <1>6 DEF Done, vars
<1> QED BY <1>2, <1>3, <1>4, <1>5, <1>6, UploadsPlan, AttendPlan DEF Next, Stream

(* Whatever the runner, no kernel runs from a plan older than its step's:  *)
(* the race on the page-locked plan buffer only lets later plans through.  *)
THEOREM PlanIsNoOlder == Spec => []KernelsReadNoOlderPlan
<1>1. PlanInv => KernelsReadNoOlderPlan
  BY DEF PlanInv
<1> QED BY <1>1, InitPlan, NextPlan, TypeCorrect, CpuCorrect, PTL DEF Spec

-----------------------------------------------------------------------------
(* The pipeline cannot lock.                                               *)

(* The guards of the actions: the wait of the V1 runner is in the second,  *)
(* the checks of plan() and run() must not raise, and the kernels of a     *)
(* step wait for its forward.                                              *)
CaptureReady == built = 0 /\ CaptureReqs \ graphs # {}
BuildReady ==
  /\ graphs = CaptureReqs /\ launched = built /\ built < MaxSteps /\ InputBuffersFree
  /\ RunnerBatches # {} /\ \A b \in RunnerBatches : PlanError(b) = "none"
LaunchReady == launched < built /\ (batch.replay \/ RunAccepts(batch))
StreamReady == pos.step <= built /\ (pos.op = "attend" => pos.step <= launched)

CapturedFirst == graphs \subseteq CaptureReqs /\ (built > 0 => graphs = CaptureReqs)

LEMMA CapturesFirst == Spec => []CapturedFirst
<1>1. Init => CapturedFirst
  BY DEF Init, CapturedFirst
<1>2. CapturedFirst /\ [Next]_vars => CapturedFirst'
  BY DEF CapturedFirst, Next, CaptureGraph, Build, Launch, Stream, CopyIndptr, CopyPageIndices,
     CopyLastPageLen, UploadPlan, Attend, Done, vars, cpuVars
<1> QED BY <1>1, <1>2, PTL DEF Spec

(* There always is a batch to build: one request with one token. *)
LEMMA SomeBatch == RunnerBatches # {}
<1> DEFINE lens == [r \in 1..1 |-> 1]
<1>1. lens \in [1..1 -> 1..MaxQueryLen] /\ 1 \in 1..MaxReqs
  OBVIOUS
<1>2. Reordered(lens)
  BY DEF Reordered
<1>3. BatchOf(1, lens) \in RunnerBatches
  <2> HIDE DEF lens
  <2> DEFINE Batches(n) == {BatchOf(n, q) : q \in {q \in [1..n -> 1..MaxQueryLen] : Reordered(q)}}
  <2>1. BatchOf(1, lens) \in Batches(1)
    BY <1>1, <1>2
  <2>2. RunnerBatches = UNION {Batches(n) : n \in 1..MaxReqs}
    BY DEF RunnerBatches
  <2> HIDE DEF Batches
  <2> QED BY <1>1, <2>1, <2>2
<1> QED BY <1>3

(* Until every step has been executed and with whatever batches, some      *)
(* action has its guard and none of the exceptions of plan() or run()      *)
(* stops it: build(), the forward or the stream.  The V1 runner's wait for *)
(* the copies of the step before is never one for a copy that waits for    *)
(* the CPU.                                                                *)
THEOREM NeverStuck ==
  Spec => []( /\ err = "none"
              /\ \/ Finished = MaxSteps
                 \/ CaptureReady \/ BuildReady \/ LaunchReady \/ StreamReady )
<1>1. ASSUME TypeOK, CpuInv, RunInv, CapturedFirst
      PROVE  /\ err = "none"
             /\ \/ Finished = MaxSteps
                \/ CaptureReady \/ BuildReady \/ LaunchReady \/ StreamReady
  <2>1. err = "none" /\ Counters /\ Configured
    BY <1>1, TypedCounters, TypedIsConfigured
       DEF TypeOK, Errors, CpuInv, RunInv, BuildNeverRaises, RunNeverRaises
  <2>2. CASE launched < built
    <3>1. batch.replay \/ RunAccepts(batch)
      BY <1>1, <2>1, <2>2, EagerRunAccepts DEF RunInv, BatchInv
    <3> QED BY <2>1, <2>2, <3>1 DEF LaunchReady
  <2>3. CASE launched = built /\ pos.step <= built
    BY <2>1, <2>3 DEF StreamReady, Counters
  <2>4. CASE launched = built /\ built < pos.step /\ graphs # CaptureReqs
    <3>1. built = 0
      BY <1>1, <2>1, <2>4 DEF CapturedFirst, Counters
    <3>2. CaptureReqs \ graphs # {}
      BY <1>1, <2>4 DEF CapturedFirst
    <3> QED BY <2>1, <3>1, <3>2 DEF CaptureReady
  <2>5. CASE launched = built /\ built < pos.step /\ graphs = CaptureReqs
    <3>1. Finished = built
      BY <2>1, <2>5 DEF Finished, Counters
    <3>2. \A b \in RunnerBatches : PlanError(b) = "none"
      BY <1>1, <2>1, BatchesWellFormed, PlanSucceeds DEF CpuInv
    <3> QED BY <2>1, <2>5, <3>1, <3>2, SomeBatch DEF BuildReady, InputBuffersFree, Counters
  <2> QED BY <2>1, <2>2, <2>3, <2>4, <2>5 DEF Counters
<1> QED BY <1>1, TypeCorrect, CpuCorrect, RunCorrect, CapturesFirst, PTL

-----------------------------------------------------------------------------
(* Refinement.                                                             *)

LEMMA InitRefines == Init => Service!Init
BY DEF Init, Service!Init

LEMMA StepRefines ==
  ASSUME TypeOK, GpuInv, GpuInv', [Next]_vars
  PROVE  [Service!Submit \/ Service!Answer]_<<launched, [k \in 1..Len(views) |-> views[k].meta]>>
<1>1. CASE UNCHANGED <<launched, views>>
  BY <1>1
<1>2. CASE Launch
  <2>1. views' = views /\ launched < built
        /\ (launched' = built \/ launched' = launched)
    BY <1>2 DEF Launch, gpuVars
  <2>2. CASE launched' = launched
    BY <1>1, <2>1, <2>2
  <2>3. CASE launched' = built
    <3>1. launched' = launched + 1
      BY <2>1, <2>3, TypedCounters DEF Counters
    <3> QED BY <2>1, <3>1 DEF Service!Submit
  <2> QED BY <2>1, <2>2, <2>3
<1>3. CASE Attend
  <2> DEFINE answers == [k \in 1..Len(views) |-> views[k].meta]
  <2>1. Counters
    BY TypedCounters
  <2>2. launched' = launched /\ pos.step <= launched /\ Len(views) = pos.step - 1
        /\ \E v : views' = Append(views, v)
    BY <1>3, <2>1 DEF Attend, cpuVars, ForwardEnqueued, Counters
  <2>3. /\ views \in Seq([meta : SUBSET Tag, plan : SUBSET Tag])
        /\ Len(views') = Len(views) + 1 /\ Len(views) \in Nat
        /\ \A k \in 1..Len(views) : views'[k] = views[k]
    <3>1. views \in Seq([meta : SUBSET Tag, plan : SUBSET Tag])
      BY DEF TypeOK
    <3> QED BY <2>2, <3>1
  <2>4. views'[Len(views) + 1].meta = {Len(views) + 1}
    BY <2>3 DEF GpuInv, ViewsInv, KernelsReadOwnMetadata
  <2>5. Len(answers) = Len(views)
    BY <2>3
  <2>6. answers' = Append(answers, {Len(answers) + 1})
    <3>1. /\ {Len(answers) + 1} \in SUBSET Nat /\ answers \in Seq(SUBSET Nat)
          /\ answers' \in Seq(SUBSET Nat)
      <4>1. \A k \in 1..Len(views') : views'[k].meta = {k}
        BY DEF GpuInv, ViewsInv, KernelsReadOwnMetadata
      <4>2. \A k \in 1..Len(views) : views[k].meta = {k}
        BY DEF GpuInv, ViewsInv, KernelsReadOwnMetadata
      <4>3. Len(views') \in Nat
        BY <2>3
      <4> QED BY <2>3, <4>1, <4>2, <4>3
    <3>2. /\ Len(answers') = Len(answers) + 1
          /\ \A k \in 1..Len(answers) : answers'[k] = answers[k]
          /\ answers'[Len(answers) + 1] = {Len(answers) + 1}
      <4>1. Len(answers') = Len(views')
        BY <2>3
      <4> QED BY <4>1, <2>3, <2>4, <2>5
    <3> HIDE DEF answers
    <3>3. /\ Append(answers, {Len(answers) + 1}) \in Seq(SUBSET Nat)
          /\ Len(Append(answers, {Len(answers) + 1})) = Len(answers) + 1
          /\ \A k \in 1..Len(answers) :
                Append(answers, {Len(answers) + 1})[k] = answers[k]
          /\ Append(answers, {Len(answers) + 1})[Len(answers) + 1] = {Len(answers) + 1}
      BY <3>1, AppendProperties
    <3>4. \A k \in 1..(Len(answers) + 1) : k \in 1..Len(answers) \/ k = Len(answers) + 1
      BY <3>1
    <3>5. \A k \in 1..Len(answers') : answers'[k] = Append(answers, {Len(answers) + 1})[k]
      BY <3>2, <3>3, <3>4
    <3> QED BY <3>1, <3>2, <3>3, <3>5, SeqEqual
  <2>7. Len(answers) < launched
    BY <2>1, <2>2, <2>5 DEF Counters
  <2> QED BY <2>2, <2>6, <2>7 DEF Service!Answer
<1> QED BY <1>1, <1>2, <1>3
        DEF Next, CaptureGraph, Build, Stream, CopyIndptr, CopyPageIndices,
            CopyLastPageLen, UploadPlan, Done, vars, gpuVars, cpuVars

(* The pipeline implements the service: every forward that was enqueued is *)
(* answered once, in order, from its own metadata.                         *)
THEOREM PipelineRefinesService == Spec => ImplementsService
<1>1. TypeOK /\ GpuInv /\ GpuInv' /\ [Next]_vars
        => [Service!Submit \/ Service!Answer]_<<launched, [k \in 1..Len(views) |-> views[k].meta]>>
  BY StepRefines
<1> QED BY <1>1, InitRefines, TypeCorrect, GpuCorrect, PTL
        DEF Spec, ImplementsService, Service!Spec
=============================================================================
