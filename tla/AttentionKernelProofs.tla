------------------------ MODULE AttentionKernelProofs -----------------------
(***************************************************************************)
(* Proofs about AttentionKernel for any number of tiles, 2 or 4 warps and  *)
(* every set of instantiations.                                            *)
(*                                                                         *)
(* The stretch of the program between two barriers is named by the label   *)
(* it begins with (Stretch) and the tile that label belongs to (Round).    *)
(* LockStep says that warps are in the same stretch, or that one has come  *)
(* to the beginning of the next and waits.  Everything else is said of     *)
(* one warp alone: what it has in flight and which parts of shared memory  *)
(* it keeps at each label (Copies, Exchanged), and what it has folded.  A  *)
(* step that reads the parts of all warps then needs only LockStep to know *)
(* where the other warps are, and so what their parts hold.                *)
(***************************************************************************)
EXTENDS AttentionKernel, SequenceTheorems, TLAPS

Stretch(label) ==
  CASE label \in {"prologue", "top"} -> "loadV"
    [] label = "waitV" -> "loadK"
    [] label = "write" /\ Merges -> "combine"
    [] label = "done" -> "exit"
    [] OTHER -> label

Round(label, t) == IF label \in {"prologue", "top"} THEN t - 1 ELSE t

(* The stretch behind the barrier at the end of one, in two parts. *)
AfterScores(s) ==
  CASE s = "repackK" -> "scores"
    [] s = "scores" -> IF VoSplit THEN "probs" ELSE "loadK"
    [] s = "probs" -> "rowsum"
    [] s = "rowsum" -> "loadK"
    [] s = "loadK" -> IF Repack THEN "repackV" ELSE "fold"
    [] s = "repackV" -> "fold"
    [] s = "fold" -> "loadV"
    [] s = "merge" -> "combine"
    [] OTHER -> "exit"

NextStretch(s, r) ==
  IF s = "loadV"
    THEN IF r < tiles THEN (IF Repack THEN "repackK" ELSE "scores")
         ELSE (IF Merges THEN "merge" ELSE "write")
    ELSE AfterScores(s)

NextRound(s, r) == IF s = "loadV" THEN r + 1 ELSE r

StretchOf(w) == Stretch(pc[w])
RoundOf(w) == Round(pc[w], iter[w])

Beside(v, w) == StretchOf(v) = StretchOf(w) /\ RoundOf(v) = RoundOf(w)
Ahead(v, w) ==
  /\ StretchOf(w) # "exit"
  /\ pc[v] = NextStretch(StretchOf(w), RoundOf(w)) /\ Stretch(pc[v]) = pc[v]
  /\ iter[v] = NextRound(StretchOf(w), RoundOf(w)) /\ Round(pc[v], iter[v]) = iter[v]

LockStep ==
  \A v, w \in Warps :
    /\ arrived[v] <= arrived[w] + 1
    /\ arrived[v] = arrived[w] => Beside(v, w)
    /\ arrived[v] = arrived[w] + 1 => Ahead(v, w)

-----------------------------------------------------------------------------
InQK == {"repackK", "scores", "probs", "rowsum", "loadK"}
InPV == {"repackV", "fold", "loadV"}
Ending == {"merge", "combine", "write", "exit", "done"}

(* A warp's own part of Q, of a K tile and of a V tile is in place. *)
QHeld(w) == Col(w) = 0 => mem["q"][w] = Zero
KHeld(w, t) ==
  InRange(w, t) => mem["k"][w] = t /\ (Scaled => mem["ksf"][w] = t)
VHeld(w, t) ==
  mem[VRegion][w] = VTag(w, t) /\ (Scaled => mem["vsf"][w] = VTag(w, t))

(* A group is still to arrive, or has arrived and its bytes are in place.  *)
QGroup(w, g) == g \in {{}, LoadQ(w)} /\ (g = {} => QHeld(w))
KGroup(w, g, t) == g \in {{}, LoadK(w, t)} /\ (g = {} => KHeld(w, t))
VGroup(w, g, t) == g \in {{}, LoadV(w, t)} /\ (g = {} => VHeld(w, t))

Separate(n) == IF KvShared THEN 0 ELSE n

(* What a warp has in flight and holds at each label. *)
CopiesFirst(w) ==
  pc[w] = "top" /\ iter[w] = 1 =>
    /\ Len(flight[w]) = 2 + Separate(1)
    /\ QGroup(w, flight[w][1]) /\ KGroup(w, flight[w][2], 1)
    /\ ~KvShared => VGroup(w, flight[w][3], 1)
CopiesTop(w) ==
  pc[w] = "top" /\ iter[w] # 1 =>
    /\ Len(flight[w]) = 1 + Separate(1)
    /\ QHeld(w) /\ KGroup(w, flight[w][1], iter[w])
    /\ ~KvShared => VGroup(w, flight[w][2], iter[w])
CopiesQK(w) ==
  pc[w] \in InQK =>
    /\ Len(flight[w]) = Separate(1)
    /\ QHeld(w) /\ KHeld(w, iter[w])
    /\ ~KvShared => VGroup(w, flight[w][1], iter[w])
CopiesWaitV(w) ==
  pc[w] = "waitV" =>
    /\ Len(flight[w]) = 1 + Separate(1)
    /\ QHeld(w) /\ VGroup(w, flight[w][1], iter[w])
    /\ ~KvShared => KGroup(w, flight[w][2], iter[w] + 1)
CopiesPV(w) ==
  pc[w] \in InPV =>
    /\ Len(flight[w]) = Separate(1)
    /\ QHeld(w) /\ VHeld(w, iter[w])
    /\ ~KvShared => KGroup(w, flight[w][1], iter[w] + 1)
CopiesNone(w) == pc[w] \in Ending \union {"prologue"} => Len(flight[w]) = 0

Copies(w) ==
  /\ CopiesFirst(w) /\ CopiesTop(w) /\ CopiesQK(w) /\ CopiesWaitV(w)
  /\ CopiesPV(w) /\ CopiesNone(w)

(* What a warp computed for its tile, in its registers and where others    *)
(* read it.                                                                *)
Exchanged(w) ==
  /\ pc[w] \in {"repackK", "repackV"} => Repack
  /\ pc[w] \in {"probs", "rowsum"} => VoSplit
  /\ pc[w] \in {"scores", "loadK", "fold", "loadV"} /\ Repack =>
       mem["stage"][w] = iter[w]
  /\ pc[w] \in {"probs", "rowsum"} => mem["max"][w] = iter[w]
  /\ pc[w] \in {"rowsum", "loadK"} /\ VoSplit => mem["sum"][w] = iter[w]
  /\ pc[w] \in {"rowsum", "loadK", "waitV", "repackV", "fold", "loadV"} /\ VoSplit =>
       mem["p"][w] = iter[w]
  /\ pc[w] \in {"probs", "rowsum", "loadK", "waitV", "repackV", "fold"} =>
       score[w] = iter[w]

(* Which tile a warp is at, and how many it has folded. *)
Progress(w) ==
  /\ iter[w] \in 1..(tiles + 1)
  /\ pc[w] = "prologue" => iter[w] = 1
  /\ pc[w] \in InQK \union InPV \union {"waitV"} => iter[w] <= tiles
  /\ pc[w] \in Ending => iter[w] = tiles + 1
  /\ folded[w] = [i \in 1..(IF pc[w] = "loadV" THEN iter[w] ELSE iter[w] - 1) |-> i]

(* States put for the merge stay until the output is staged over them,     *)
(* which only the first warp does, and only after it has combined them.    *)
Merged(w) ==
  /\ pc[w] \in {"merge", "combine"} => Merges
  /\ /\ Merges /\ pc[w] \in {"combine", "write", "exit", "done"}
     /\ kernel.floatOut \/ pc[0] \notin {"exit", "done"}
     => mem["merge"][w] = Zero
  /\ Merges /\ Writes(w) /\ pc[w] = "write" => score[w] = Zero
  /\ output[w] # "wrong"
  /\ pc[w] \in {"exit", "done"} /\ Writes(w) => output[w] = "whole"
  /\ pc[w] \notin {"exit", "done"} => output[w] = "none"

Groups == SUBSET [region : Regions, tag : Tag]

Typed ==
  /\ kernel \in Kernels
  /\ chunk \in 0..MaxTiles /\ tiles \in 0..chunk
  /\ pc \in [Warps -> Labels]
  /\ arrived \in [Warps -> Nat]
  /\ iter \in [Warps -> 1..(MaxTiles + 1)]
  /\ flight \in [Warps -> Seq(Groups)]
  /\ mem \in [Regions -> [Warps -> Tag]]
  /\ score \in [Warps -> Tag]
  /\ folded \in [Warps -> Seq(Int)]
  /\ output \in [Warps -> {"none", "whole", "wrong"}]

BlockInv ==
  /\ Typed
  /\ LockStep
  /\ \A w \in Warps : Copies(w)
  /\ \A w \in Warps : Exchanged(w)
  /\ \A w \in Warps : Progress(w)
  /\ \A w \in Warps : Merged(w)

-----------------------------------------------------------------------------
(* The instantiation.                                                      *)

LEMMA Traits ==
  ASSUME Typed
  PROVE  /\ VoSplit \in BOOLEAN /\ Repack \in BOOLEAN /\ Scaled \in BOOLEAN
         /\ KvShared \in BOOLEAN /\ kernel.floatOut \in BOOLEAN
         /\ Repack => ~VoSplit
<1>1. kernel \in KernelTraits
  BY KernelsAssumption DEF Typed
<1> QED BY <1>1 DEF KernelTraits, VoSplit, Repack, Scaled, KvShared

LEMMA WarpsFacts == 0 \in Warps /\ Warps \subseteq 0..3 /\ NumWarps \in {2, 4}
BY WarpsAssumption DEF Warps

(* Warps merge their states only where each is a column of its own.        *)
LEMMA MergesFacts ==
  ASSUME Typed, Merges, NEW w \in Warps
  PROVE  ~VoSplit /\ Col(w) = w
<1>1. kernel \in KernelTraits /\ (IF kernel.wide THEN kernel.tileQ <= 32 ELSE kernel.tileQ # 32)
  BY KernelsAssumption DEF Typed
<1>2. ~VoSplit /\ ~kernel.wide /\ KvWarps > 1
  BY <1>1 DEF Merges, VoSplit
<1>3. QWarps # NumWarps
  BY <1>2, WarpsAssumption DEF KvWarps
<1>4. QWarps = 1
  BY <1>1, <1>2, <1>3 DEF QWarps, KernelTraits
<1> QED BY <1>2, <1>4, WarpsFacts DEF Col

(* What depends only on the instantiation and the chunk does not change.   *)
LEMMA SameTraits ==
  ASSUME UNCHANGED fixed
  PROVE  /\ (VoSplit' <=> VoSplit) /\ (Repack' <=> Repack) /\ (Scaled' <=> Scaled)
         /\ (KvShared' <=> KvShared) /\ (Merges' <=> Merges)
         /\ (kernel.floatOut)' = kernel.floatOut /\ tiles' = tiles
         /\ VRegion' = VRegion /\ QWarps' = QWarps
<1> USE DEF fixed
<1>1. QWarps' = QWarps
  BY DEF QWarps
<1>2. (VoSplit' <=> VoSplit) /\ (KvShared' <=> KvShared)
  BY DEF VoSplit, KvShared
<1>3. Merges' <=> Merges
  BY <1>1, <1>2 DEF Merges, KvWarps
<1> QED BY <1>1, <1>2, <1>3 DEF Repack, Scaled, VRegion

LEMMA SameLoads ==
  ASSUME UNCHANGED fixed, NEW w, NEW t
  PROVE  /\ (InRange(w, t)' <=> InRange(w, t)) /\ VTag(w, t)' = VTag(w, t)
         /\ Col(w)' = Col(w) /\ (Writes(w)' <=> Writes(w))
         /\ LoadQ(w)' = LoadQ(w) /\ LoadK(w, t)' = LoadK(w, t)
         /\ LoadV(w, t)' = LoadV(w, t)
<1>1. InRange(w, t)' <=> InRange(w, t)
  BY DEF fixed, InRange
<1>2. VTag(w, t)' = VTag(w, t)
  BY <1>1 DEF VTag
<1>3. Col(w)' = Col(w)
  BY SameTraits DEF Col
<1>4. Writes(w)' <=> Writes(w)
  BY <1>3, SameTraits DEF Writes
<1>5. LoadQ(w)' = LoadQ(w)
  BY <1>3 DEF LoadQ
<1>6. LoadK(w, t)' = LoadK(w, t)
  BY <1>1, SameTraits DEF LoadK
<1>7. LoadV(w, t)' = LoadV(w, t)
  BY <1>2, SameTraits DEF LoadV
<1> QED BY <1>1, <1>2, <1>3, <1>4, <1>5, <1>6, <1>7

LEMMA SameStretch ==
  ASSUME UNCHANGED fixed, NEW l, NEW s, NEW r
  PROVE  Stretch(l)' = Stretch(l) /\ NextStretch(s, r)' = NextStretch(s, r)
<1>1. Stretch(l)' = Stretch(l)
  BY SameTraits DEF Stretch
<1>2. AfterScores(s)' = AfterScores(s)
  BY SameTraits DEF AfterScores
<1>3. NextStretch(s, r)' = NextStretch(s, r)
  BY <1>2, SameTraits DEF NextStretch
<1> QED BY <1>1, <1>3

-----------------------------------------------------------------------------
(* Shared memory.                                                          *)

LEMMA StoredType ==
  ASSUME mem \in [Regions -> [Warps -> Tag]], MaxTiles \in Nat,
         NEW w \in Warps, NEW writes \in Groups
  PROVE  Stored(w, writes) \in [Regions -> [Warps -> Tag]]
<1> SUFFICES ASSUME NEW r \in Regions
             PROVE  Stored(w, writes)[r] \in [Warps -> Tag]
  BY DEF Stored
<1>1. ASSUME NEW y \in writes, y.region = r
      PROVE  (CHOOSE x \in writes : x.region = r).tag \in Tag
  BY <1>1 DEF Groups
<1>2. Junk \in Tag
  BY DEF Junk, Tag
<1> QED BY <1>1, <1>2 DEF Stored

(* A store leaves alone every part of a region it does not alias, but the  *)
(* storing warp's part of what it writes, which gets the tag.              *)
LEMMA StoredPart ==
  ASSUME mem \in [Regions -> [Warps -> Tag]], NEW w \in Warps, NEW writes,
         NEW r \in Regions, NEW v \in Warps
  PROVE  /\ (\E x \in writes : x.region = r) /\ v # w =>
              Stored(w, writes)[r][v] = mem[r][v]
         /\ (\A x \in writes : x.region # r /\ ~Aliased(r, x.region)) =>
              Stored(w, writes)[r][v] = mem[r][v]
BY DEF Stored

LEMMA StoredOwn ==
  ASSUME mem \in [Regions -> [Warps -> Tag]], NEW w \in Warps, NEW writes,
         NEW x \in writes, x.region \in Regions,
         \A y \in writes : y.region = x.region => y.tag = x.tag
  PROVE  Stored(w, writes)[x.region][w] = x.tag
<1>1. (CHOOSE y \in writes : y.region = x.region).tag = x.tag
  <2>1. PICK y \in writes : y.region = x.region
    OBVIOUS
  <2>2. /\ (CHOOSE z \in writes : z.region = x.region) \in writes
        /\ (CHOOSE z \in writes : z.region = x.region).region = x.region
    BY <2>1
  <2> QED BY <2>2
<1> QED BY <1>1 DEF Stored

LEMMA AliasFacts ==
  ASSUME NEW r \in Regions, NEW s \in Regions, Aliased(r, s)
  PROVE  /\ r \in {"q", "k", "v", "merge", "o"}
         /\ s \in {"q", "k", "v"} => r \in {"merge", "o"}
         /\ s \notin {"stage", "max", "sum", "p", "ksf", "vsf"}
BY DEF Aliased, Regions, TileRegions

(* The regions that hold tiles, scales and exchanged values.               *)
Parts == Regions \ {"merge", "o"}

(* The stores of the exchange within the loop clobber nothing.             *)
LEMMA ExchangeStored ==
  ASSUME mem \in [Regions -> [Warps -> Tag]], NEW w \in Warps, NEW writes,
         \A x \in writes : x.region \in {"stage", "max", "sum", "p"},
         NEW r \in Regions, NEW v \in Warps,
         v # w \/ \A x \in writes : x.region # r
  PROVE  Stored(w, writes)[r][v] = mem[r][v]
<1>1. \A x \in writes : x.region \in Regions /\ ~Aliased(r, x.region)
  BY AliasFacts DEF Regions
<1> QED BY <1>1, StoredPart

(* The copies of a tile clobber the merged states and the staged output.   *)
LEMMA TileStored ==
  ASSUME mem \in [Regions -> [Warps -> Tag]], NEW w \in Warps, NEW writes,
         \A x \in writes : x.region \in {"q", "k", "v", "ksf", "vsf"},
         NEW r \in Parts, NEW v \in Warps,
         v # w \/ \A x \in writes : x.region # r
  PROVE  Stored(w, writes)[r][v] = mem[r][v]
<1>1. r \in Regions
  BY DEF Parts
<1>2. \A x \in writes : x.region \in Regions /\ ~Aliased(r, x.region)
  BY <1>1, AliasFacts DEF Regions, TileRegions, Parts
<1> QED BY <1>1, <1>2, StoredPart

(* What a group stores, and that it only stores tiles the chunk has.       *)
LEMMA LoadTypes ==
  ASSUME Typed, NEW w \in Warps, NEW t \in Nat, t # 0
  PROVE  /\ LoadQ(w) \in Groups /\ LoadK(w, t) \in Groups /\ LoadV(w, t) \in Groups
         /\ \A x \in LoadQ(w) : x = Put("q", Zero)
         /\ \A x \in LoadK(w, t) : x.tag = t /\ x.region \in {"k", "ksf"}
         /\ \A x \in LoadV(w, t) : x.tag = VTag(w, t) /\ x.region \in {VRegion, "vsf"}
         /\ VRegion \in {"k", "v"}
<1>1. 0 \in Tag /\ (InRange(w, t) => t \in Tag) /\ VTag(w, t) \in Tag
  BY WarpsAssumption DEF Typed, InRange, VTag, Tag, Junk, Zero
<1>2. {"q", "k", "v", "ksf", "vsf"} \subseteq Regions
  BY DEF Regions, TileRegions
<1>3. VRegion \in {"k", "v"}
  BY DEF VRegion
<1>4. LoadQ(w) \in Groups /\ \A x \in LoadQ(w) : x = Put("q", Zero)
  BY <1>1, <1>2 DEF LoadQ, Put, Groups, Zero
<1>5. LoadK(w, t) \in Groups /\ \A x \in LoadK(w, t) : x.tag = t /\ x.region \in {"k", "ksf"}
  BY <1>1, <1>2 DEF LoadK, Put, Groups
<1>6. /\ LoadV(w, t) \in Groups
      /\ \A x \in LoadV(w, t) : x.tag = VTag(w, t) /\ x.region \in {VRegion, "vsf"}
  BY <1>1, <1>2, <1>3 DEF LoadV, Put, Groups
<1> QED BY <1>3, <1>4, <1>5, <1>6

(* When a group arrives, the warp's part of what it loads is in place and  *)
(* every other part is as it was.                                          *)
LEMMA ArrivedQ ==
  ASSUME Typed, UNCHANGED fixed, NEW w \in Warps, mem' = Stored(w, LoadQ(w))
  PROVE  /\ QHeld(w)'
         /\ \A r \in Parts, v \in Warps : v # w \/ r # "q" => mem'[r][v] = mem[r][v]
<1>1. mem \in [Regions -> [Warps -> Tag]]
  BY DEF Typed
<1>2. \A x \in LoadQ(w) : x.region = "q"
  BY DEF LoadQ, Put
<1>3. \A r \in Parts, v \in Warps : v # w \/ r # "q" => mem'[r][v] = mem[r][v]
  BY <1>1, <1>2, TileStored
<1>4. ASSUME Col(w) = 0
      PROVE  mem'["q"][w] = Zero
  <2>1. Put("q", Zero) \in LoadQ(w)
    BY <1>4 DEF LoadQ
  <2>2. Stored(w, LoadQ(w))["q"][w] = Zero
    <3>1. \A y \in LoadQ(w) : y.tag = Zero
      BY DEF LoadQ, Put
    <3>2. Put("q", Zero).region = "q" /\ Put("q", Zero).tag = Zero /\ "q" \in Regions
      BY DEF Put, Regions, TileRegions
    <3> QED BY <1>1, <2>1, <3>1, <3>2, StoredOwn
  <2> QED BY <2>2
<1> QED BY <1>3, <1>4, SameLoads DEF QHeld

LEMMA ArrivedK ==
  ASSUME Typed, UNCHANGED fixed, NEW w \in Warps, NEW t \in Nat, t # 0,
         mem' = Stored(w, LoadK(w, t))
  PROVE  /\ KHeld(w, t)'
         /\ \A r \in Parts, v \in Warps :
              v # w \/ r \notin {"k", "ksf"} => mem'[r][v] = mem[r][v]
<1>1. mem \in [Regions -> [Warps -> Tag]]
  BY DEF Typed
<1>2. \A x \in LoadK(w, t) : x.tag = t /\ x.region \in {"k", "ksf"}
  BY LoadTypes
<1>3. \A r \in Parts, v \in Warps :
        v # w \/ r \notin {"k", "ksf"} => mem'[r][v] = mem[r][v]
  BY <1>1, <1>2, TileStored
<1>4. \A s : Put(s, t).region = s /\ Put(s, t).tag = t
  BY DEF Put
<1>5. ASSUME NEW s \in {"k", "ksf"}, Put(s, t) \in LoadK(w, t)
      PROVE  mem'[s][w] = t
  <2>1. s \in Regions
    BY DEF Regions, TileRegions
  <2> QED BY <1>1, <1>2, <1>4, <1>5, <2>1, StoredOwn
<1>6. InRange(w, t) => mem'["k"][w] = t /\ (Scaled => mem'["ksf"][w] = t)
  BY <1>5 DEF LoadK
<1> QED BY <1>3, <1>6, SameLoads, SameTraits DEF KHeld

LEMMA ArrivedV ==
  ASSUME Typed, UNCHANGED fixed, NEW w \in Warps, NEW t \in Nat, t # 0,
         mem' = Stored(w, LoadV(w, t))
  PROVE  /\ VHeld(w, t)'
         /\ \A r \in Parts, v \in Warps :
              v # w \/ r \notin {VRegion, "vsf"} => mem'[r][v] = mem[r][v]
<1>1. mem \in [Regions -> [Warps -> Tag]]
  BY DEF Typed
<1>2. /\ \A x \in LoadV(w, t) : x.tag = VTag(w, t) /\ x.region \in {VRegion, "vsf"}
      /\ VRegion \in {"k", "v"}
  BY LoadTypes
<1>3. \A r \in Parts, v \in Warps :
        v # w \/ r \notin {VRegion, "vsf"} => mem'[r][v] = mem[r][v]
  BY <1>1, <1>2, TileStored
<1>4. \A s : Put(s, VTag(w, t)).region = s /\ Put(s, VTag(w, t)).tag = VTag(w, t)
  BY DEF Put
<1>5. ASSUME NEW s \in {VRegion, "vsf"}, Put(s, VTag(w, t)) \in LoadV(w, t)
      PROVE  mem'[s][w] = VTag(w, t)
  <2>1. s \in Regions
    BY <1>2 DEF Regions, TileRegions
  <2> QED BY <1>1, <1>2, <1>4, <1>5, <2>1, StoredOwn
<1>6. mem'[VRegion][w] = VTag(w, t) /\ (Scaled => mem'["vsf"][w] = VTag(w, t))
  BY <1>5 DEF LoadV
<1> QED BY <1>3, <1>6, SameLoads, SameTraits DEF VHeld

(* A group that was just committed is still to arrive, or has nothing to   *)
(* bring.                                                                  *)
LEMMA Fresh ==
  ASSUME UNCHANGED fixed, NEW w, NEW t, NEW g
  PROVE  /\ g = LoadQ(w) => QGroup(w, g)'
         /\ g = LoadK(w, t) => KGroup(w, g, t)'
         /\ g = LoadV(w, t) => VGroup(w, g, t)'
<1>1. (LoadQ(w) = {} => QHeld(w)') /\ (LoadK(w, t) = {} => KHeld(w, t)') /\ LoadV(w, t) # {}
  BY SameLoads DEF LoadQ, QHeld, LoadK, KHeld, LoadV
<1> QED BY <1>1, SameLoads DEF QGroup, KGroup, VGroup

(* What a warp holds depends on its own parts alone.                       *)
LEMMA StillHeld ==
  ASSUME UNCHANGED fixed, NEW w, NEW t
  PROVE  /\ mem'["q"][w] = mem["q"][w] => (QHeld(w)' <=> QHeld(w))
         /\ mem'["k"][w] = mem["k"][w] /\ mem'["ksf"][w] = mem["ksf"][w] =>
              (KHeld(w, t)' <=> KHeld(w, t))
         /\ mem'[VRegion][w] = mem[VRegion][w] /\ mem'["vsf"][w] = mem["vsf"][w] =>
              (VHeld(w, t)' <=> VHeld(w, t))
<1>1. mem'["q"][w] = mem["q"][w] => (QHeld(w)' <=> QHeld(w))
  BY SameLoads DEF QHeld
<1>2. mem'["k"][w] = mem["k"][w] /\ mem'["ksf"][w] = mem["ksf"][w] =>
        (KHeld(w, t)' <=> KHeld(w, t))
  BY SameLoads, SameTraits DEF KHeld
<1>3. mem'[VRegion][w] = mem[VRegion][w] /\ mem'["vsf"][w] = mem["vsf"][w] =>
        (VHeld(w, t)' <=> VHeld(w, t))
  BY SameLoads, SameTraits DEF VHeld
<1> QED BY <1>1, <1>2, <1>3

-----------------------------------------------------------------------------
(* Asynchronous copies.                                                    *)

(* After cp.async.wait_group the groups it waited for have arrived and the *)
(* others are in flight still.                                             *)
LEMMA WaitFacts ==
  ASSUME Typed, NEW w \in Warps, NEW n \in {0, 1}, WaitGroup(w, n), Len(flight[w]) >= n
  PROVE  /\ \A i \in 1..(Len(flight[w]) - n) : flight[w][i] = {}
         /\ flight' = [flight EXCEPT ![w] = flight'[w]]
         /\ flight'[w] \in Seq(Groups) /\ Len(flight'[w]) = n
         /\ n = 1 => flight'[w][1] = flight[w][Len(flight[w])]
<1> DEFINE len == Len(flight[w])
<1>1. flight \in [Warps -> Seq(Groups)] /\ flight[w] \in Seq(Groups) /\ len \in Nat
  BY DEF Typed
<1>2. flight'[w] = IF len <= n THEN flight[w] ELSE SubSeq(flight[w], len - n + 1, len)
  BY <1>1 DEF WaitGroup
<1>3. flight' = [flight EXCEPT ![w] = flight'[w]]
  BY <1>1, <1>2 DEF WaitGroup
<1>4. \A i \in 1..(len - n) : flight[w][i] = {}
  BY DEF WaitGroup
<1>5. CASE len <= n
  BY <1>1, <1>2, <1>3, <1>4, <1>5
<1>6. CASE len > n
  <2>1. flight'[w] = SubSeq(flight[w], len - n + 1, len)
    BY <1>1, <1>2, <1>6
  <2>2. len - n + 1 \in 1..(len + 1) /\ len \in 0..len /\ len - n + 1 <= len + 1
    BY <1>1, <1>6
  <2>3. /\ flight'[w] \in Seq(Groups) /\ Len(flight'[w]) = n
        /\ \A i \in 1..n : flight'[w][i] = flight[w][len - n + i]
    BY <1>1, <1>6, <2>1, <2>2, Z3
  <2> QED BY <1>1, <1>3, <1>4, <1>6, <2>3
<1> QED BY <1>1, <1>5, <1>6

-----------------------------------------------------------------------------
(* Barriers.                                                               *)

(* A step that ends with a barrier takes its warp to the next stretch.     *)
LEMMA LockSync ==
  ASSUME Typed, LockStep, UNCHANGED fixed, NEW w \in Warps,
         \A v \in Warps : arrived[v] >= arrived[w],
         arrived' = [arrived EXCEPT ![w] = arrived[w] + 1],
         \A v \in Warps : v # w => pc'[v] = pc[v] /\ iter'[v] = iter[v],
         StretchOf(w) # "exit", pc'[w] = NextStretch(StretchOf(w), RoundOf(w)), Stretch(pc'[w]) = pc'[w],
         iter'[w] = NextRound(StretchOf(w), RoundOf(w)), Round(pc'[w], iter'[w]) = iter'[w]
  PROVE  LockStep'
<1>1. \A v \in Warps : arrived[v] \in Nat /\ arrived'[v] = IF v = w THEN arrived[w] + 1
                                                             ELSE arrived[v]
  BY DEF Typed
<1>2. \A v \in Warps : arrived[v] \in {arrived[w], arrived[w] + 1}
  BY <1>1 DEF LockStep
<1>3. StretchOf(w)' = pc'[w] /\ RoundOf(w)' = iter'[w]
  BY SameStretch DEF StretchOf, RoundOf, Round
<1>4. ASSUME NEW v \in Warps, v # w
      PROVE  StretchOf(v)' = StretchOf(v) /\ RoundOf(v)' = RoundOf(v)
  BY <1>4, SameStretch DEF StretchOf, RoundOf, Round
<1> SUFFICES ASSUME NEW u \in Warps, NEW v \in Warps
             PROVE  /\ arrived'[u] <= arrived'[v] + 1
                    /\ arrived'[u] = arrived'[v] => Beside(u, v)'
                    /\ arrived'[u] = arrived'[v] + 1 => Ahead(u, v)'
  BY DEF LockStep
<1>5. CASE u = w /\ v = w
  BY <1>1, <1>5 DEF Beside
<1>6. CASE u = w /\ v # w
  <2>1. CASE arrived[v] = arrived[w]
    <3>1. Beside(w, v)
      BY <2>1 DEF LockStep
    <3>2. Ahead(w, v)'
      BY <1>4, <1>6, <3>1, SameStretch DEF Beside, Ahead, NextRound, Round
    <3> QED BY <1>1, <1>6, <2>1, <3>2
  <2>2. CASE arrived[v] = arrived[w] + 1
    <3>1. Ahead(v, w)
      BY <2>2 DEF LockStep
    <3>2. StretchOf(v) = pc'[w] /\ RoundOf(v) = iter'[w]
      BY <3>1 DEF Ahead, StretchOf, RoundOf
    <3>3. Beside(w, v)'
      BY <1>3, <1>4, <1>6, <3>2 DEF Beside
    <3> QED BY <1>1, <1>6, <2>2, <3>3
  <2> QED BY <1>2, <2>1, <2>2
<1>7. CASE u # w /\ v = w
  <2>1. CASE arrived[u] = arrived[w]
    BY <1>1, <1>7, <2>1
  <2>2. CASE arrived[u] = arrived[w] + 1
    <3>1. Ahead(u, w)
      BY <2>2 DEF LockStep
    <3>2. StretchOf(u) = pc'[w] /\ RoundOf(u) = iter'[w]
      BY <3>1 DEF Ahead, StretchOf, RoundOf
    <3>3. Beside(u, w)'
      BY <1>3, <1>4, <1>7, <3>2 DEF Beside
    <3> QED BY <1>1, <1>7, <2>2, <3>3
  <2> QED BY <1>2, <2>1, <2>2
<1>8. CASE u # w /\ v # w
  <2>1. Beside(u, v) => Beside(u, v)'
    BY <1>4, <1>8 DEF Beside
  <2>2. Ahead(u, v) => Ahead(u, v)'
    BY <1>4, <1>8, SameStretch DEF Ahead, NextRound, Round
  <2> QED BY <1>1, <1>8, <2>1, <2>2 DEF LockStep
<1> QED BY <1>5, <1>6, <1>7, <1>8

(* A step that ends without one stays within its stretch.                  *)
LEMMA LockGoto ==
  ASSUME Typed, LockStep, UNCHANGED fixed, NEW w \in Warps,
         \A v \in Warps : arrived[v] >= arrived[w], UNCHANGED arrived,
         \A v \in Warps : v # w => pc'[v] = pc[v] /\ iter'[v] = iter[v],
         Stretch(pc'[w]) = StretchOf(w), Round(pc'[w], iter'[w]) = RoundOf(w)
  PROVE  LockStep'
<1>1. \A v \in Warps : arrived[v] \in Nat /\ arrived'[v] = arrived[v]
  BY DEF Typed
<1>2. ASSUME NEW v \in Warps
      PROVE  StretchOf(v)' = StretchOf(v) /\ RoundOf(v)' = RoundOf(v)
  BY SameStretch DEF StretchOf, RoundOf, Round
<1> SUFFICES ASSUME NEW u \in Warps, NEW v \in Warps
             PROVE  /\ arrived'[u] <= arrived'[v] + 1
                    /\ arrived'[u] = arrived'[v] => Beside(u, v)'
                    /\ arrived'[u] = arrived'[v] + 1 => Ahead(u, v)'
  BY DEF LockStep
<1>3. Beside(u, v) => Beside(u, v)'
  BY <1>2 DEF Beside
<1>4. ASSUME arrived[u] = arrived[v] + 1
      PROVE  Ahead(u, v)'
  <2>1. u # w
    BY <1>1, <1>4
  <2>2. Ahead(u, v)
    BY <1>4 DEF LockStep
  <2> QED BY <1>2, <2>1, <2>2, SameStretch DEF Ahead, NextRound, Round
<1> QED BY <1>1, <1>3, <1>4 DEF LockStep

LEMMA LockSame ==
  ASSUME LockStep, UNCHANGED <<fixed, pc, arrived, iter>>
  PROVE  LockStep'
<1>1. ASSUME NEW v
      PROVE  StretchOf(v)' = StretchOf(v) /\ RoundOf(v)' = RoundOf(v)
  BY SameStretch DEF StretchOf, RoundOf, Round
<1>2. ASSUME NEW u, NEW v
      PROVE  (Beside(u, v)' <=> Beside(u, v)) /\ (Ahead(u, v)' <=> Ahead(u, v))
  BY <1>1, SameStretch DEF Beside, Ahead, NextRound, Round
<1> QED BY <1>2 DEF LockStep

(* Where the other warps are when one acts that others exchange with.      *)
LEMMA Near ==
  ASSUME Typed, LockStep, NEW w \in Warps, NEW v \in Warps,
         NEW l \in {"repackK", "scores", "probs", "rowsum", "repackV", "fold", "merge"},
         At(w, l)
  PROVE  pc[v] \in {l, AfterScores(l)} /\ iter[v] = iter[w]
<1>1. arrived[v] \in {arrived[w], arrived[w] + 1}
  BY DEF At, LockStep, Typed
<1>2. StretchOf(w) = l /\ RoundOf(w) = iter[w]
  BY DEF At, StretchOf, RoundOf, Stretch, Round
<1>3. CASE Beside(v, w)
  BY <1>2, <1>3 DEF Beside, StretchOf, RoundOf, Stretch, Round
<1>4. CASE Ahead(v, w)
  BY <1>2, <1>4 DEF Ahead, NextStretch, NextRound
<1> QED BY <1>1, <1>3, <1>4 DEF LockStep

LEMMA NearWrite ==
  ASSUME Typed, LockStep, NEW w \in Warps, NEW v \in Warps, At(w, "write")
  PROVE  pc[v] \in Ending
<1>1. arrived[v] \in {arrived[w], arrived[w] + 1}
  BY DEF At, LockStep, Typed
<1>2. StretchOf(w) = IF Merges THEN "combine" ELSE "write"
  BY DEF At, StretchOf, Stretch
<1>3. CASE Beside(v, w)
  BY <1>2, <1>3 DEF Beside, StretchOf, Stretch, Ending
<1>4. CASE Ahead(v, w)
  BY <1>2, <1>4 DEF Ahead, NextStretch, AfterScores, Ending
<1> QED BY <1>1, <1>3, <1>4 DEF LockStep

(* Once a warp has put its merged state no warp has copies in flight that  *)
(* could overwrite it.                                                     *)
LEMMA EndIsQuiet ==
  ASSUME Typed, LockStep, Merges, NEW v \in Warps, NEW w \in Warps,
         pc[v] \in {"combine", "write", "exit", "done"}
  PROVE  pc[w] \in Ending
<1>1. StretchOf(v) \in {"combine", "exit"}
  BY DEF StretchOf, Stretch
<1>2. arrived[v] \in Nat /\ arrived[w] \in Nat /\ pc[w] \in Labels
  BY DEF Typed
<1>3. CASE Beside(v, w)
  BY <1>1, <1>3 DEF Beside, StretchOf, Stretch, Ending
<1>4. CASE Ahead(w, v)
  BY <1>1, <1>4 DEF Ahead, NextStretch, AfterScores, Ending
<1>5. CASE Ahead(v, w)
  <2>1. pc[v] \in {"combine", "exit"} /\ pc[v] = NextStretch(StretchOf(w), RoundOf(w))
    BY <1>5 DEF Ahead, Stretch
  <2>2. StretchOf(w) \in {"merge", "combine", "write", "exit"}
    BY <1>2, <2>1 DEF NextStretch, AfterScores, StretchOf, Stretch, Labels
  <2> QED BY <2>2 DEF StretchOf, Stretch, Ending
<1>6. arrived[v] = arrived[w] \/ arrived[w] = arrived[v] + 1 \/ arrived[v] = arrived[w] + 1
  BY <1>2 DEF LockStep
<1> QED BY <1>3, <1>4, <1>5, <1>6 DEF LockStep

-----------------------------------------------------------------------------
(* A step of one warp as seen by the invariant of another.                 *)

TileParts == {"q", "k", "v", "ksf", "vsf"}

(* Warp v keeps what it holds: nothing of its own changes, and its parts   *)
(* of shared memory do so only once it needs none of them.                 *)
Keeps(v) ==
  /\ pc'[v] = pc[v] /\ iter'[v] = iter[v] /\ flight'[v] = flight[v]
  /\ score'[v] = score[v] /\ folded'[v] = folded[v] /\ output'[v] = output[v]
  /\ pc[v] \in Ending \/ \A r \in Parts : mem'[r][v] = mem[r][v]

LEMMA GroupsKept ==
  ASSUME UNCHANGED fixed, NEW w, \A r \in TileParts : mem'[r][w] = mem[r][w], NEW g, NEW t
  PROVE  /\ QHeld(w)' <=> QHeld(w)
         /\ KHeld(w, t)' <=> KHeld(w, t)
         /\ VHeld(w, t)' <=> VHeld(w, t)
         /\ QGroup(w, g)' <=> QGroup(w, g)
         /\ KGroup(w, g, t)' <=> KGroup(w, g, t)
         /\ VGroup(w, g, t)' <=> VGroup(w, g, t)
<1>1. VRegion \in TileParts
  BY DEF VRegion, TileParts
<1>2. (QHeld(w)' <=> QHeld(w)) /\ (KHeld(w, t)' <=> KHeld(w, t)) /\ (VHeld(w, t)' <=> VHeld(w, t))
  BY <1>1, StillHeld DEF TileParts
<1> QED BY <1>2, SameLoads DEF QGroup, KGroup, VGroup

LEMMA CopiesKept ==
  ASSUME UNCHANGED fixed, NEW v, Copies(v),
         pc'[v] = pc[v], iter'[v] = iter[v], flight'[v] = flight[v],
         pc[v] \in Ending \/ \A r \in TileParts : mem'[r][v] = mem[r][v]
  PROVE  Copies(v)'
<1>1. CASE pc[v] \in Ending
  BY <1>1 DEF Copies, CopiesFirst, CopiesTop, CopiesQK, CopiesWaitV, CopiesPV, CopiesNone,
     Ending, InQK, InPV
<1>2. CASE \A r \in TileParts : mem'[r][v] = mem[r][v]
  <2>1. \A g, t : /\ QHeld(v)' <=> QHeld(v)
                  /\ KHeld(v, t)' <=> KHeld(v, t)
                  /\ VHeld(v, t)' <=> VHeld(v, t)
                  /\ QGroup(v, g)' <=> QGroup(v, g)
                  /\ KGroup(v, g, t)' <=> KGroup(v, g, t)
                  /\ VGroup(v, g, t)' <=> VGroup(v, g, t)
    BY <1>2, GroupsKept
  <2>3. (KvShared' <=> KvShared) /\ (\A n : Separate(n)' = Separate(n))
    BY SameTraits DEF Separate
  <2>4. CopiesFirst(v)'
    BY <2>1, <2>3 DEF Copies, CopiesFirst
  <2>5. CopiesTop(v)'
    BY <2>1, <2>3 DEF Copies, CopiesTop
  <2>6. CopiesQK(v)'
    BY <2>1, <2>3 DEF Copies, CopiesQK
  <2>7. CopiesWaitV(v)'
    BY <2>1, <2>3 DEF Copies, CopiesWaitV
  <2>8. CopiesPV(v)'
    BY <2>1, <2>3 DEF Copies, CopiesPV
  <2>9. CopiesNone(v)'
    BY DEF Copies, CopiesNone
  <2> QED BY <2>4, <2>5, <2>6, <2>7, <2>8, <2>9 DEF Copies
<1> QED BY <1>1, <1>2

LEMMA OtherKeeps ==
  ASSUME UNCHANGED fixed, NEW v \in Warps, Keeps(v), Copies(v), Exchanged(v), Progress(v)
  PROVE  Copies(v)' /\ Exchanged(v)' /\ Progress(v)'
<1>1. Parts = TileParts \union {"stage", "max", "sum", "p"}
  BY DEF Parts, Regions, TileRegions, TileParts
<1>2. Copies(v)'
  BY <1>1, CopiesKept DEF Keeps
<1>3. Exchanged(v)'
  BY <1>1, SameTraits DEF Exchanged, Keeps, Ending
<1>4. Progress(v)'
  BY SameTraits DEF Progress, Keeps
<1> QED BY <1>2, <1>3, <1>4

LEMMA OtherMerged ==
  ASSUME UNCHANGED fixed, NEW v \in Warps, Keeps(v), Merged(v),
         pc[0] \in {"exit", "done"} => pc'[0] \in {"exit", "done"},
         Merges /\ pc[v] \in {"combine", "write", "exit", "done"}
           => \/ mem'["merge"][v] = mem["merge"][v]
              \/ ~kernel.floatOut /\ pc'[0] \in {"exit", "done"}
  PROVE  Merged(v)'
BY SameTraits, SameLoads DEF Merged, Keeps

(* The invariant holds after a step of warp w if it holds of w and all     *)
(* other warps keep what they hold.                                        *)
LEMMA Assemble ==
  ASSUME BlockInv, UNCHANGED fixed, NEW w \in Warps, Typed', LockStep',
         \A v \in Warps : v # w => Keeps(v),
         Copies(w)', Exchanged(w)', Progress(w)', Merged(w)',
         pc[0] \in {"exit", "done"} => pc'[0] \in {"exit", "done"},
         \A v \in Warps : v # w /\ Merges /\ pc[v] \in {"combine", "write", "exit", "done"}
           => \/ mem'["merge"][v] = mem["merge"][v]
              \/ ~kernel.floatOut /\ pc'[0] \in {"exit", "done"}
  PROVE  BlockInv'
<1>1. ASSUME NEW v \in Warps
      PROVE  Copies(v)' /\ Exchanged(v)' /\ Progress(v)' /\ Merged(v)'
  BY OtherKeeps, OtherMerged DEF BlockInv
<1> QED BY <1>1, SameStretch DEF BlockInv

-----------------------------------------------------------------------------
(* The steps of a warp: loading and waiting.                               *)

(* A barrier in the loop, after a wait or a step whose stores stay within  *)
(* the warp's own parts, keeps the invariant of all other warps.           *)
LEMMA LoopSync ==
  ASSUME BlockInv, UNCHANGED <<fixed, iter, output>>, NEW w \in Warps,
         NEW l \in {"repackK", "scores", "probs", "rowsum", "loadK", "repackV", "fold",
                    "loadV"},
         \A v \in Warps : arrived[v] >= arrived[w], Sync(w, l), pc[w] \notin Ending,
         l = NextStretch(StretchOf(w), RoundOf(w)),
         iter[w] = NextRound(StretchOf(w), RoundOf(w)),
         flight' \in [Warps -> Seq(Groups)], mem' \in [Regions -> [Warps -> Tag]],
         score' \in [Warps -> Tag], folded' \in [Warps -> Seq(Int)],
         \A v \in Warps : v # w =>
           /\ flight'[v] = flight[v] /\ score'[v] = score[v] /\ folded'[v] = folded[v]
           /\ \A r \in Parts \union {"merge"} : mem'[r][v] = mem[r][v],
         Copies(w)', Exchanged(w)', Progress(w)'
  PROVE  BlockInv'
<1>1. Typed /\ LockStep /\ Merged(w)
  BY DEF BlockInv
<1>2. /\ pc' \in [Warps -> Labels] /\ pc'[w] = l /\ l \in Labels
      /\ \A v \in Warps : v # w => pc'[v] = pc[v]
      /\ arrived' = [arrived EXCEPT ![w] = arrived[w] + 1]
  BY <1>1 DEF Typed, Sync, Labels
<1>3. Typed'
  BY <1>1, <1>2 DEF Typed, fixed
<1>4. LockStep'
  <2>1. Stretch(pc'[w]) = pc'[w] /\ Round(pc'[w], iter'[w]) = iter'[w]
    BY <1>2 DEF Stretch, Round
  <2>2. StretchOf(w) # "exit"
    BY DEF StretchOf, Stretch, Ending
  <2> QED BY <1>1, <1>2, <2>1, <2>2, LockSync
<1>5. \A v \in Warps : v # w => Keeps(v)
  BY <1>2 DEF Keeps
<1>6. Merged(w)'
  BY <1>1, <1>2, SameTraits, SameLoads DEF Merged, Ending
<1>7. pc[0] \in {"exit", "done"} => pc'[0] \in {"exit", "done"}
  BY <1>2, WarpsFacts DEF Ending
<1> QED BY <1>3, <1>4, <1>5, <1>6, <1>7, Assemble

(* Likewise a step without a barrier that commits a group.                 *)
LEMMA LoopGoto ==
  ASSUME BlockInv, UNCHANGED <<fixed, mem, score, folded, output>>, NEW w \in Warps,
         NEW l \in {"top", "waitV"},
         \A v \in Warps : arrived[v] >= arrived[w], Goto(w, l), pc[w] \notin Ending,
         NEW t \in 1..(MaxTiles + 1), iter' = [iter EXCEPT ![w] = t],
         Stretch(l) = StretchOf(w), Round(l, t) = RoundOf(w),
         NEW s \in Seq(Groups), flight' = [flight EXCEPT ![w] = s],
         Copies(w)', Exchanged(w)', Progress(w)'
  PROVE  BlockInv'
<1>1. Typed /\ LockStep /\ Merged(w)
  BY DEF BlockInv
<1>2. /\ pc' \in [Warps -> Labels] /\ pc'[w] = l /\ l \in Labels
      /\ \A v \in Warps : v # w => pc'[v] = pc[v]
      /\ iter' \in [Warps -> 1..(MaxTiles + 1)] /\ iter'[w] = t
      /\ \A v \in Warps : v # w => iter'[v] = iter[v]
      /\ arrived' = arrived
  BY <1>1 DEF Typed, Goto, Labels
<1>3. Typed'
  BY <1>1, <1>2 DEF Typed, fixed
<1>4. LockStep'
  BY <1>1, <1>2, LockGoto
<1>5. \A v \in Warps : v # w => Keeps(v)
  BY <1>1, <1>2 DEF Keeps, Typed
<1>6. Merged(w)'
  BY <1>1, <1>2, SameTraits, SameLoads DEF Merged, Ending
<1>7. pc[0] \in {"exit", "done"} => pc'[0] \in {"exit", "done"}
  BY <1>2, WarpsFacts DEF Ending
<1> QED BY <1>3, <1>4, <1>5, <1>6, <1>7, Assemble

LEMMA PrologueKeeps ==
  ASSUME BlockInv, NEW w \in Warps, Prologue(w)
  PROVE  BlockInv'
<1> DEFINE s == <<LoadQ(w), LoadK(w, 1)>> \o (IF KvShared THEN << >> ELSE <<LoadV(w, 1)>>)
<1>1. Typed /\ LockStep /\ Copies(w) /\ Exchanged(w) /\ Progress(w) /\ pc[w] = "prologue"
  BY DEF BlockInv, Prologue, At
<1>2. UNCHANGED fixed /\ UNCHANGED mem /\ iter' = [iter EXCEPT ![w] = 1] /\ iter[w] = 1
  BY <1>1 DEF Prologue, Progress, Typed
<1>3. LoadQ(w) \in Groups /\ LoadK(w, 1) \in Groups /\ LoadV(w, 1) \in Groups
  BY <1>1, LoadTypes
<1>4. s \in Seq(Groups) /\ Len(s) = 2 + Separate(1) /\ s[1] = LoadQ(w) /\ s[2] = LoadK(w, 1)
      /\ (~KvShared => s[3] = LoadV(w, 1))
  BY <1>3 DEF Separate
<1>5. flight' = [flight EXCEPT ![w] = s] /\ flight'[w] = s /\ pc'[w] = "top" /\ iter'[w] = 1
  BY <1>1, <1>2 DEF Prologue, Goto, Typed
<1>6. Copies(w)'
  <2>1. \A g : /\ g = s[1] => QGroup(w, g)'
               /\ g = s[2] => KGroup(w, g, 1)'
               /\ ~KvShared /\ g = s[3] => VGroup(w, g, 1)'
    <3> HIDE DEF s
    <3> QED BY <1>2, <1>4, Fresh
  <2>2. CopiesFirst(w)'
    BY <1>2, <1>4, <1>5, <2>1, SameTraits DEF CopiesFirst, Separate
  <2> QED BY <1>5, <2>2 DEF Copies, CopiesTop, CopiesQK, CopiesWaitV, CopiesPV, CopiesNone,
          InQK, InPV, Ending
<1>7. Exchanged(w)'
  BY <1>5 DEF Exchanged
<1>8. Progress(w)'
  BY <1>1, <1>2, <1>5 DEF Prologue, Progress, fixed, InQK, InPV, Ending
<1>9. Stretch("top") = StretchOf(w) /\ Round("top", 1) = RoundOf(w)
  BY <1>1, <1>2 DEF Stretch, StretchOf, Round, RoundOf
<1> HIDE DEF s
<1>10. /\ 1 \in 1..(MaxTiles + 1) /\ pc[w] \notin Ending
       /\ \A v \in Warps : arrived[v] >= arrived[w]
       /\ Goto(w, "top") /\ UNCHANGED <<fixed, mem, score, folded, output>>
  BY <1>1, WarpsAssumption DEF Ending, Prologue, At
<1> QED BY <1>2, <1>4, <1>5, <1>6, <1>7, <1>8, <1>9, <1>10, LoopGoto

(* What a warp has in flight and holds after a step that leads to a label  *)
(* of the QK part, of the PV part or of the end.                           *)
LEMMA CopiesAt ==
  ASSUME NEW w
  PROVE  /\ pc'[w] \in InQK =>
              (Copies(w)' <=>
                 (/\ Len(flight[w]) = Separate(1)
                  /\ QHeld(w) /\ KHeld(w, iter[w])
                  /\ ~KvShared => VGroup(w, flight[w][1], iter[w]))')
         /\ pc'[w] \in InPV =>
              (Copies(w)' <=>
                 (/\ Len(flight[w]) = Separate(1)
                  /\ QHeld(w) /\ VHeld(w, iter[w])
                  /\ ~KvShared => KGroup(w, flight[w][1], iter[w] + 1))')
         /\ pc'[w] \in Ending => (Copies(w)' <=> (Len(flight[w]) = 0)')
<1>1. CASE pc'[w] \in InQK
  BY <1>1 DEF Copies, CopiesFirst, CopiesTop, CopiesQK, CopiesWaitV, CopiesPV, CopiesNone,
     InQK, InPV, Ending
<1>2. CASE pc'[w] \in InPV
  BY <1>2 DEF Copies, CopiesFirst, CopiesTop, CopiesQK, CopiesWaitV, CopiesPV, CopiesNone,
     InQK, InPV, Ending
<1>3. CASE pc'[w] \in Ending
  BY <1>3 DEF Copies, CopiesFirst, CopiesTop, CopiesQK, CopiesWaitV, CopiesPV, CopiesNone,
     InQK, InPV, Ending
<1>4. /\ pc'[w] \in InQK => pc'[w] \notin InPV /\ pc'[w] \notin Ending
      /\ pc'[w] \in InPV => pc'[w] \notin Ending
  BY DEF InQK, InPV, Ending
<1> QED BY <1>1, <1>2, <1>3, <1>4

LEMMA WaitKKeeps ==
  ASSUME BlockInv, NEW w \in Warps, WaitK(w)
  PROVE  BlockInv'
<1> DEFINE l == IF Repack THEN "repackK" ELSE "scores"
           len == Len(flight[w])
<1>1. /\ Typed /\ LockStep /\ Copies(w) /\ Exchanged(w) /\ Progress(w) /\ pc[w] = "top"
      /\ UNCHANGED <<fixed, iter, mem, score, folded, output>> /\ iter[w] <= tiles
  BY DEF BlockInv, WaitK, At
<1>2. GroupsAhead = Separate(1) /\ Separate(1) \in {0, 1} /\ len \in Nat
  BY <1>1 DEF GroupsAhead, Separate, Typed
<1>3. /\ len = IF iter[w] = 1 THEN 2 + Separate(1) ELSE 1 + Separate(1)
      /\ ~KvShared => VGroup(w, flight[w][len], iter[w])
  BY <1>1 DEF Copies, CopiesFirst, CopiesTop, Separate
<1>4. /\ \A i \in 1..(len - Separate(1)) : flight[w][i] = {}
      /\ flight' = [flight EXCEPT ![w] = flight'[w]]
      /\ flight'[w] \in Seq(Groups) /\ Len(flight'[w]) = Separate(1)
      /\ ~KvShared => flight'[w][1] = flight[w][len]
  <2>1. WaitGroup(w, Separate(1)) /\ len >= Separate(1)
    BY <1>2, <1>3 DEF WaitK
  <2>2. ~KvShared => Separate(1) = 1
    BY DEF Separate
  <2> QED BY <1>1, <1>2, <2>1, <2>2, WaitFacts
<1>5. QHeld(w) /\ KHeld(w, iter[w])
  <2>1. CASE iter[w] = 1
    <3>1. flight[w][1] = {} /\ flight[w][2] = {}
      BY <1>2, <1>3, <1>4, <2>1
    <3> QED BY <1>1, <2>1, <3>1 DEF Copies, CopiesFirst, QGroup, KGroup
  <2>2. CASE iter[w] # 1
    <3>1. flight[w][1] = {}
      BY <1>2, <1>3, <1>4, <2>2
    <3> QED BY <1>1, <2>2, <3>1 DEF Copies, CopiesTop, KGroup
  <2> QED BY <2>1, <2>2
<1>6. pc'[w] = l /\ l \in InQK /\ iter'[w] = iter[w]
  BY <1>1 DEF WaitK, Sync, InQK, Typed
<1>7. Copies(w)'
  <2>1. QHeld(w)' /\ KHeld(w, iter[w])' /\ (~KvShared => VGroup(w, flight[w][1], iter[w])')
    BY <1>1, <1>3, <1>4, <1>5, GroupsKept
  <2> QED BY <1>1, <1>4, <1>6, <2>1, CopiesAt, SameTraits DEF Separate
<1>8. Exchanged(w)' /\ Progress(w)'
  BY <1>1, <1>6, SameTraits DEF Exchanged, Progress, InQK, InPV, Ending
<1>9. l = NextStretch(StretchOf(w), RoundOf(w)) /\ iter[w] = NextRound(StretchOf(w), RoundOf(w))
  BY <1>1 DEF StretchOf, RoundOf, Stretch, Round, NextStretch, NextRound, Progress, Typed
<1>10. /\ \A v \in Warps : arrived[v] >= arrived[w]
       /\ Sync(w, l) /\ pc[w] \notin Ending
  BY <1>1 DEF WaitK, At, Ending
<1>11. l \in {"repackK", "scores"}
  OBVIOUS
<1>12. /\ flight' \in [Warps -> Seq(Groups)] /\ \A v \in Warps : v # w => flight'[v] = flight[v]
       /\ mem' \in [Regions -> [Warps -> Tag]]
       /\ score' \in [Warps -> Tag] /\ folded' \in [Warps -> Seq(Int)]
  BY <1>1, <1>4 DEF Typed
<1> HIDE DEF l, len
<1> QED BY <1>1, <1>7, <1>8, <1>9, <1>10, <1>11, <1>12, LoopSync

LEMMA WaitVKeeps ==
  ASSUME BlockInv, NEW w \in Warps, WaitV(w)
  PROVE  BlockInv'
<1> DEFINE l == IF Repack THEN "repackV" ELSE "fold"
           len == Len(flight[w])
<1>1. /\ Typed /\ LockStep /\ Copies(w) /\ Exchanged(w) /\ Progress(w) /\ pc[w] = "waitV"
      /\ UNCHANGED <<fixed, iter, mem, score, folded, output>>
  BY DEF BlockInv, WaitV, At
<1>2. GroupsAhead = Separate(1) /\ Separate(1) \in {0, 1} /\ len \in Nat
  BY <1>1 DEF GroupsAhead, Separate, Typed
<1>3. len = 1 + Separate(1) /\ (~KvShared => KGroup(w, flight[w][len], iter[w] + 1))
  BY <1>1 DEF Copies, CopiesWaitV, Separate
<1>4. /\ \A i \in 1..(len - Separate(1)) : flight[w][i] = {}
      /\ flight' = [flight EXCEPT ![w] = flight'[w]]
      /\ flight'[w] \in Seq(Groups) /\ Len(flight'[w]) = Separate(1)
      /\ ~KvShared => flight'[w][1] = flight[w][len]
  <2>1. WaitGroup(w, Separate(1)) /\ len >= Separate(1)
    BY <1>2, <1>3 DEF WaitV
  <2>2. ~KvShared => Separate(1) = 1
    BY DEF Separate
  <2> QED BY <1>1, <1>2, <2>1, <2>2, WaitFacts
<1>5. QHeld(w) /\ VHeld(w, iter[w])
  <2>1. flight[w][1] = {}
    BY <1>2, <1>3, <1>4
  <2> QED BY <1>1, <2>1 DEF Copies, CopiesWaitV, VGroup
<1>6. pc'[w] = l /\ l \in InPV /\ iter'[w] = iter[w]
  BY <1>1 DEF WaitV, Sync, InPV, Typed
<1>7. Copies(w)'
  <2>1. QHeld(w)' /\ VHeld(w, iter[w])' /\ (~KvShared => KGroup(w, flight[w][1], iter[w] + 1)')
    BY <1>1, <1>3, <1>4, <1>5, GroupsKept
  <2> QED BY <1>1, <1>4, <1>6, <2>1, CopiesAt, SameTraits DEF Separate
<1>8. Exchanged(w)'
  <2>1. pc'[w] = "fold" => ~Repack
    BY <1>6
  <2>2. pc'[w] \in {"repackV", "fold"} /\ (pc'[w] = "repackV" => Repack)
    BY <1>6
  <2> QED BY <1>1, <1>6, <2>1, <2>2, SameTraits DEF Exchanged
<1>9. Progress(w)'
  BY <1>1, <1>6, SameTraits DEF Progress, InQK, InPV, Ending
<1>10. l = NextStretch(StretchOf(w), RoundOf(w)) /\ iter[w] = NextRound(StretchOf(w), RoundOf(w))
  BY <1>1 DEF StretchOf, RoundOf, Stretch, Round, NextStretch, NextRound, AfterScores
<1>11. /\ \A v \in Warps : arrived[v] >= arrived[w]
       /\ Sync(w, l) /\ pc[w] \notin Ending /\ l \in {"repackV", "fold"}
  BY <1>1 DEF WaitV, At, Ending
<1>12. /\ flight' \in [Warps -> Seq(Groups)] /\ \A v \in Warps : v # w => flight'[v] = flight[v]
       /\ mem' \in [Regions -> [Warps -> Tag]]
       /\ score' \in [Warps -> Tag] /\ folded' \in [Warps -> Seq(Int)]
  BY <1>1, <1>4 DEF Typed
<1> HIDE DEF l, len
<1> QED BY <1>1, <1>7, <1>8, <1>9, <1>10, <1>11, <1>12, LoopSync

-----------------------------------------------------------------------------
(* The steps of a warp: computing and exchanging.                          *)

LEMMA CopiesStay ==
  ASSUME NEW w \in Warps, Copies(w), UNCHANGED <<fixed, iter, flight>>,
         \A r \in TileParts : mem'[r][w] = mem[r][w],
         \/ pc[w] \in InQK /\ pc'[w] \in InQK
         \/ pc[w] \in InPV /\ pc'[w] \in InPV
  PROVE  Copies(w)'
<1>1. \A g, t : /\ QHeld(w)' <=> QHeld(w)
                /\ KHeld(w, t)' <=> KHeld(w, t)
                /\ VHeld(w, t)' <=> VHeld(w, t)
                /\ KGroup(w, g, t)' <=> KGroup(w, g, t)
                /\ VGroup(w, g, t)' <=> VGroup(w, g, t)
  BY GroupsKept
<1>2. (KvShared' <=> KvShared) /\ Separate(1)' = Separate(1)
  BY SameTraits DEF Separate
<1>3. CASE pc[w] \in InQK /\ pc'[w] \in InQK
  BY <1>1, <1>2, <1>3, CopiesAt DEF Copies, CopiesQK
<1>4. CASE pc[w] \in InPV /\ pc'[w] \in InPV
  BY <1>1, <1>2, <1>4, CopiesAt DEF Copies, CopiesPV
<1> QED BY <1>3, <1>4

(* A warp that stores one tag in its part of some exchange buffers.        *)
LEMMA Exchange ==
  ASSUME Typed, NEW w \in Warps, NEW s \in Tag, NEW writes, mem' = Stored(w, writes),
         \A x \in writes : /\ x.region \in {"stage", "max", "sum", "p"}
                           /\ x = Put(x.region, s)
  PROVE  /\ mem' \in [Regions -> [Warps -> Tag]]
         /\ \A x \in writes : mem'[x.region][w] = s
         /\ \A v \in Warps, r \in Regions :
              v # w \/ (\A x \in writes : x.region # r) => mem'[r][v] = mem[r][v]
         /\ \A v \in Warps, r \in TileParts : mem'[r][v] = mem[r][v]
<1>1. mem \in [Regions -> [Warps -> Tag]]
  BY DEF Typed
<1>2. \A x \in writes : x.tag = s
  BY DEF Put
<1>3. {"stage", "max", "sum", "p"} \subseteq Regions
  BY DEF Regions
<1>4. writes \in Groups
  BY <1>3 DEF Groups, Put
<1>5. mem' \in [Regions -> [Warps -> Tag]]
  BY <1>1, <1>4, StoredType, WarpsAssumption
<1>6. ASSUME NEW x \in writes
      PROVE  mem'[x.region][w] = s
  BY <1>1, <1>2, <1>3, StoredOwn
<1>7. ASSUME NEW v \in Warps, NEW r \in Regions, v # w \/ \A x \in writes : x.region # r
      PROVE  mem'[r][v] = mem[r][v]
  BY <1>1, <1>7, ExchangeStored
<1>8. \A r \in TileParts : r \in Regions /\ r \notin {"stage", "max", "sum", "p"}
  BY DEF TileParts, Regions, TileRegions
<1> QED BY <1>5, <1>6, <1>7, <1>8

LEMMA ExchangeOne ==
  ASSUME Typed, NEW w \in Warps, NEW s \in Tag, NEW x \in {"stage", "max"},
         mem' = Stored(w, {Put(x, s)})
  PROVE  /\ mem' \in [Regions -> [Warps -> Tag]]
         /\ mem'[x][w] = s
         /\ \A v \in Warps, r \in Regions : v # w \/ r # x => mem'[r][v] = mem[r][v]
         /\ \A r \in TileParts : mem'[r][w] = mem[r][w]
<1> DEFINE writes == {Put(x, s)}
<1>1. /\ \A y \in writes : y.region = x /\ y = Put(y.region, s)
      /\ Put(x, s) \in writes /\ Put(x, s).region = x /\ mem' = Stored(w, writes)
  BY DEF Put
<1> HIDE DEF writes
<1>2. /\ mem' \in [Regions -> [Warps -> Tag]]
      /\ \A y \in writes : mem'[y.region][w] = s
      /\ \A v \in Warps, r \in Regions :
           v # w \/ (\A y \in writes : y.region # r) => mem'[r][v] = mem[r][v]
      /\ \A v \in Warps, r \in TileParts : mem'[r][v] = mem[r][v]
  BY <1>1, Exchange
<1>3. mem'[x][w] = s
  BY <1>1, <1>2
<1>4. ASSUME NEW v \in Warps, NEW r \in Regions, v # w \/ r # x
      PROVE  mem'[r][v] = mem[r][v]
  <2>1. v # w \/ \A y \in writes : y.region # r
    BY <1>1, <1>4
  <2> QED BY <1>2, <2>1
<1> QED BY <1>2, <1>3, <1>4

(* What a step finds in the parts of all warps.                            *)
LEMMA TilesFound ==
  ASSUME BlockInv, NEW w \in Warps
  PROVE  /\ At(w, "repackK") \/ At(w, "scores") => QReady(w) /\ KReady(iter[w])
         /\ At(w, "repackV") \/ At(w, "fold") => VReady(iter[w])
<1>1. ASSUME At(w, "repackK") \/ At(w, "scores"), NEW v \in Warps
      PROVE  QHeld(v) /\ KHeld(v, iter[w])
  <2>1. pc[v] \in InQK /\ iter[v] = iter[w]
    BY <1>1, Near DEF BlockInv, AfterScores, InQK
  <2> QED BY <2>1 DEF BlockInv, Copies, CopiesQK
<1>2. ASSUME At(w, "repackV") \/ At(w, "fold"), NEW v \in Warps
      PROVE  VHeld(v, iter[w])
  <2>1. pc[v] \in InPV /\ iter[v] = iter[w]
    BY <1>2, Near DEF BlockInv, AfterScores, InPV
  <2> QED BY <2>1 DEF BlockInv, Copies, CopiesPV
<1> QED BY <1>1, <1>2 DEF QReady, KReady, VReady, QHeld, KHeld, VHeld

LEMMA ExchangesFound ==
  ASSUME BlockInv, NEW w \in Warps
  PROVE  /\ (At(w, "scores") \/ At(w, "fold")) /\ Repack => All("stage", Warps, iter[w])
         /\ At(w, "probs") => All("max", RowMates(w), iter[w])
         /\ At(w, "rowsum") => All("sum", RowMates(w), iter[w])
         /\ At(w, "fold") /\ VoSplit => All("p", RowMates(w), iter[w])
<1>1. Typed /\ LockStep /\ \A v \in Warps : Exchanged(v)
  BY DEF BlockInv
<1>2. Repack => ~VoSplit
  BY <1>1, Traits
<1>3. ASSUME At(w, "scores") \/ At(w, "fold"), Repack, NEW v \in Warps
      PROVE  mem["stage"][v] = iter[w]
  <2>1. pc[v] \in {"scores", "loadK", "fold", "loadV"} /\ iter[v] = iter[w]
    BY <1>1, <1>2, <1>3, Near DEF AfterScores
  <2> QED BY <1>1, <1>3, <2>1 DEF Exchanged
<1>4. ASSUME At(w, "probs"), NEW v \in Warps
      PROVE  mem["max"][v] = iter[w]
  <2>1. pc[v] \in {"probs", "rowsum"} /\ iter[v] = iter[w]
    BY <1>1, <1>4, Near DEF AfterScores
  <2> QED BY <1>1, <2>1 DEF Exchanged
<1>5. ASSUME At(w, "rowsum"), NEW v \in Warps
      PROVE  mem["sum"][v] = iter[w]
  <2>1. pc[v] \in {"rowsum", "loadK"} /\ iter[v] = iter[w] /\ VoSplit
    BY <1>1, <1>5, Near DEF AfterScores, At, Exchanged
  <2> QED BY <1>1, <2>1 DEF Exchanged
<1>6. ASSUME At(w, "fold"), VoSplit, NEW v \in Warps
      PROVE  mem["p"][v] = iter[w]
  <2>1. pc[v] \in {"fold", "loadV"} /\ iter[v] = iter[w]
    BY <1>1, <1>6, Near DEF AfterScores
  <2> QED BY <1>1, <1>6, <2>1 DEF Exchanged
<1> QED BY <1>3, <1>4, <1>5, <1>6 DEF All, RowMates

(* The tile a warp works on in the loop is one of the chunk, and a tag.    *)
LEMMA TileTag ==
  ASSUME BlockInv, NEW w \in Warps, pc[w] \in InQK \union InPV \union {"waitV"}
  PROVE  iter[w] \in 1..tiles /\ tiles \in 0..MaxTiles /\ iter[w] \in Tag
<1>1. Typed /\ Progress(w)
  BY DEF BlockInv
<1> QED BY <1>1, WarpsAssumption DEF Typed, Progress, Tag, Junk

(* The invariant after a step that computes on a tile, from what it        *)
(* stores: shared memory, scores and the list of folded tiles.             *)
LEMMA Compute ==
  ASSUME BlockInv, NEW w \in Warps,
         NEW k \in {"repackK", "scores", "probs", "rowsum", "repackV", "fold"}, At(w, k),
         Sync(w, AfterScores(k)), UNCHANGED <<fixed, iter, flight, output>>,
         mem' \in [Regions -> [Warps -> Tag]],
         \A v \in Warps, r \in Regions : v # w => mem'[r][v] = mem[r][v],
         \A r \in TileParts : mem'[r][w] = mem[r][w],
         NEW s \in Tag, score' = [score EXCEPT ![w] = s],
         NEW f \in Seq(Int), folded' = [folded EXCEPT ![w] = f],
         Exchanged(w)', Progress(w)'
  PROVE  BlockInv'
<1> DEFINE l == AfterScores(k)
<1>1. Typed /\ LockStep /\ Copies(w) /\ pc[w] = k /\ \A v \in Warps : arrived[v] >= arrived[w]
  BY DEF BlockInv, At
<1>2. l \in {"scores", "probs", "rowsum", "loadK", "fold", "loadV"}
  BY DEF AfterScores
<1>3. l = NextStretch(StretchOf(w), RoundOf(w)) /\ iter[w] = NextRound(StretchOf(w), RoundOf(w))
  BY <1>1 DEF StretchOf, RoundOf, Stretch, Round, NextStretch, NextRound
<1>4. pc'[w] = l
  BY <1>1 DEF Sync, Typed
<1>5. Copies(w)'
  <2>1. \/ pc[w] \in InQK /\ pc'[w] \in InQK
        \/ pc[w] \in InPV /\ pc'[w] \in InPV
    BY <1>1, <1>4 DEF AfterScores, InQK, InPV
  <2> QED BY <1>1, <2>1, CopiesStay
<1>6. flight' \in [Warps -> Seq(Groups)] /\ score' \in [Warps -> Tag] /\ folded' \in [Warps -> Seq(Int)]
  BY <1>1 DEF Typed
<1>7. \A v \in Warps : v # w =>
        /\ flight'[v] = flight[v] /\ score'[v] = score[v] /\ folded'[v] = folded[v]
        /\ \A r \in Parts \union {"merge"} : mem'[r][v] = mem[r][v]
  BY <1>1 DEF Typed, Parts, Regions
<1>8. pc[w] \notin Ending
  BY <1>1 DEF Ending
<1> HIDE DEF l
<1> QED BY <1>1, <1>2, <1>3, <1>5, <1>6, <1>7, <1>8, LoopSync DEF l

LEMMA RepackKKeeps ==
  ASSUME BlockInv, NEW w \in Warps, RepackK(w)
  PROVE  BlockInv'
<1> DEFINE t == iter[w]
<1>1. /\ Typed /\ Exchanged(w) /\ Progress(w) /\ At(w, "repackK") /\ pc[w] = "repackK"
      /\ UNCHANGED <<fixed, iter, flight, score, folded, output>> /\ Sync(w, "scores")
  BY DEF BlockInv, RepackK, At
<1>2. t \in Tag /\ KReady(t) /\ t <= tiles
  BY <1>1, TileTag, TilesFound DEF InQK
<1>3. mem' = Stored(w, {Put("stage", t)})
  BY <1>2 DEF RepackK, TagIf
<1>4. /\ mem' \in [Regions -> [Warps -> Tag]] /\ mem'["stage"][w] = t
      /\ \A v \in Warps, r \in Regions : v # w => mem'[r][v] = mem[r][v]
      /\ \A r \in TileParts : mem'[r][w] = mem[r][w]
  <2> HIDE DEF t
  <2> QED BY <1>1, <1>2, <1>3, ExchangeOne
<1>5. pc'[w] = "scores"
  BY <1>1 DEF Sync, Typed
<1>6. Exchanged(w)'
  BY <1>1, <1>4, <1>5, SameTraits DEF Exchanged
<1>7. Progress(w)'
  BY <1>1, <1>2, <1>5, SameTraits DEF Progress, InQK, InPV, Ending
<1>8. /\ score[w] \in Tag /\ folded[w] \in Seq(Int) /\ score' = [score EXCEPT ![w] = score[w]]
      /\ folded' = [folded EXCEPT ![w] = folded[w]] /\ AfterScores("repackK") = "scores"
  BY <1>1 DEF Typed, AfterScores
<1> HIDE DEF t
<1> QED BY <1>1, <1>4, <1>6, <1>7, <1>8, Compute

LEMMA RepackVKeeps ==
  ASSUME BlockInv, NEW w \in Warps, RepackV(w)
  PROVE  BlockInv'
<1> DEFINE t == iter[w]
<1>1. /\ Typed /\ Exchanged(w) /\ Progress(w) /\ At(w, "repackV") /\ pc[w] = "repackV"
      /\ UNCHANGED <<fixed, iter, flight, score, folded, output>> /\ Sync(w, "fold")
  BY DEF BlockInv, RepackV, At
<1>2. t \in Tag /\ VReady(t) /\ t <= tiles
  BY <1>1, TileTag, TilesFound DEF InPV
<1>3. mem' = Stored(w, {Put("stage", t)})
  BY <1>2 DEF RepackV, TagIf
<1>4. /\ mem' \in [Regions -> [Warps -> Tag]] /\ mem'["stage"][w] = t
      /\ \A v \in Warps, r \in Regions : v # w => mem'[r][v] = mem[r][v]
      /\ \A r \in TileParts : mem'[r][w] = mem[r][w]
      /\ mem'["p"][w] = mem["p"][w]
  <2> HIDE DEF t
  <2>1. "p" \in Regions /\ "p" # "stage"
    BY DEF Regions
  <2>2. /\ mem' \in [Regions -> [Warps -> Tag]] /\ mem'["stage"][w] = t
        /\ \A v \in Warps, r \in Regions : v # w \/ r # "stage" => mem'[r][v] = mem[r][v]
        /\ \A r \in TileParts : mem'[r][w] = mem[r][w]
    BY <1>1, <1>2, <1>3, ExchangeOne
  <2> QED BY <2>1, <2>2
<1>5. pc'[w] = "fold"
  BY <1>1 DEF Sync, Typed
<1>6. Exchanged(w)'
  BY <1>1, <1>4, <1>5, SameTraits DEF Exchanged
<1>7. Progress(w)'
  BY <1>1, <1>2, <1>5, SameTraits DEF Progress, InQK, InPV, Ending
<1>8. /\ score[w] \in Tag /\ folded[w] \in Seq(Int) /\ score' = [score EXCEPT ![w] = score[w]]
      /\ folded' = [folded EXCEPT ![w] = folded[w]] /\ AfterScores("repackV") = "fold"
  BY <1>1 DEF Typed, AfterScores
<1> HIDE DEF t
<1> QED BY <1>1, <1>4, <1>6, <1>7, <1>8, Compute

LEMMA ScoresKeeps ==
  ASSUME BlockInv, NEW w \in Warps, Scores(w)
  PROVE  BlockInv'
<1> DEFINE t == iter[w]
<1>1. /\ Typed /\ Exchanged(w) /\ Progress(w) /\ At(w, "scores") /\ pc[w] = "scores"
      /\ UNCHANGED <<fixed, iter, flight, folded, output>>
      /\ Sync(w, IF VoSplit THEN "probs" ELSE "loadK")
  BY DEF BlockInv, Scores, At
<1>2. t \in Tag /\ QReady(w) /\ KReady(t) /\ (Repack => All("stage", Warps, t)) /\ t <= tiles
  BY <1>1, TileTag, TilesFound, ExchangesFound DEF InQK
<1>3. /\ score' = [score EXCEPT ![w] = t]
      /\ mem' = IF VoSplit THEN Stored(w, {Put("max", t)}) ELSE mem
  BY <1>2 DEF Scores, TagIf
<1>4. /\ mem' \in [Regions -> [Warps -> Tag]] /\ (VoSplit => mem'["max"][w] = t)
      /\ \A v \in Warps, r \in Regions : v # w => mem'[r][v] = mem[r][v]
      /\ \A r \in TileParts : mem'[r][w] = mem[r][w]
      /\ mem'["stage"][w] = mem["stage"][w]
  <2> HIDE DEF t
  <2>1. CASE VoSplit
    <3>1. "stage" \in Regions /\ "stage" # "max"
      BY DEF Regions
    <3>2. /\ mem' \in [Regions -> [Warps -> Tag]] /\ mem'["max"][w] = t
          /\ \A v \in Warps, r \in Regions : v # w \/ r # "max" => mem'[r][v] = mem[r][v]
          /\ \A r \in TileParts : mem'[r][w] = mem[r][w]
      BY <1>1, <1>2, <1>3, <2>1, ExchangeOne
    <3> QED BY <3>1, <3>2
  <2>2. CASE ~VoSplit
    BY <1>1, <1>3, <2>2 DEF Typed
  <2> QED BY <2>1, <2>2
<1>5. pc'[w] = (IF VoSplit THEN "probs" ELSE "loadK") /\ score'[w] = t
  BY <1>1, <1>3 DEF Sync, Typed
<1>6. Exchanged(w)'
  BY <1>1, <1>4, <1>5, SameTraits DEF Exchanged
<1>7. Progress(w)'
  BY <1>1, <1>2, <1>5, SameTraits DEF Progress, InQK, InPV, Ending
<1>8. /\ folded[w] \in Seq(Int) /\ folded' = [folded EXCEPT ![w] = folded[w]]
      /\ AfterScores("scores") = IF VoSplit THEN "probs" ELSE "loadK"
  BY <1>1 DEF Typed, AfterScores
<1> HIDE DEF t
<1> QED BY <1>1, <1>2, <1>3, <1>4, <1>6, <1>7, <1>8, Compute

LEMMA ProbsKeeps ==
  ASSUME BlockInv, NEW w \in Warps, Probs(w)
  PROVE  BlockInv'
<1> DEFINE t == iter[w]
<1>1. /\ Typed /\ Exchanged(w) /\ Progress(w) /\ At(w, "probs") /\ pc[w] = "probs"
      /\ UNCHANGED <<fixed, iter, flight, score, folded, output>> /\ Sync(w, "rowsum")
  BY DEF BlockInv, Probs, At
<1>2. t \in Tag /\ score[w] = t /\ All("max", RowMates(w), t) /\ t <= tiles
  BY <1>1, TileTag, ExchangesFound DEF InQK, Exchanged
<1>3. mem' = Stored(w, {Put("p", t), Put("sum", t)})
  BY <1>2 DEF Probs, TagIf
<1>4. /\ mem' \in [Regions -> [Warps -> Tag]] /\ mem'["p"][w] = t /\ mem'["sum"][w] = t
      /\ \A v \in Warps, r \in Regions : v # w => mem'[r][v] = mem[r][v]
      /\ \A r \in TileParts : mem'[r][w] = mem[r][w]
      /\ mem'["max"][w] = mem["max"][w]
  <2> DEFINE writes == {Put("p", t), Put("sum", t)}
  <2>1. "max" \in Regions
    BY DEF Regions
  <2>2. /\ \A y \in writes : y.region \in {"p", "sum"} /\ y = Put(y.region, t)
        /\ Put("p", t) \in writes /\ Put("p", t).region = "p"
        /\ Put("sum", t) \in writes /\ Put("sum", t).region = "sum"
        /\ mem' = Stored(w, writes)
    BY <1>3 DEF Put
  <2> HIDE DEF t, writes
  <2>3. /\ mem' \in [Regions -> [Warps -> Tag]]
        /\ \A y \in writes : mem'[y.region][w] = t
        /\ \A v \in Warps, r \in Regions :
             v # w \/ (\A y \in writes : y.region # r) => mem'[r][v] = mem[r][v]
        /\ \A v \in Warps, r \in TileParts : mem'[r][v] = mem[r][v]
    BY <1>1, <1>2, <2>2, Exchange
  <2> QED BY <2>1, <2>2, <2>3
<1>5. pc'[w] = "rowsum"
  BY <1>1 DEF Sync, Typed
<1>6. Exchanged(w)'
  BY <1>1, <1>2, <1>4, <1>5, SameTraits DEF Exchanged
<1>7. Progress(w)'
  BY <1>1, <1>2, <1>5, SameTraits DEF Progress, InQK, InPV, Ending
<1>8. /\ score[w] \in Tag /\ folded[w] \in Seq(Int) /\ score' = [score EXCEPT ![w] = score[w]]
      /\ folded' = [folded EXCEPT ![w] = folded[w]] /\ AfterScores("probs") = "rowsum"
  BY <1>1 DEF Typed, AfterScores
<1> HIDE DEF t
<1> QED BY <1>1, <1>4, <1>6, <1>7, <1>8, Compute

LEMMA RowSumKeeps ==
  ASSUME BlockInv, NEW w \in Warps, RowSum(w)
  PROVE  BlockInv'
<1>1. /\ Typed /\ Exchanged(w) /\ Progress(w) /\ At(w, "rowsum") /\ pc[w] = "rowsum"
      /\ UNCHANGED <<fixed, iter, flight, mem, folded, output>> /\ Sync(w, "loadK")
  BY DEF BlockInv, RowSum, At
<1>2. iter[w] <= tiles /\ score[w] = iter[w] /\ All("sum", RowMates(w), iter[w])
  BY <1>1, TileTag, ExchangesFound DEF InQK, Exchanged
<1>3. score' = [score EXCEPT ![w] = score[w]] /\ score[w] \in Tag /\ score'[w] = score[w]
  BY <1>1, <1>2 DEF RowSum, TagIf, Typed
<1>4. pc'[w] = "loadK"
  BY <1>1 DEF Sync, Typed
<1>5. VoSplit /\ ~Repack
  BY <1>1, Traits DEF Exchanged
<1>6. Exchanged(w)'
  BY <1>1, <1>3, <1>4, <1>5, SameTraits DEF Exchanged
<1>7. Progress(w)'
  BY <1>1, <1>2, <1>4, SameTraits DEF Progress, InQK, InPV, Ending
<1>8. /\ folded[w] \in Seq(Int) /\ folded' = [folded EXCEPT ![w] = folded[w]]
      /\ AfterScores("rowsum") = "loadK" /\ mem' \in [Regions -> [Warps -> Tag]]
      /\ \A v \in Warps, r \in Regions : v # w => mem'[r][v] = mem[r][v]
      /\ \A r \in TileParts : mem'[r][w] = mem[r][w]
  BY <1>1 DEF Typed, AfterScores
<1> QED BY <1>1, <1>3, <1>6, <1>7, <1>8, Compute

(* Folding the next tile keeps the list of folded tiles in order.          *)
LEMMA FoldNext ==
  ASSUME NEW n \in Nat
  PROVE  Append([i \in 1..n |-> i], n + 1) = [i \in 1..(n + 1) |-> i]
<1> DEFINE f == [i \in 1..n |-> i]  g == [i \in 1..(n + 1) |-> i]
<1>1. f \in Seq(Int) /\ g \in Seq(Int) /\ Len(f) = n /\ Len(g) = n + 1
  OBVIOUS
<1>2. /\ Append(f, n + 1) \in Seq(Int) /\ Len(Append(f, n + 1)) = n + 1
      /\ \A i \in 1..(n + 1) : Append(f, n + 1)[i] = i
  BY <1>1
<1>3. \A i \in 1..(n + 1) : g[i] = i
  OBVIOUS
<1> HIDE DEF f, g
<1> QED BY <1>1, <1>2, <1>3, SeqEqual DEF f, g

LEMMA FoldKeeps ==
  ASSUME BlockInv, NEW w \in Warps, Fold(w)
  PROVE  BlockInv'
<1> DEFINE t == iter[w]
<1>1. /\ Typed /\ Exchanged(w) /\ Progress(w) /\ At(w, "fold") /\ pc[w] = "fold"
      /\ UNCHANGED <<fixed, iter, flight, mem, score, output>> /\ Sync(w, "loadV")
  BY DEF BlockInv, Fold, AfterFold, At
<1>2. /\ t \in 1..tiles /\ tiles \in 0..MaxTiles /\ score[w] = t /\ VReady(t)
      /\ Repack => All("stage", Warps, t)
      /\ VoSplit => All("p", RowMates(w), t)
  BY <1>1, TileTag, TilesFound, ExchangesFound DEF InPV, Exchanged
<1>3. folded[w] = [i \in 1..(t - 1) |-> i] /\ Append(folded[w], t) = [i \in 1..t |-> i]
  <2>1. folded[w] = [i \in 1..(t - 1) |-> i]
    BY <1>1 DEF Progress
  <2>2. t - 1 \in Nat /\ (t - 1) + 1 = t
    BY <1>2, WarpsAssumption
  <2> HIDE DEF t
  <2> QED BY <2>1, <2>2, FoldNext
<1>4. folded' = [folded EXCEPT ![w] = [i \in 1..t |-> i]]
  BY <1>2, <1>3 DEF Fold, TagIf
<1>5. pc'[w] = "loadV" /\ folded'[w] = [i \in 1..t |-> i] /\ iter'[w] = t
  BY <1>1, <1>4 DEF Sync, Typed
<1>6. Exchanged(w)'
  BY <1>1, <1>5, SameTraits DEF Exchanged
<1>7. Progress(w)'
  <2>1. /\ iter'[w] \in 1..(tiles' + 1) /\ iter'[w] <= tiles'
        /\ folded'[w] = [i \in 1..iter'[w] |-> i]
    BY <1>1, <1>2, <1>5, SameTraits, WarpsAssumption
  <2> QED BY <1>5, <2>1 DEF Progress, Ending
<1>8. /\ score[w] \in Tag /\ score' = [score EXCEPT ![w] = score[w]]
      /\ AfterScores("fold") = "loadV" /\ mem' \in [Regions -> [Warps -> Tag]]
      /\ \A v \in Warps, r \in Regions : v # w => mem'[r][v] = mem[r][v]
      /\ \A r \in TileParts : mem'[r][w] = mem[r][w]
  BY <1>1 DEF Typed, AfterScores
<1>9. [i \in 1..t |-> i] \in Seq(Int)
  <2>1. t \in Nat
    BY <1>2, WarpsAssumption
  <2> HIDE DEF t
  <2> QED BY <2>1
<1> HIDE DEF t
<1> QED BY <1>1, <1>4, <1>6, <1>7, <1>8, <1>9, Compute

-----------------------------------------------------------------------------
(* The steps of a warp: committing the next loads.                         *)

LEMMA ProduceKKeeps ==
  ASSUME BlockInv, NEW w \in Warps, ProduceK(w)
  PROVE  BlockInv'
<1> DEFINE t == iter[w]
           group == IF KvShared THEN LoadV(w, t) ELSE LoadK(w, t + 1)
           s == Append(flight[w], group)
<1>1. /\ Typed /\ LockStep /\ Copies(w) /\ Exchanged(w) /\ Progress(w) /\ pc[w] = "loadK"
      /\ \A v \in Warps : arrived[v] >= arrived[w]
      /\ UNCHANGED <<fixed, iter, mem, score, folded, output>> /\ Goto(w, "waitV")
  BY DEF BlockInv, ProduceK, At
<1>2. t \in 1..tiles /\ tiles \in 0..MaxTiles /\ t \in Nat /\ t # 0 /\ t + 1 \in Nat /\ t + 1 # 0
  <2>1. t \in 1..tiles /\ tiles \in 0..MaxTiles
    BY <1>1, TileTag DEF InQK
  <2> HIDE DEF t
  <2> QED BY <2>1, WarpsAssumption
<1>3. group \in Groups
  <2>1. LoadV(w, t) \in Groups /\ LoadK(w, t + 1) \in Groups
    <3> HIDE DEF t
    <3> QED BY <1>1, <1>2, LoadTypes
  <2> QED BY <2>1
<1>4. /\ Len(flight[w]) = Separate(1) /\ QHeld(w) /\ flight[w] \in Seq(Groups)
      /\ ~KvShared => VGroup(w, flight[w][1], t)
  BY <1>1 DEF Copies, CopiesQK, InQK, Typed
<1>5. /\ s \in Seq(Groups) /\ Len(s) = 1 + Separate(1)
      /\ KvShared => s[1] = LoadV(w, t)
      /\ ~KvShared => s[1] = flight[w][1] /\ s[2] = LoadK(w, t + 1)
  <2>1. Separate(1) = IF KvShared THEN 0 ELSE 1
    BY DEF Separate
  <2> HIDE DEF t
  <2> QED BY <1>3, <1>4, <2>1
<1>6. flight' = [flight EXCEPT ![w] = s]
  BY DEF ProduceK, Commit
<1>7. pc'[w] = "waitV" /\ flight'[w] = s /\ iter'[w] = t
  BY <1>1, <1>6 DEF Goto, Typed
<1>8. Copies(w)'
  <2>1. /\ QHeld(w)'
        /\ \A g : g = s[1] => VGroup(w, g, t)'
        /\ \A g : ~KvShared /\ g = s[2] => KGroup(w, g, t + 1)'
    <3>1. QHeld(w)'
      BY <1>1, <1>4, GroupsKept
    <3>2. ASSUME NEW g, g = s[1]
          PROVE  VGroup(w, g, t)'
      <4>1. CASE KvShared
        <5>1. g = LoadV(w, t)
          BY <1>5, <3>2, <4>1
        <5> HIDE DEF s
        <5> QED BY <1>1, <5>1, Fresh
      <4>2. CASE ~KvShared
        <5>1. VGroup(w, g, t)
          BY <1>4, <1>5, <3>2, <4>2
        <5> HIDE DEF s
        <5> QED BY <1>1, <5>1, GroupsKept
      <4> QED BY <4>1, <4>2
    <3>3. ASSUME NEW g, ~KvShared, g = s[2]
          PROVE  KGroup(w, g, t + 1)'
      <4>1. g = LoadK(w, t + 1)
        BY <1>5, <3>3
      <4> HIDE DEF s
      <4> QED BY <1>1, <4>1, Fresh
    <3> QED BY <3>1, <3>2, <3>3
  <2>2. CopiesWaitV(w)'
    <3> HIDE DEF s
    <3> QED BY <1>1, <1>5, <1>7, <2>1, SameTraits DEF CopiesWaitV, Separate
  <2> QED BY <1>7, <2>2 DEF Copies, CopiesFirst, CopiesTop, CopiesQK, CopiesPV, CopiesNone,
          InQK, InPV, Ending
<1> HIDE DEF s
<1>9. Exchanged(w)' /\ Progress(w)'
  BY <1>1, <1>2, <1>7, SameTraits DEF Exchanged, Progress, InQK, InPV, Ending
<1>10. /\ Stretch("waitV") = StretchOf(w) /\ Round("waitV", t) = RoundOf(w)
       /\ iter' = [iter EXCEPT ![w] = t] /\ t \in 1..(MaxTiles + 1) /\ pc[w] \notin Ending
  BY <1>1, <1>2, WarpsAssumption
     DEF Stretch, StretchOf, Round, RoundOf, Typed, Ending
<1> HIDE DEF t
<1> QED BY <1>1, <1>5, <1>6, <1>8, <1>9, <1>10, LoopGoto

LEMMA ProduceVKeeps ==
  ASSUME BlockInv, NEW w \in Warps, ProduceV(w)
  PROVE  BlockInv'
<1> DEFINE t == iter[w] + 1
           group == IF KvShared THEN LoadK(w, t) ELSE LoadV(w, t)
           s == Append(flight[w], group)
<1>1. /\ Typed /\ LockStep /\ Copies(w) /\ Exchanged(w) /\ Progress(w) /\ pc[w] = "loadV"
      /\ \A v \in Warps : arrived[v] >= arrived[w]
      /\ UNCHANGED <<fixed, mem, score, folded, output>> /\ Goto(w, "top")
  BY DEF BlockInv, ProduceV, At
<1>2. t \in 2..(tiles + 1) /\ tiles \in 0..MaxTiles /\ t \in Nat /\ t # 0
  <2>1. iter[w] \in 1..tiles /\ tiles \in 0..MaxTiles
    BY <1>1, TileTag DEF InPV
  <2> QED BY <2>1, WarpsAssumption
<1>3. group \in Groups
  <2>1. LoadV(w, t) \in Groups /\ LoadK(w, t) \in Groups
    <3> HIDE DEF t
    <3> QED BY <1>1, <1>2, LoadTypes
  <2> QED BY <2>1
<1>4. /\ Len(flight[w]) = Separate(1) /\ QHeld(w) /\ flight[w] \in Seq(Groups)
      /\ ~KvShared => KGroup(w, flight[w][1], t)
  BY <1>1 DEF Copies, CopiesPV, InPV, Typed
<1>5. /\ s \in Seq(Groups) /\ Len(s) = 1 + Separate(1)
      /\ KvShared => s[1] = LoadK(w, t)
      /\ ~KvShared => s[1] = flight[w][1] /\ s[2] = LoadV(w, t)
  <2>1. Separate(1) = IF KvShared THEN 0 ELSE 1
    BY DEF Separate
  <2> HIDE DEF t
  <2> QED BY <1>3, <1>4, <2>1
<1>6. flight' = [flight EXCEPT ![w] = s] /\ iter' = [iter EXCEPT ![w] = t]
  BY DEF ProduceV, Commit
<1>7. pc'[w] = "top" /\ flight'[w] = s /\ iter'[w] = t
  BY <1>1, <1>6 DEF Goto, Typed
<1>8. Copies(w)'
  <2>1. /\ QHeld(w)'
        /\ \A g, n : g = s[1] /\ n = t => KGroup(w, g, n)'
        /\ \A g, n : ~KvShared /\ g = s[2] /\ n = t => VGroup(w, g, n)'
    <3> HIDE DEF t
    <3>1. QHeld(w)'
      BY <1>1, <1>4, GroupsKept
    <3>2. ASSUME NEW g, g = s[1]
          PROVE  \A n : n = t => KGroup(w, g, n)'
      <4>1. CASE KvShared
        <5>1. g = LoadK(w, t)
          BY <1>5, <3>2, <4>1
        <5> HIDE DEF s
        <5> QED BY <1>1, <5>1, Fresh
      <4>2. CASE ~KvShared
        <5>1. KGroup(w, g, t)
          BY <1>4, <1>5, <3>2, <4>2
        <5> HIDE DEF s
        <5> QED BY <1>1, <5>1, GroupsKept
      <4> QED BY <4>1, <4>2
    <3>3. ASSUME NEW g, ~KvShared, g = s[2]
          PROVE  \A n : n = t => VGroup(w, g, n)'
      <4>1. g = LoadV(w, t)
        BY <1>5, <3>3
      <4> HIDE DEF s
      <4> QED BY <1>1, <4>1, Fresh
    <3> QED BY <3>1, <3>2, <3>3
  <2>2. CopiesTop(w)'
    <3> HIDE DEF s, t
    <3> QED BY <1>1, <1>5, <1>7, <2>1, SameTraits DEF CopiesTop, Separate
  <2>3. iter'[w] # 1
    BY <1>2, <1>7
  <2> QED BY <1>7, <2>2, <2>3 DEF Copies, CopiesFirst, CopiesQK, CopiesWaitV, CopiesPV, CopiesNone,
          InQK, InPV, Ending
<1> HIDE DEF s
<1>9. Exchanged(w)'
  BY <1>7 DEF Exchanged
<1>10. Progress(w)'
  <2>1. /\ iter'[w] \in 1..(tiles' + 1) /\ iter'[w] - 1 = iter[w]
        /\ folded'[w] = [i \in 1..(iter'[w] - 1) |-> i]
    <3>1. folded[w] = [i \in 1..iter[w] |-> i] /\ iter[w] \in Int
      BY <1>1 DEF Progress, Typed
    <3> QED BY <1>1, <1>2, <1>7, <3>1, SameTraits
  <2> QED BY <1>7, <2>1 DEF Progress, InQK, InPV, Ending
<1>11. /\ Stretch("top") = StretchOf(w) /\ Round("top", t) = RoundOf(w)
       /\ t \in 1..(MaxTiles + 1) /\ pc[w] \notin Ending
  BY <1>1, <1>2, WarpsAssumption
     DEF Stretch, StretchOf, Round, RoundOf, Typed, Ending
<1> HIDE DEF t
<1> QED BY <1>1, <1>5, <1>6, <1>8, <1>9, <1>10, <1>11, LoopGoto

-----------------------------------------------------------------------------
(* The steps of a warp: after the loop.                                    *)

LEMMA DrainKeeps ==
  ASSUME BlockInv, NEW w \in Warps, Drain(w)
  PROVE  BlockInv'
<1> DEFINE l == IF Merges THEN "merge" ELSE "write"
<1>1. /\ Typed /\ LockStep /\ Progress(w) /\ Merged(w) /\ pc[w] = "top" /\ iter[w] > tiles
      /\ \A v \in Warps : arrived[v] >= arrived[w]
      /\ UNCHANGED <<fixed, iter, mem, score, folded, output>> /\ Sync(w, l)
      /\ WaitGroup(w, 0)
  BY DEF BlockInv, Drain, At, EntersMerge, GroupsAtExit
<1>2. iter[w] = tiles + 1 /\ iter[w] \in Nat /\ tiles \in Nat
  BY <1>1, WarpsAssumption DEF Progress, Typed
<1>3. flight' = [flight EXCEPT ![w] = flight'[w]] /\ flight'[w] \in Seq(Groups) /\ Len(flight'[w]) = 0
  <2>1. Len(flight[w]) >= 0
    BY <1>1 DEF Typed
  <2> QED BY <1>1, <2>1, WaitFacts
<1>4. /\ pc' \in [Warps -> Labels] /\ pc'[w] = l /\ l \in Ending
      /\ \A v \in Warps : v # w => pc'[v] = pc[v]
      /\ arrived' = [arrived EXCEPT ![w] = arrived[w] + 1]
  BY <1>1 DEF Typed, Sync, Labels, Ending
<1>5. Typed'
  <2>1. arrived' \in [Warps -> Nat]
    BY <1>1, <1>4 DEF Typed
  <2>2. flight' \in [Warps -> Seq(Groups)]
    <3>1. flight \in [Warps -> Seq(Groups)]
      BY <1>1 DEF Typed
    <3> QED BY <1>3, <3>1
  <2> HIDE DEF l
  <2> QED BY <1>1, <1>4, <2>1, <2>2 DEF Typed, fixed
<1>6. LockStep'
  <2>1. l = NextStretch(StretchOf(w), RoundOf(w)) /\ iter[w] = NextRound(StretchOf(w), RoundOf(w))
    BY <1>1, <1>2 DEF StretchOf, RoundOf, Stretch, Round, NextStretch, NextRound
  <2>2. Stretch(l) = l /\ Round(l, iter[w]) = iter[w] /\ StretchOf(w) # "exit"
    BY <1>1 DEF Stretch, Round, StretchOf
  <2> HIDE DEF l
  <2> QED BY <1>1, <1>4, <2>1, <2>2, LockSync
<1>7. \A v \in Warps : v # w => Keeps(v)
  BY <1>1, <1>3, <1>4 DEF Keeps, Typed
<1>8. Copies(w)'
  BY <1>3, <1>4, CopiesAt
<1>9. Exchanged(w)'
  BY <1>4 DEF Exchanged
<1>10. Progress(w)'
  BY <1>1, <1>2, <1>4, SameTraits DEF Progress, InQK, InPV, Ending
<1>11. Merged(w)'
  BY <1>1, <1>4, SameTraits, SameLoads DEF Merged
<1>12. pc[0] \in {"exit", "done"} => pc'[0] \in {"exit", "done"}
  BY <1>1, <1>4, WarpsFacts
<1> QED BY <1>1, <1>5, <1>6, <1>7, <1>8, <1>9, <1>10, <1>11, <1>12, Assemble

(* A warp at the end keeps what it has in flight, which is nothing, and    *)
(* its count of tiles.                                                     *)
LEMMA StillEnding ==
  ASSUME NEW w \in Warps, Copies(w), Progress(w), UNCHANGED <<fixed, iter, flight, folded>>,
         pc[w] \in Ending, pc'[w] \in Ending
  PROVE  Copies(w)' /\ Exchanged(w)' /\ Progress(w)'
<1>1. Copies(w)'
  BY CopiesAt DEF Copies, CopiesNone
<1>2. Exchanged(w)'
  BY DEF Exchanged, Ending
<1>3. Progress(w)'
  BY SameTraits DEF Progress, InQK, InPV, Ending
<1> QED BY <1>1, <1>2, <1>3

LEMMA MergePutKeeps ==
  ASSUME BlockInv, NEW w \in Warps, MergePut(w)
  PROVE  BlockInv'
<1>1. /\ Typed /\ LockStep /\ Copies(w) /\ Progress(w) /\ Merged(w) /\ pc[w] = "merge"
      /\ At(w, "merge") /\ \A v \in Warps : arrived[v] >= arrived[w]
      /\ UNCHANGED <<fixed, iter, flight, score, folded, output>> /\ Sync(w, "combine")
  BY DEF BlockInv, MergePut, At
<1>2. folded[w] = Complete
  BY <1>1 DEF Progress, Complete, Ending, Typed
<1>3. mem' = Stored(w, {Put("merge", Zero)})
  BY <1>2 DEF MergePut, TagIf
<1>4. mem \in [Regions -> [Warps -> Tag]] /\ Zero \in Tag /\ "merge" \in Regions /\ MaxTiles \in Nat
  BY <1>1, WarpsAssumption DEF Typed, Zero, Tag, Junk, Regions
<1>5. \A x \in {Put("merge", Zero)} : x.region = "merge" /\ x.tag = Zero
  BY DEF Put
<1>6. mem' \in [Regions -> [Warps -> Tag]]
  <2>1. {Put("merge", Zero)} \in Groups
    BY <1>4 DEF Groups, Put
  <2> QED BY <1>3, <1>4, <2>1, StoredType
<1>7. mem'["merge"][w] = Zero
  <2> DEFINE writes == {Put("merge", Zero)}
  <2>1. Put("merge", Zero) \in writes /\ mem' = Stored(w, writes)
    BY <1>3
  <2>2. Put("merge", Zero).region = "merge" /\ Put("merge", Zero).tag = Zero
    BY DEF Put
  <2> HIDE DEF writes
  <2>3. \A y \in writes : y.tag = Zero
    BY <1>5 DEF writes
  <2> QED BY <1>4, <2>1, <2>2, <2>3, StoredOwn
<1>8. ASSUME NEW v \in Warps, v # w
      PROVE  mem'["merge"][v] = mem["merge"][v]
  <2>1. \E x \in {Put("merge", Zero)} : x.region = "merge"
    BY <1>5
  <2> QED BY <1>3, <1>4, <1>8, <2>1, StoredPart
<1>9. /\ pc' \in [Warps -> Labels] /\ pc'[w] = "combine"
      /\ \A v \in Warps : v # w => pc'[v] = pc[v]
      /\ arrived' = [arrived EXCEPT ![w] = arrived[w] + 1]
  BY <1>1 DEF Typed, Sync, Labels
<1>10. Typed'
  BY <1>1, <1>6, <1>9 DEF Typed, fixed
<1>11. LockStep'
  <2>1. /\ "combine" = NextStretch(StretchOf(w), RoundOf(w))
        /\ iter[w] = NextRound(StretchOf(w), RoundOf(w))
    BY <1>1 DEF StretchOf, RoundOf, Stretch, Round, NextStretch, NextRound, AfterScores
  <2>2. /\ Stretch("combine") = "combine" /\ Round("combine", iter[w]) = iter[w]
        /\ StretchOf(w) # "exit"
    BY <1>1 DEF Stretch, Round, StretchOf
  <2> QED BY <1>1, <1>9, <2>1, <2>2, LockSync
<1>12. ASSUME NEW v \in Warps
       PROVE  pc[v] \in {"merge", "combine"}
  BY <1>1, Near DEF AfterScores
<1>13. \A v \in Warps : v # w => Keeps(v)
  BY <1>1, <1>9, <1>12 DEF Keeps, Ending
<1>14. Copies(w)' /\ Exchanged(w)' /\ Progress(w)'
  BY <1>1, <1>9, StillEnding DEF Ending
<1>15. Merged(w)'
  BY <1>1, <1>7, <1>9, SameTraits, SameLoads DEF Merged
<1>16. pc[0] \in {"exit", "done"} => pc'[0] \in {"exit", "done"}
  BY <1>12, WarpsFacts
<1> QED BY <1>1, <1>8, <1>10, <1>11, <1>13, <1>14, <1>15, <1>16, Assemble

LEMMA CombineKeeps ==
  ASSUME BlockInv, NEW w \in Warps, Combine(w)
  PROVE  BlockInv'
<1>1. /\ Typed /\ LockStep /\ Copies(w) /\ Progress(w) /\ Merged(w) /\ pc[w] = "combine"
      /\ \A v \in Warps : arrived[v] >= arrived[w]
      /\ UNCHANGED <<fixed, iter, flight, mem, folded, output>> /\ Goto(w, "write")
  BY DEF BlockInv, Combine, At
<1>2. Merges /\ ~VoSplit /\ Col(w) = w
  BY <1>1, MergesFacts DEF Merged
<1>3. ASSUME NEW v \in Warps
      PROVE  pc[v] \in {"combine", "write", "exit"}
  <2>1. arrived[v] \in {arrived[w], arrived[w] + 1}
    <3>1. arrived[v] \in Nat /\ arrived[w] \in Nat /\ arrived[v] >= arrived[w]
      BY <1>1 DEF Typed
    <3> QED BY <1>1, <3>1 DEF LockStep
  <2>2. StretchOf(w) = "combine"
    BY <1>1 DEF StretchOf, Stretch
  <2>3. CASE Beside(v, w)
    BY <2>2, <2>3 DEF Beside, StretchOf, Stretch
  <2>4. CASE Ahead(v, w)
    BY <2>2, <2>4 DEF Ahead, NextStretch, AfterScores
  <2> QED BY <1>1, <2>1, <2>3, <2>4 DEF LockStep
<1>4. Writes(w) => kernel.floatOut \/ pc[0] = "combine"
  BY <1>1, <1>2 DEF Writes
<1>5. ASSUME Writes(w)
      PROVE  All("merge", RowMates(w), Zero)
  <2>1. \A v \in Warps : mem["merge"][v] = Zero
    BY <1>2, <1>3, <1>4, <1>5 DEF BlockInv, Merged
  <2> QED BY <2>1 DEF All, RowMates
<1>6. score' \in [Warps -> Tag] /\ (Writes(w) => score'[w] = Zero)
      /\ \A v \in Warps : v # w => score'[v] = score[v]
  BY <1>1, <1>5, WarpsAssumption DEF Combine, TagIf, Typed, Tag, Zero, Junk
<1>7. /\ pc' \in [Warps -> Labels] /\ pc'[w] = "write"
      /\ \A v \in Warps : v # w => pc'[v] = pc[v]
      /\ arrived' = arrived
  BY <1>1 DEF Typed, Goto, Labels
<1>8. Typed'
  BY <1>1, <1>6, <1>7 DEF Typed, fixed
<1>9. LockStep'
  <2>1. Stretch("write") = StretchOf(w) /\ Round("write", iter[w]) = RoundOf(w)
    BY <1>1, <1>2 DEF StretchOf, RoundOf, Stretch, Round
  <2> QED BY <1>1, <1>7, <2>1, LockGoto
<1>10. \A v \in Warps : v # w => Keeps(v)
  BY <1>1, <1>6, <1>7 DEF Keeps
<1>11. Copies(w)' /\ Exchanged(w)' /\ Progress(w)'
  BY <1>1, <1>7, StillEnding DEF Ending
<1>12. pc[0] \in {"exit", "done"} <=> pc'[0] \in {"exit", "done"}
  BY <1>1, <1>7, WarpsFacts
<1>13. Merged(w)'
  BY <1>1, <1>6, <1>7, <1>12, SameTraits, SameLoads DEF Merged
<1> QED BY <1>1, <1>8, <1>9, <1>10, <1>11, <1>12, <1>13, Assemble

LEMMA WriteOutputKeeps ==
  ASSUME BlockInv, NEW w \in Warps, WriteOutput(w)
  PROVE  BlockInv'
<1> DEFINE stages == Writes(w) /\ ~VoSplit /\ ~kernel.floatOut
<1>1. /\ Typed /\ LockStep /\ Copies(w) /\ Progress(w) /\ Merged(w) /\ pc[w] = "write"
      /\ At(w, "write") /\ \A v \in Warps : arrived[v] >= arrived[w]
      /\ UNCHANGED <<fixed, iter, flight, score, folded>> /\ Sync(w, "exit")
      /\ mem' = IF stages THEN Stored(w, {Put("o", Zero)}) ELSE mem
  BY DEF BlockInv, WriteOutput, At
<1>2. folded[w] = Complete /\ (Merges /\ Writes(w) => score[w] = Zero)
  BY <1>1 DEF Progress, Complete, Ending, Typed, Merged
<1>3. output' = IF Writes(w) THEN [output EXCEPT ![w] = "whole"] ELSE output
  BY <1>2 DEF WriteOutput
<1>4. mem' \in [Regions -> [Warps -> Tag]]
  <2>1. {Put("o", Zero)} \in Groups
    BY WarpsAssumption DEF Groups, Put, Zero, Tag, Junk, Regions
  <2>2. mem \in [Regions -> [Warps -> Tag]]
    BY <1>1 DEF Typed
  <2> HIDE DEF stages
  <2> QED BY <1>1, <2>1, <2>2, StoredType, WarpsAssumption
<1>5. stages /\ Merges => w = 0
  BY <1>1, MergesFacts DEF Writes
<1>6. /\ pc' \in [Warps -> Labels] /\ pc'[w] = "exit"
      /\ \A v \in Warps : v # w => pc'[v] = pc[v]
      /\ arrived' = [arrived EXCEPT ![w] = arrived[w] + 1]
  BY <1>1 DEF Typed, Sync, Labels
<1>7. /\ output' \in [Warps -> {"none", "whole", "wrong"}]
      /\ output'[w] # "wrong" /\ (Writes(w) => output'[w] = "whole")
      /\ \A v \in Warps : v # w => output'[v] = output[v]
  BY <1>1, <1>3 DEF Typed, Merged
<1>8. Typed'
  <2>1. arrived' \in [Warps -> Nat]
    BY <1>1, <1>6 DEF Typed
  <2> HIDE DEF stages
  <2> QED BY <1>1, <1>4, <1>6, <1>7, <2>1 DEF Typed, fixed
<1>9. LockStep'
  <2>1. "exit" = NextStretch(StretchOf(w), RoundOf(w)) /\ iter[w] = NextRound(StretchOf(w), RoundOf(w))
    BY <1>1 DEF StretchOf, RoundOf, Stretch, Round, NextStretch, NextRound, AfterScores
  <2>2. /\ Stretch("exit") = "exit" /\ Round("exit", iter[w]) = iter[w]
        /\ StretchOf(w) # "exit"
    BY <1>1 DEF Stretch, Round, StretchOf
  <2> HIDE DEF stages
  <2> QED BY <1>1, <1>6, <2>1, <2>2, LockSync
<1>10. \A v \in Warps : v # w => Keeps(v)
  <2>1. \A v \in Warps : pc[v] \in Ending
    BY <1>1, NearWrite
  <2> QED BY <1>1, <1>6, <1>7, <2>1 DEF Keeps
<1>11. Copies(w)' /\ Exchanged(w)' /\ Progress(w)'
  BY <1>1, <1>6, StillEnding DEF Ending
<1>12. pc[0] \in {"exit", "done"} => pc'[0] \in {"exit", "done"}
  BY <1>1, <1>6, WarpsFacts
<1>13. Merged(w)'
  <2>1. ASSUME Merges, kernel.floatOut \/ pc'[0] \notin {"exit", "done"}
        PROVE  mem'["merge"][w] = Zero
    <3>1. mem' = mem
      BY <1>1, <1>5, <1>6, <2>1
    <3>2. kernel.floatOut \/ pc[0] \notin {"exit", "done"}
      BY <1>12, <2>1
    <3> QED BY <1>1, <2>1, <3>1, <3>2 DEF Merged
  <2> QED BY <1>1, <1>6, <1>7, <2>1, SameTraits, SameLoads DEF Merged
<1>14. Merges => \/ mem' = mem
                 \/ ~kernel.floatOut /\ pc'[0] \in {"exit", "done"}
  BY <1>1, <1>5, <1>6
<1> HIDE DEF stages
<1> QED BY <1>1, <1>8, <1>9, <1>10, <1>11, <1>12, <1>13, <1>14, Assemble

LEMMA ExitKeeps ==
  ASSUME BlockInv, NEW w \in Warps, Exit(w)
  PROVE  BlockInv'
<1>1. /\ Typed /\ LockStep /\ Copies(w) /\ Progress(w) /\ Merged(w) /\ pc[w] = "exit"
      /\ \A v \in Warps : arrived[v] >= arrived[w]
      /\ UNCHANGED <<fixed, iter, flight, mem, score, folded, output>> /\ Goto(w, "done")
  BY DEF BlockInv, Exit, At
<1>2. /\ pc' \in [Warps -> Labels] /\ pc'[w] = "done"
      /\ \A v \in Warps : v # w => pc'[v] = pc[v]
      /\ arrived' = arrived
  BY <1>1 DEF Typed, Goto, Labels
<1>3. Typed'
  BY <1>1, <1>2 DEF Typed, fixed
<1>4. LockStep'
  <2>1. Stretch("done") = StretchOf(w) /\ Round("done", iter[w]) = RoundOf(w)
    BY <1>1 DEF StretchOf, RoundOf, Stretch, Round
  <2> QED BY <1>1, <1>2, <2>1, LockGoto
<1>5. \A v \in Warps : v # w => Keeps(v)
  BY <1>1, <1>2 DEF Keeps
<1>6. Copies(w)' /\ Exchanged(w)' /\ Progress(w)'
  BY <1>1, <1>2, StillEnding DEF Ending
<1>7. pc[0] \in {"exit", "done"} <=> pc'[0] \in {"exit", "done"}
  BY <1>1, <1>2, WarpsFacts
<1>8. Merged(w)'
  BY <1>1, <1>2, <1>7, SameTraits, SameLoads DEF Merged
<1> QED BY <1>1, <1>3, <1>4, <1>5, <1>6, <1>7, <1>8, Assemble

-----------------------------------------------------------------------------
(* The arrival of a group.                                                 *)

LEMMA EachKept ==
  ASSUME UNCHANGED fixed, NEW w
  PROVE  /\ mem'["q"][w] = mem["q"][w] =>
              (QHeld(w)' <=> QHeld(w)) /\ \A g : QGroup(w, g)' <=> QGroup(w, g)
         /\ mem'["k"][w] = mem["k"][w] /\ mem'["ksf"][w] = mem["ksf"][w] =>
              \A t : /\ KHeld(w, t)' <=> KHeld(w, t)
                     /\ \A g : KGroup(w, g, t)' <=> KGroup(w, g, t)
         /\ mem'[VRegion][w] = mem[VRegion][w] /\ mem'["vsf"][w] = mem["vsf"][w] =>
              \A t : /\ VHeld(w, t)' <=> VHeld(w, t)
                     /\ \A g : VGroup(w, g, t)' <=> VGroup(w, g, t)
<1>1. /\ mem'["q"][w] = mem["q"][w] => (QHeld(w)' <=> QHeld(w))
      /\ mem'["k"][w] = mem["k"][w] /\ mem'["ksf"][w] = mem["ksf"][w] =>
           \A t : KHeld(w, t)' <=> KHeld(w, t)
      /\ mem'[VRegion][w] = mem[VRegion][w] /\ mem'["vsf"][w] = mem["vsf"][w] =>
           \A t : VHeld(w, t)' <=> VHeld(w, t)
  BY StillHeld
<1> QED BY <1>1, SameLoads DEF QGroup, KGroup, VGroup

(* What holds after the arrival of any group: it stored tags of tiles, and *)
(* of what a warp keeps only the tiles of the loading warp changed.        *)
Landed(w) ==
  /\ mem' \in [Regions -> [Warps -> Tag]]
  /\ \A v \in Warps, r \in Parts : v # w => mem'[r][v] = mem[r][v]
  /\ \A r \in {"stage", "max", "sum", "p"} : mem'[r][w] = mem[r][w]

LEMMA QLands ==
  ASSUME Typed, UNCHANGED fixed, NEW w \in Warps, NEW g, g # {}, QGroup(w, g),
         mem' = Stored(w, g)
  PROVE  /\ Landed(w) /\ QGroup(w, {})'
         /\ \A t : /\ KHeld(w, t)' <=> KHeld(w, t)
                   /\ VHeld(w, t)' <=> VHeld(w, t)
                   /\ \A h : KGroup(w, h, t)' <=> KGroup(w, h, t)
                   /\ \A h : VGroup(w, h, t)' <=> VGroup(w, h, t)
<1>1. g = LoadQ(w)
  BY DEF QGroup
<1>2. /\ QHeld(w)'
      /\ \A r \in Parts, v \in Warps : v # w \/ r # "q" => mem'[r][v] = mem[r][v]
  BY <1>1, ArrivedQ
<1>3. mem' \in [Regions -> [Warps -> Tag]]
  <2>1. LoadQ(w) \in Groups
    BY LoadTypes
  <2> QED BY <1>1, <2>1, StoredType, WarpsAssumption DEF Typed
<1>4. {"k", "v", "ksf", "vsf", "stage", "max", "sum", "p"} \subseteq Parts
  BY DEF Parts, Regions, TileRegions
<1>5. VRegion \in {"k", "v"}
  BY DEF VRegion
<1>6. /\ mem'["k"][w] = mem["k"][w] /\ mem'["ksf"][w] = mem["ksf"][w]
      /\ mem'[VRegion][w] = mem[VRegion][w] /\ mem'["vsf"][w] = mem["vsf"][w]
  BY <1>2, <1>4, <1>5
<1>7. Landed(w)
  BY <1>2, <1>3, <1>4 DEF Landed
<1>8. QGroup(w, {})'
  BY <1>2 DEF QGroup
<1> QED BY <1>6, <1>7, <1>8, EachKept

LEMMA KLands ==
  ASSUME Typed, UNCHANGED fixed, NEW w \in Warps, NEW t \in Nat, t # 0, NEW g, g # {},
         KGroup(w, g, t), mem' = Stored(w, g)
  PROVE  /\ Landed(w) /\ KGroup(w, {}, t)'
         /\ QHeld(w)' <=> QHeld(w)
         /\ \A h : QGroup(w, h)' <=> QGroup(w, h)
         /\ ~KvShared => \A u : /\ VHeld(w, u)' <=> VHeld(w, u)
                                /\ \A h : VGroup(w, h, u)' <=> VGroup(w, h, u)
<1>1. g = LoadK(w, t)
  BY DEF KGroup
<1>2. /\ KHeld(w, t)'
      /\ \A r \in Parts, v \in Warps : v # w \/ r \notin {"k", "ksf"} => mem'[r][v] = mem[r][v]
  BY <1>1, ArrivedK
<1>3. mem' \in [Regions -> [Warps -> Tag]]
  <2>1. LoadK(w, t) \in Groups
    BY LoadTypes
  <2> QED BY <1>1, <2>1, StoredType, WarpsAssumption DEF Typed
<1>4. {"q", "v", "vsf", "stage", "max", "sum", "p"} \subseteq Parts
  BY DEF Parts, Regions, TileRegions
<1>5. ~KvShared => VRegion = "v"
  BY DEF VRegion
<1>6. /\ mem'["q"][w] = mem["q"][w]
      /\ ~KvShared => mem'[VRegion][w] = mem[VRegion][w] /\ mem'["vsf"][w] = mem["vsf"][w]
  BY <1>2, <1>4, <1>5
<1>7. Landed(w)
  BY <1>2, <1>3, <1>4 DEF Landed
<1>8. KGroup(w, {}, t)'
  BY <1>2 DEF KGroup
<1> QED BY <1>6, <1>7, <1>8, EachKept

LEMMA VLands ==
  ASSUME Typed, UNCHANGED fixed, NEW w \in Warps, NEW t \in Nat, t # 0, NEW g, g # {},
         VGroup(w, g, t), mem' = Stored(w, g)
  PROVE  /\ Landed(w) /\ VGroup(w, {}, t)'
         /\ QHeld(w)' <=> QHeld(w)
         /\ \A h : QGroup(w, h)' <=> QGroup(w, h)
         /\ ~KvShared => \A u : /\ KHeld(w, u)' <=> KHeld(w, u)
                                /\ \A h : KGroup(w, h, u)' <=> KGroup(w, h, u)
<1>1. g = LoadV(w, t)
  BY DEF VGroup
<1>2. /\ VHeld(w, t)'
      /\ \A r \in Parts, v \in Warps :
           v # w \/ r \notin {VRegion, "vsf"} => mem'[r][v] = mem[r][v]
  BY <1>1, ArrivedV
<1>3. mem' \in [Regions -> [Warps -> Tag]]
  <2>1. LoadV(w, t) \in Groups
    BY LoadTypes
  <2> QED BY <1>1, <2>1, StoredType, WarpsAssumption DEF Typed
<1>4. {"q", "k", "ksf", "stage", "max", "sum", "p"} \subseteq Parts
  BY DEF Parts, Regions, TileRegions
<1>5. VRegion \in {"k", "v"} /\ (~KvShared => VRegion = "v")
  BY DEF VRegion
<1>6. /\ mem'["q"][w] = mem["q"][w]
      /\ ~KvShared => mem'["k"][w] = mem["k"][w] /\ mem'["ksf"][w] = mem["ksf"][w]
  BY <1>2, <1>4, <1>5
<1>7. Landed(w)
  BY <1>2, <1>3, <1>4, <1>5 DEF Landed
<1>8. VGroup(w, {}, t)'
  BY <1>2 DEF VGroup
<1> QED BY <1>6, <1>7, <1>8, EachKept

(* Any group in flight may land, in whatever order: it leaves what its     *)
(* warp already holds and what is still to land as they were.              *)
LEMMA GroupLands ==
  ASSUME Typed, NEW w \in Warps, Copies(w), Progress(w),
         UNCHANGED <<fixed, pc, iter>>,
         NEW i \in DOMAIN flight[w], flight[w][i] # {}, mem' = Stored(w, flight[w][i]),
         flight' = [flight EXCEPT ![w][i] = {}]
  PROVE  Landed(w) /\ Copies(w)' /\ pc[w] \notin Ending
<1> DEFINE g == flight[w][i]
<1>1. /\ flight[w] \in Seq(Groups) /\ i \in 1..Len(flight[w]) /\ Len(flight[w]) \in Nat
      /\ pc[w] \in Labels
  BY DEF Typed
<1>2. /\ Len(flight'[w]) = Len(flight[w]) /\ flight'[w][i] = {}
      /\ \A j \in 1..Len(flight[w]) : j # i => flight'[w][j] = flight[w][j]
  BY <1>1 DEF Typed
<1>3. (KvShared' <=> KvShared) /\ \A n : Separate(n)' = Separate(n) /\ Separate(n) = IF KvShared THEN 0 ELSE n
  BY SameTraits DEF Separate
<1>4. pc'[w] = pc[w] /\ iter'[w] = iter[w] /\ iter[w] \in Nat /\ iter[w] # 0
      /\ iter[w] + 1 \in Nat /\ iter[w] + 1 # 0
  BY WarpsAssumption DEF Typed
<1>5. pc[w] \notin Ending \union {"prologue"}
  BY <1>1 DEF Copies, CopiesNone
<1>6. CASE pc[w] = "top" /\ iter[w] = 1
  <2>1. /\ Len(flight[w]) = 2 + Separate(1) /\ QGroup(w, flight[w][1]) /\ KGroup(w, flight[w][2], 1)
        /\ ~KvShared => VGroup(w, flight[w][3], 1)
    BY <1>6 DEF Copies, CopiesFirst
  <2>2. Landed(w) /\ CopiesFirst(w)'
    <3>1. CASE i = 1
      <4>1. /\ Landed(w) /\ QGroup(w, {})'
            /\ \A h : KGroup(w, h, 1)' <=> KGroup(w, h, 1)
            /\ \A h : VGroup(w, h, 1)' <=> VGroup(w, h, 1)
        BY <2>1, <3>1, QLands
      <4> QED BY <1>2, <1>3, <2>1, <3>1, <4>1 DEF CopiesFirst
    <3>2. CASE i = 2
      <4>1. /\ Landed(w) /\ KGroup(w, {}, 1)'
            /\ \A h : QGroup(w, h)' <=> QGroup(w, h)
            /\ ~KvShared => \A h : VGroup(w, h, 1)' <=> VGroup(w, h, 1)
        BY <1>4, <1>6, <2>1, <3>2, KLands
      <4> QED BY <1>2, <1>3, <2>1, <3>2, <4>1 DEF CopiesFirst
    <3>3. CASE i = 3 /\ ~KvShared
      <4>1. /\ Landed(w) /\ VGroup(w, {}, 1)'
            /\ \A h : QGroup(w, h)' <=> QGroup(w, h)
            /\ \A h : KGroup(w, h, 1)' <=> KGroup(w, h, 1)
        BY <1>4, <1>6, <2>1, <3>3, VLands
      <4> QED BY <1>2, <1>3, <2>1, <3>3, <4>1 DEF CopiesFirst
    <3> QED BY <1>1, <1>3, <2>1, <3>1, <3>2, <3>3
  <2> QED BY <1>4, <1>5, <1>6, <2>2 DEF Copies, CopiesTop, CopiesQK, CopiesWaitV, CopiesPV,
          CopiesNone, InQK, InPV, Ending
<1>7. CASE pc[w] = "top" /\ iter[w] # 1
  <2>1. /\ Len(flight[w]) = 1 + Separate(1) /\ QHeld(w) /\ KGroup(w, flight[w][1], iter[w])
        /\ ~KvShared => VGroup(w, flight[w][2], iter[w])
    BY <1>7 DEF Copies, CopiesTop
  <2>2. Landed(w) /\ CopiesTop(w)'
    <3>1. CASE i = 1
      <4>1. /\ Landed(w) /\ KGroup(w, {}, iter[w])' /\ QHeld(w)'
            /\ ~KvShared => \A h : VGroup(w, h, iter[w])' <=> VGroup(w, h, iter[w])
        BY <1>4, <2>1, <3>1, KLands
      <4> QED BY <1>2, <1>3, <1>4, <2>1, <3>1, <4>1 DEF CopiesTop
    <3>2. CASE i = 2 /\ ~KvShared
      <4>1. /\ Landed(w) /\ VGroup(w, {}, iter[w])' /\ QHeld(w)'
            /\ \A h : KGroup(w, h, iter[w])' <=> KGroup(w, h, iter[w])
        BY <1>4, <2>1, <3>2, VLands
      <4> QED BY <1>2, <1>3, <1>4, <2>1, <3>2, <4>1 DEF CopiesTop
    <3> QED BY <1>1, <1>3, <2>1, <3>1, <3>2
  <2> QED BY <1>4, <1>5, <1>7, <2>2 DEF Copies, CopiesFirst, CopiesQK, CopiesWaitV, CopiesPV,
          CopiesNone, InQK, InPV, Ending
<1>8. CASE pc[w] \in InQK
  <2>1. /\ Len(flight[w]) = Separate(1) /\ QHeld(w) /\ KHeld(w, iter[w])
        /\ ~KvShared => VGroup(w, flight[w][1], iter[w])
    BY <1>8 DEF Copies, CopiesQK
  <2>2. i = 1 /\ ~KvShared
    BY <1>1, <1>3, <2>1
  <2>3. Landed(w) /\ VGroup(w, {}, iter[w])' /\ QHeld(w)' /\ KHeld(w, iter[w])'
    BY <1>4, <2>1, <2>2, VLands
  <2>4. Copies(w)'
    BY <1>2, <1>3, <1>4, <1>8, <2>1, <2>2, <2>3, CopiesAt
  <2> QED BY <1>5, <2>3, <2>4
<1>9. CASE pc[w] = "waitV"
  <2>1. /\ Len(flight[w]) = 1 + Separate(1) /\ QHeld(w) /\ VGroup(w, flight[w][1], iter[w])
        /\ ~KvShared => KGroup(w, flight[w][2], iter[w] + 1)
    BY <1>9 DEF Copies, CopiesWaitV
  <2>2. Landed(w) /\ CopiesWaitV(w)'
    <3>1. CASE i = 1
      <4>1. /\ Landed(w) /\ VGroup(w, {}, iter[w])' /\ QHeld(w)'
            /\ ~KvShared => \A h : KGroup(w, h, iter[w] + 1)' <=> KGroup(w, h, iter[w] + 1)
        BY <1>4, <2>1, <3>1, VLands
      <4> QED BY <1>2, <1>3, <1>4, <2>1, <3>1, <4>1 DEF CopiesWaitV
    <3>2. CASE i = 2 /\ ~KvShared
      <4>1. /\ Landed(w) /\ KGroup(w, {}, iter[w] + 1)' /\ QHeld(w)'
            /\ \A h : VGroup(w, h, iter[w])' <=> VGroup(w, h, iter[w])
        BY <1>4, <2>1, <3>2, KLands
      <4> QED BY <1>2, <1>3, <1>4, <2>1, <3>2, <4>1 DEF CopiesWaitV
    <3> QED BY <1>1, <1>3, <2>1, <3>1, <3>2
  <2> QED BY <1>4, <1>5, <1>9, <2>2 DEF Copies, CopiesFirst, CopiesTop, CopiesQK, CopiesPV,
          CopiesNone, InQK, InPV, Ending
<1>10. CASE pc[w] \in InPV
  <2>1. /\ Len(flight[w]) = Separate(1) /\ QHeld(w) /\ VHeld(w, iter[w])
        /\ ~KvShared => KGroup(w, flight[w][1], iter[w] + 1)
    BY <1>10 DEF Copies, CopiesPV
  <2>2. i = 1 /\ ~KvShared
    BY <1>1, <1>3, <2>1
  <2>3. Landed(w) /\ KGroup(w, {}, iter[w] + 1)' /\ QHeld(w)' /\ VHeld(w, iter[w])'
    BY <1>4, <2>1, <2>2, KLands
  <2>4. Copies(w)'
    BY <1>2, <1>3, <1>4, <1>10, <2>1, <2>2, <2>3, CopiesAt
  <2> QED BY <1>5, <2>3, <2>4
<1>11. pc[w] \in {"top", "waitV"} \union InQK \union InPV
  BY <1>1, <1>5 DEF Labels, InQK, InPV, Ending
<1> QED BY <1>6, <1>7, <1>8, <1>9, <1>10, <1>11

LEMMA ArriveKeeps ==
  ASSUME BlockInv, NEW w \in Warps, Arrive(w)
  PROVE  BlockInv'
<1>1. /\ Typed /\ LockStep /\ Copies(w) /\ Exchanged(w) /\ Progress(w) /\ Merged(w)
      /\ UNCHANGED <<fixed, pc, arrived, iter, score, folded, output>>
  BY DEF BlockInv, Arrive
<1>2. PICK i \in DOMAIN flight[w] :
        /\ flight[w][i] # {} /\ mem' = Stored(w, flight[w][i])
        /\ flight' = [flight EXCEPT ![w][i] = {}]
  BY DEF Arrive
<1>3. Landed(w) /\ Copies(w)' /\ pc[w] \notin Ending
  BY <1>1, <1>2, GroupLands
<1>4. Typed'
  <2>1. flight \in [Warps -> Seq(Groups)] /\ flight[w] \in Seq(Groups) /\ {} \in Groups
    BY <1>1 DEF Typed, Groups
  <2>2. flight' \in [Warps -> Seq(Groups)]
    BY <1>2, <2>1
  <2> QED BY <1>1, <1>3, <2>2 DEF Typed, fixed, Landed
<1>5. LockStep'
  BY <1>1, LockSame
<1>6. \A v \in Warps : v # w => Keeps(v)
  BY <1>1, <1>2, <1>3 DEF Keeps, Landed, Typed
<1>7. Exchanged(w)'
  BY <1>1, <1>3, SameTraits DEF Exchanged, Landed
<1>8. Progress(w)'
  BY <1>1, SameTraits DEF Progress
<1>9. Merged(w)'
  BY <1>1, <1>3, SameTraits, SameLoads DEF Merged, Ending
<1>10. Merges => \A v \in Warps : pc[v] \notin {"combine", "write", "exit", "done"}
  BY <1>1, <1>3, EndIsQuiet
<1> QED BY <1>1, <1>3, <1>4, <1>5, <1>6, <1>7, <1>8, <1>9, <1>10, Assemble

-----------------------------------------------------------------------------
(* The theorems.                                                           *)

LEMMA InitBlock == Init => BlockInv
<1> SUFFICES ASSUME Init
             PROVE  BlockInv
  OBVIOUS
<1>1. kernel \in Kernels /\ chunk \in 0..MaxTiles /\ tiles \in 0..chunk
  BY DEF Init
<1>2. \A w \in Warps : /\ pc[w] = "prologue" /\ arrived[w] = 0 /\ iter[w] = 1
                       /\ flight[w] = << >> /\ folded[w] = << >> /\ output[w] = "none"
  BY DEF Init
<1>3. Typed
  <2>1. MaxTiles \in Nat /\ 1 \in 1..(MaxTiles + 1) /\ Junk \in Tag
    BY WarpsAssumption DEF Junk, Tag
  <2>2. pc \in [Warps -> Labels] /\ output \in [Warps -> {"none", "whole", "wrong"}]
    BY DEF Init, Labels
  <2>3. flight \in [Warps -> Seq(Groups)] /\ folded \in [Warps -> Seq(Int)]
    BY DEF Init
  <2>4. /\ arrived \in [Warps -> Nat] /\ iter \in [Warps -> 1..(MaxTiles + 1)]
        /\ mem \in [Regions -> [Warps -> Tag]] /\ score \in [Warps -> Tag]
    BY <2>1 DEF Init
  <2> QED BY <1>1, <2>2, <2>3, <2>4 DEF Typed
<1>4. LockStep
  BY <1>2 DEF LockStep, Beside, StretchOf, RoundOf
<1>5. \A w \in Warps : Copies(w)
  BY <1>2 DEF Copies, CopiesFirst, CopiesTop, CopiesQK, CopiesWaitV, CopiesPV, CopiesNone,
     InQK, InPV
<1>6. \A w \in Warps : Exchanged(w)
  BY <1>2 DEF Exchanged
<1>7. \A w \in Warps : Progress(w)
  <2>1. [i \in 1..0 |-> i] = << >>
    OBVIOUS
  <2>2. 1 \in 1..(tiles + 1) /\ 1 - 1 = 0
    BY <1>1, WarpsAssumption
  <2> QED BY <1>2, <2>1, <2>2 DEF Progress, InQK, InPV, Ending
<1>8. \A w \in Warps : Merged(w)
  BY <1>2 DEF Merged
<1> QED BY <1>3, <1>4, <1>5, <1>6, <1>7, <1>8 DEF BlockInv

LEMMA NextBlock == BlockInv /\ [Next]_vars => BlockInv'
<1> SUFFICES ASSUME BlockInv, [Next]_vars
             PROVE  BlockInv'
  OBVIOUS
<1>1. ASSUME NEW w \in Warps, Step(w)
      PROVE  BlockInv'
  BY <1>1, PrologueKeeps, WaitKKeeps, RepackKKeeps, ScoresKeeps, ProbsKeeps, RowSumKeeps,
     ProduceKKeeps, WaitVKeeps, RepackVKeeps, FoldKeeps, ProduceVKeeps, DrainKeeps,
     MergePutKeeps, CombineKeeps, WriteOutputKeeps, ExitKeeps DEF Step
<1>2. ASSUME NEW w \in Warps, Arrive(w)
      PROVE  BlockInv'
  BY <1>2, ArriveKeeps
<1>3. CASE UNCHANGED vars
  <2>1. /\ UNCHANGED fixed
        /\ UNCHANGED <<pc, arrived, iter, flight, mem, score, folded, output>>
    BY <1>3 DEF vars, fixed
  <2>2. Typed' /\ LockStep'
    BY <2>1, LockSame DEF BlockInv, Typed, fixed
  <2>3. ASSUME NEW v \in Warps
        PROVE  Keeps(v)
    BY <2>1 DEF Keeps
  <2>4. ASSUME NEW v \in Warps
        PROVE  Copies(v)' /\ Exchanged(v)' /\ Progress(v)' /\ Merged(v)'
    BY <2>1, <2>3, OtherKeeps, OtherMerged DEF BlockInv
  <2> QED BY <2>1, <2>2, <2>4, SameStretch DEF BlockInv
<1> QED BY <1>1, <1>2, <1>3 DEF Next, Done

LEMMA BlockAlways == Spec => []BlockInv
BY InitBlock, NextBlock, PTL DEF Spec

(* Shared memory never holds anything but tags of tiles of the chunk, and  *)
(* a warp never has more than three groups of asynchronous copies in       *)
(* flight; no warp is ever more than one block.sync() ahead of another.    *)
THEOREM TypeCorrect == Spec => []TypeOK
<1>1. BlockInv => TypeOK
  <2> SUFFICES ASSUME BlockInv
               PROVE  TypeOK
    OBVIOUS
  <2>1. Typed /\ LockStep
    BY DEF BlockInv
  <2>2. ASSUME NEW w \in Warps
        PROVE  Len(flight[w]) <= 3
    <3>1. Copies(w) /\ pc[w] \in Labels /\ Separate(1) \in {0, 1}
      BY DEF BlockInv, Typed, Separate
    <3>2. pc[w] \in {"top", "waitV", "prologue"} \union InQK \union InPV \union Ending
      BY <3>1 DEF Labels, InQK, InPV, Ending
    <3> QED BY <3>1, <3>2 DEF Copies, CopiesFirst, CopiesTop, CopiesQK, CopiesWaitV, CopiesPV,
            CopiesNone
  <2>3. ASSUME NEW w \in Warps, NEW i \in DOMAIN flight[w]
        PROVE  flight[w][i] \subseteq [region : Regions, tag : Tag]
    <3>1. flight[w] \in Seq(Groups)
      BY <2>1 DEF Typed
    <3>2. flight[w][i] \in Groups
      BY <3>1
    <3> QED BY <3>2 DEF Groups
  <2>4. ASSUME NEW w \in Warps
        PROVE  Len(folded[w]) <= MaxTiles
    <3>1. /\ iter[w] \in 1..(tiles + 1) /\ tiles \in 0..MaxTiles
          /\ pc[w] = "loadV" => iter[w] <= tiles
          /\ folded[w] = [i \in 1..(IF pc[w] = "loadV" THEN iter[w] ELSE iter[w] - 1) |-> i]
      BY <2>1, WarpsAssumption DEF BlockInv, Progress, Typed, InPV
    <3>2. PICK n \in 0..MaxTiles : folded[w] = [i \in 1..n |-> i]
      BY <3>1, WarpsAssumption
    <3> QED BY <3>2, WarpsAssumption
  <2> QED BY <2>1, <2>2, <2>3, <2>4 DEF TypeOK, Typed, LockStep
<1> QED BY <1>1, BlockAlways, PTL

(* However the warps and the arrivals of their copies interleave between   *)
(* two barriers, every warp folds tile after tile, each from Q, K, V,      *)
(* scales, probabilities and repacked copies that are all of that tile.    *)
THEOREM TilesInOrder == Spec => []TilesFoldInOrder
<1>1. BlockInv => TilesFoldInOrder
  <2> SUFFICES ASSUME BlockInv, NEW w \in Warps
               PROVE  folded[w] = [i \in 1..Len(folded[w]) |-> i]
    BY DEF TilesFoldInOrder
  <2>1. PICK n \in Nat : folded[w] = [i \in 1..n |-> i]
    <3>1. iter[w] \in Nat /\ iter[w] - 1 \in Nat
      BY WarpsAssumption DEF BlockInv, Typed
    <3> QED BY <3>1 DEF BlockInv, Progress
  <2>2. Len(folded[w]) = n
    BY <2>1
  <2> QED BY <2>1, <2>2
<1> QED BY <1>1, BlockAlways, PTL

(* What a warp writes is the state of all tiles, merged where columns of   *)
(* warps hold partial ones: no late copy and no staged output ever lies    *)
(* over a state that is still to be read, and a finished block has written *)
(* every part of its output.                                               *)
THEOREM OutputWhole == Spec => []OutputIsWhole
<1>1. BlockInv => OutputIsWhole
  BY DEF BlockInv, Merged, OutputIsWhole, Finished
<1> QED BY <1>1, BlockAlways, PTL

-----------------------------------------------------------------------------
(* A block never stops short of its end, and cannot go on for ever.  These *)
(* are the two halves of BlockFinishes that need no fairness: some warp    *)
(* can act or some copy can land until all have finished, and there are    *)
(* only so many steps to make.                                             *)

(* A label's place in one turn of the loop or after it, from its end.      *)
Stage(label) ==
  CASE label = "prologue" -> 11 [] label = "top" -> 10 [] label = "repackK" -> 9
    [] label = "scores" -> 8 [] label = "probs" -> 7 [] label = "rowsum" -> 6
    [] label = "loadK" -> 5 [] label = "waitV" -> 4 [] label = "repackV" -> 3
    [] label = "fold" -> 2 [] label = "loadV" -> 1
    [] label = "merge" -> 4 [] label = "combine" -> 3 [] label = "write" -> 2
    [] label = "exit" -> 1 [] OTHER -> 0

(* A bound on the steps a warp has left, and the groups it has in flight.  *)
StepsLeft(w) == 11 * (tiles + 1 - iter[w]) + Stage(pc[w])
Pending(w) == {i \in DOMAIN flight[w] : flight[w][i] # {}}

Closer(w) ==
  \/ StepsLeft(w)' < StepsLeft(w)
  \/ StepsLeft(w)' = StepsLeft(w) /\ Pending(w)' \subseteq Pending(w) /\ Pending(w)' # Pending(w)

LEMMA StepsLeftType ==
  ASSUME BlockInv, NEW w \in Warps
  PROVE  StepsLeft(w) \in Nat
<1>1. iter[w] \in 1..(tiles + 1) /\ tiles \in Nat
  BY WarpsAssumption DEF BlockInv, Typed, Progress
<1>2. Stage(pc[w]) \in Nat
  BY DEF Stage
<1> QED BY <1>1, <1>2 DEF StepsLeft

(* A step moves its warp on to a label nearer the end, or to the next turn *)
(* of the loop, and no other warp.                                         *)
LEMMA StepMoves ==
  ASSUME BlockInv, NEW w \in Warps, Step(w)
  PROVE  /\ UNCHANGED fixed
         /\ \A v \in Warps : v # w =>
              pc'[v] = pc[v] /\ iter'[v] = iter[v] /\ flight'[v] = flight[v]
         /\ \/ iter'[w] = iter[w] /\ Stage(pc'[w]) < Stage(pc[w])
            \/ pc[w] = "loadV" /\ pc'[w] = "top" /\ iter'[w] = iter[w] + 1
<1>1. /\ pc \in [Warps -> Labels] /\ iter \in [Warps -> 1..(MaxTiles + 1)]
      /\ flight \in [Warps -> Seq(Groups)]
  BY DEF BlockInv, Typed
<1>2. CASE Prologue(w)
  BY <1>1, <1>2 DEF Prologue, At, Goto, Stage
<1>3. CASE WaitK(w)
  BY <1>1, <1>3 DEF WaitK, At, Sync, WaitGroup, Stage
<1>4. CASE RepackK(w)
  BY <1>1, <1>4 DEF RepackK, At, Sync, Stage
<1>5. CASE Scores(w)
  BY <1>1, <1>5 DEF Scores, At, Sync, Stage
<1>6. CASE Probs(w)
  BY <1>1, <1>6 DEF Probs, At, Sync, Stage
<1>7. CASE RowSum(w)
  BY <1>1, <1>7 DEF RowSum, At, Sync, Stage
<1>8. CASE ProduceK(w)
  BY <1>1, <1>8 DEF ProduceK, At, Goto, Commit, Stage
<1>9. CASE WaitV(w)
  BY <1>1, <1>9 DEF WaitV, At, Sync, WaitGroup, Stage
<1>10. CASE RepackV(w)
  BY <1>1, <1>10 DEF RepackV, At, Sync, Stage
<1>11. CASE Fold(w)
  BY <1>1, <1>11 DEF Fold, AfterFold, At, Sync, Stage
<1>12. CASE ProduceV(w)
  BY <1>1, <1>12 DEF ProduceV, At, Goto, Commit, Stage
<1>13. CASE Drain(w)
  BY <1>1, <1>13 DEF Drain, At, Sync, WaitGroup, Stage
<1>14. CASE MergePut(w)
  BY <1>1, <1>14 DEF MergePut, At, Sync, Stage
<1>15. CASE Combine(w)
  BY <1>1, <1>15 DEF Combine, At, Goto, Stage
<1>16. CASE WriteOutput(w)
  BY <1>1, <1>16 DEF WriteOutput, At, Sync, Stage
<1>17. CASE Exit(w)
  BY <1>1, <1>17 DEF Exit, At, Goto, Stage
<1> QED BY <1>2, <1>3, <1>4, <1>5, <1>6, <1>7, <1>8, <1>9, <1>10, <1>11, <1>12, <1>13,
        <1>14, <1>15, <1>16, <1>17 DEF Step

(* Every step of a block takes one warp closer to its end, by a step or by *)
(* a copy that has landed, and sets no other warp back: no interleaving    *)
(* makes a warp repeat work or wait in a circle.  A warp makes no more     *)
(* than 11 steps for each tile and 11 around the loop.                     *)
THEOREM EveryStepCounts ==
  Spec => [][\E w \in Warps :
               /\ Closer(w)
               /\ \A v \in Warps : v # w => /\ StepsLeft(v)' = StepsLeft(v)
                                            /\ Pending(v)' = Pending(v)]_vars
<1> DEFINE Counts(w) == /\ Closer(w)
                        /\ \A v \in Warps : v # w => /\ StepsLeft(v)' = StepsLeft(v)
                                                     /\ Pending(v)' = Pending(v)
<1>1. ASSUME BlockInv, NEW w \in Warps, Step(w)
      PROVE  Counts(w)
  <2>1. /\ UNCHANGED fixed
        /\ \A v \in Warps : v # w =>
             pc'[v] = pc[v] /\ iter'[v] = iter[v] /\ flight'[v] = flight[v]
        /\ \/ iter'[w] = iter[w] /\ Stage(pc'[w]) < Stage(pc[w])
           \/ pc[w] = "loadV" /\ pc'[w] = "top" /\ iter'[w] = iter[w] + 1
    BY <1>1, StepMoves
  <2>2. tiles' = tiles /\ tiles \in Int /\ iter[w] \in Int
    BY <1>1, <2>1, WarpsAssumption DEF BlockInv, Typed, fixed
  <2>3. Stage(pc[w]) \in Int /\ Stage(pc'[w]) \in Int
    BY DEF Stage
  <2>4. StepsLeft(w)' < StepsLeft(w)
    <3>1. CASE iter'[w] = iter[w] /\ Stage(pc'[w]) < Stage(pc[w])
      BY <2>2, <2>3, <3>1 DEF StepsLeft
    <3>2. CASE pc[w] = "loadV" /\ pc'[w] = "top" /\ iter'[w] = iter[w] + 1
      <4>1. Stage(pc[w]) = 1 /\ Stage(pc'[w]) = 10
        BY <3>2 DEF Stage
      <4> QED BY <2>2, <3>2, <4>1 DEF StepsLeft
    <3> QED BY <2>1, <3>1, <3>2
  <2> QED BY <2>1, <2>2, <2>4 DEF Closer, StepsLeft, Pending
<1>2. ASSUME BlockInv, NEW w \in Warps, Arrive(w)
      PROVE  Counts(w)
  <2>1. PICK i \in DOMAIN flight[w] :
          flight[w][i] # {} /\ flight' = [flight EXCEPT ![w][i] = {}]
    BY <1>2 DEF Arrive
  <2>2. UNCHANGED <<tiles, pc, iter>>
    BY <1>2 DEF Arrive, fixed
  <2>3. flight \in [Warps -> Seq(Groups)]
    BY <1>2 DEF BlockInv, Typed
  <2>4. /\ \A v \in Warps : v # w => flight'[v] = flight[v]
        /\ DOMAIN flight'[w] = DOMAIN flight[w] /\ flight'[w][i] = {}
        /\ \A j \in DOMAIN flight[w] : j # i => flight'[w][j] = flight[w][j]
    BY <2>1, <2>3
  <2>5. /\ i \in Pending(w) /\ i \notin Pending(w)' /\ Pending(w)' \subseteq Pending(w)
    BY <2>1, <2>4 DEF Pending
  <2> QED BY <2>2, <2>4, <2>5 DEF Closer, StepsLeft, Pending
<1>3. BlockInv /\ [Next]_vars => [\E w \in Warps : Counts(w)]_vars
  BY <1>1, <1>2 DEF Next, Done
<1> QED BY <1>3, BlockAlways, PTL DEF Spec

(* The groups a warp may leave in flight at a wait, and the guard of its   *)
(* next step: it has not finished, all warps have arrived at its barrier,  *)
(* and the copies it waits for have landed.                                *)
MayStay(w) == IF pc[w] = "top" /\ iter[w] > tiles THEN GroupsAtExit ELSE GroupsAhead

Ready(w) ==
  /\ pc[w] # "done" /\ \A v \in Warps : arrived[v] >= arrived[w]
  /\ pc[w] \in {"top", "waitV"} =>
       \A i \in 1..(Len(flight[w]) - MayStay(w)) : flight[w][i] = {}

(* Until a block has finished some warp's next step has its guard, or a    *)
(* copy is on its way: all warps go through the same block.sync() calls    *)
(* whatever the kernel, and none waits for a group it never committed.     *)
THEOREM NeverStuck ==
  Spec => [](Finished \/ \E w \in Warps : Ready(w) \/ Pending(w) # {})
<1>1. ASSUME BlockInv, ~Finished
      PROVE  \E w \in Warps : Ready(w) \/ Pending(w) # {}
  <2>1. Typed /\ LockStep /\ \A v \in Warps : arrived[v] \in Nat
    BY <1>1 DEF BlockInv, Typed
  <2>2. PICK u \in Warps : pc[u] # "done"
    BY <1>1 DEF Finished
  <2>3. \E w \in Warps : pc[w] # "done" /\ \A v \in Warps : arrived[v] >= arrived[w]
    <3>1. CASE \A v \in Warps : arrived[v] >= arrived[u]
      BY <2>2, <3>1
    <3>2. CASE \E x \in Warps : ~(arrived[x] >= arrived[u])
      <4>1. PICK x \in Warps : ~(arrived[x] >= arrived[u])
        BY <3>2
      <4>2. arrived[u] = arrived[x] + 1
        BY <2>1, <2>2, <4>1 DEF LockStep
      <4>3. Ahead(u, x)
        BY <2>1, <2>2, <4>2 DEF LockStep
      <4>4. pc[x] # "done"
        BY <4>3 DEF Ahead, StretchOf, Stretch
      <4>5. \A v \in Warps : arrived[v] >= arrived[x]
        BY <2>1, <2>2, <4>2 DEF LockStep
      <4> QED BY <4>4, <4>5
    <3> QED BY <3>1, <3>2
  <2>4. PICK w \in Warps : pc[w] # "done" /\ \A v \in Warps : arrived[v] >= arrived[w]
    BY <2>3
  <2>5. CASE Pending(w) # {}
    BY <2>5
  <2>6. CASE Pending(w) = {}
    <3>1. flight[w] \in Seq(Groups) /\ MayStay(w) \in {0, 1}
      BY <2>1 DEF Typed, MayStay, GroupsAtExit, GroupsAhead
    <3>2. \A i \in 1..(Len(flight[w]) - MayStay(w)) : flight[w][i] = {}
      <4>1. \A i \in 1..(Len(flight[w]) - MayStay(w)) : i \in DOMAIN flight[w]
        BY <3>1
      <4> QED BY <2>6, <4>1 DEF Pending
    <3> QED BY <2>4, <3>2 DEF Ready
  <2> QED BY <2>5, <2>6
<1> QED BY <1>1, BlockAlways, PTL

-----------------------------------------------------------------------------
(* The block implements BlockService.                                      *)

LEMMA FoldedSoFar ==
  ASSUME BlockInv, NEW w \in Warps
  PROVE  Len(folded[w]) = IF pc[w] = "loadV" THEN iter[w] ELSE iter[w] - 1
<1>1. /\ iter[w] \in 1..(MaxTiles + 1)
      /\ folded[w] = [i \in 1..(IF pc[w] = "loadV" THEN iter[w] ELSE iter[w] - 1) |-> i]
  BY DEF BlockInv, Progress, Typed
<1>2. CASE pc[w] = "loadV"
  <2>1. iter[w] \in Nat /\ folded[w] = [i \in 1..iter[w] |-> i]
    BY <1>1, <1>2, WarpsAssumption
  <2> QED BY <1>2, <2>1
<1>3. CASE pc[w] # "loadV"
  <2>1. iter[w] - 1 \in Nat /\ folded[w] = [i \in 1..(iter[w] - 1) |-> i]
    BY <1>1, <1>3, WarpsAssumption
  <2> QED BY <1>3, <2>1
<1> QED BY <1>2, <1>3

LEMMA InitRefines == Init => Block!Init
BY WarpsAssumption DEF Init, Block!Init

(* A warp folds a tile that all warps have reached.                        *)
LEMMA FoldRefines ==
  ASSUME BlockInv, NEW w \in Warps, Fold(w)
  PROVE  Block!FoldTile(w)
<1> DEFINE t == iter[w]
<1>1. /\ Typed /\ LockStep /\ Exchanged(w) /\ Progress(w) /\ At(w, "fold") /\ pc[w] = "fold"
      /\ UNCHANGED <<fixed, output>>
  BY DEF BlockInv, Fold, At
<1>2. /\ t \in 1..tiles /\ tiles \in 0..MaxTiles /\ score[w] = t /\ VReady(t)
      /\ Repack => All("stage", Warps, t)
      /\ VoSplit => All("p", RowMates(w), t)
  BY <1>1, TileTag, TilesFound, ExchangesFound DEF InPV, Exchanged
<1>3. folded' = [folded EXCEPT ![w] = Append(folded[w], t)]
  BY <1>2 DEF Fold, TagIf
<1>4. Len(folded[w]) = t - 1
  BY <1>1, FoldedSoFar
<1>5. ASSUME NEW v \in Warps
      PROVE  Len(folded[w]) <= Len(folded[v])
  <2>1. pc[v] \in {"fold", "loadV"} /\ iter[v] = t
    BY <1>1, Near DEF AfterScores
  <2> QED BY <1>2, <1>4, <2>1, FoldedSoFar
<1>6. Len(folded[w]) < tiles /\ Len(folded[w]) + 1 = t
  BY <1>2, <1>4, WarpsAssumption
<1> QED BY <1>1, <1>3, <1>5, <1>6 DEF Block!FoldTile, fixed

(* A warp writes when all have left the loop.                              *)
LEMMA WriteRefines ==
  ASSUME BlockInv, NEW w \in Warps, WriteOutput(w)
  PROVE  Block!Write(w) \/ UNCHANGED <<tiles, folded, output>>
<1>1. /\ Typed /\ LockStep /\ Progress(w) /\ Merged(w) /\ At(w, "write") /\ pc[w] = "write"
      /\ UNCHANGED <<fixed, folded>>
  BY DEF BlockInv, WriteOutput, At
<1>2. folded[w] = Complete /\ (Merges /\ Writes(w) => score[w] = Zero) /\ output[w] = "none"
  BY <1>1 DEF Progress, Complete, Ending, Typed, Merged
<1>3. output' = IF Writes(w) THEN [output EXCEPT ![w] = "whole"] ELSE output
  BY <1>2 DEF WriteOutput
<1>4. ASSUME NEW v \in Warps
      PROVE  Len(folded[v]) = tiles
  <2>1. pc[v] \in Ending /\ iter[v] = tiles + 1
    BY <1>1, NearWrite DEF BlockInv, Progress
  <2>2. Len(folded[v]) = iter[v] - 1
    BY <2>1, FoldedSoFar DEF Ending
  <2>3. tiles \in Int
    BY <1>1, WarpsAssumption DEF Typed
  <2> QED BY <2>1, <2>2, <2>3
<1> QED BY <1>1, <1>2, <1>3, <1>4 DEF Block!Write, fixed

LEMMA StepRefines ==
  BlockInv /\ [Next]_vars => [Block!Next]_<<tiles, folded, output>>
<1>1. ASSUME BlockInv, NEW w \in Warps, Step(w)
      PROVE  [Block!Next]_<<tiles, folded, output>>
  <2>1. CASE Fold(w)
    BY <1>1, <2>1, FoldRefines DEF Block!Next
  <2>2. CASE WriteOutput(w)
    BY <1>1, <2>2, WriteRefines DEF Block!Next
  <2>3. CASE ~Fold(w) /\ ~WriteOutput(w)
    BY <1>1, <2>3 DEF Step, Prologue, WaitK, RepackK, Scores, Probs, RowSum, ProduceK, WaitV,
       RepackV, ProduceV, Drain, MergePut, Combine, Exit, fixed
  <2> QED BY <2>1, <2>2, <2>3
<1>2. ASSUME NEW w \in Warps, Arrive(w)
      PROVE  UNCHANGED <<tiles, folded, output>>
  BY <1>2 DEF Arrive, fixed
<1>3. UNCHANGED vars => UNCHANGED <<tiles, folded, output>>
  BY DEF vars
<1> QED BY <1>1, <1>2, <1>3 DEF Next, Done

(* The block implements the service: however its warps and copies          *)
(* interleave, the warps fold tile after tile together, and each writes    *)
(* its part once, after the last has folded the last tile.                 *)
THEOREM KernelRefinesBlock == Spec => ImplementsBlock
BY InitRefines, StepRefines, BlockAlways, PTL DEF Spec, ImplementsBlock, Block!Spec
=============================================================================
