------------------------ MODULE PagedMetadataProofs ------------------------
(***************************************************************************)
(* Proofs about PagedMetadata, for every number of requests, page size,    *)
(* chunk size and model length.                                            *)
(*                                                                         *)
(* The gather programs of two rows never meet, because the page counts     *)
(* they start from are cumulative (CumPagesStep, CumPagesMonotone): what a *)
(* program has copied stays (GatherInv).  Page count and last-page length  *)
(* give back the length because both are taken from it (PagesOfLength).    *)
(***************************************************************************)
EXTENDS PagedMetadata, FiniteSetTheorems, TLAPS

USE SizeAssumption, DcpAssumption, StepsAssumption
USE DEF SizeAssumption, DcpAssumption, StepsAssumption

-----------------------------------------------------------------------------
(* Arithmetic of pages.                                                    *)

(* Quotient and remainder by the page size. *)
LEMMA Quotient ==
  ASSUME NEW a \in Nat
  PROVE  /\ a \div PageSize \in Nat /\ a % PageSize \in 0..(PageSize - 1)
         /\ a = PageSize * (a \div PageSize) + (a % PageSize)
OBVIOUS

(* A multiple of the page size between 0 and the page size is zero. *)
LEMMA SmallMultiple ==
  ASSUME NEW x \in Int, PageSize * x < PageSize, PageSize * x > -PageSize
  PROVE  x = 0
<1>1. CASE x >= 1
  <2>1. PageSize * x >= PageSize * 1
    BY <1>1, SMT
  <2> QED BY <2>1
<1>2. CASE x <= -1
  <2>1. PageSize * x <= PageSize * (-1)
    BY <1>2, SMT
  <2> QED BY <2>1
<1> QED BY <1>1, <1>2

(* The pages of a length, but for the last, plus the last-page length make *)
(* the length; the empty length has no page.                               *)
LEMMA PagesOfLength ==
  ASSUME NEW len \in Nat
  PROVE  /\ Pages(len) \in Nat /\ LastPageLen(len) \in 0..PageSize
         /\ len = 0 => Pages(len) = 0 /\ LastPageLen(len) = 0
         /\ len > 0 => /\ Pages(len) > 0
                       /\ (Pages(len) - 1) * PageSize + LastPageLen(len) = len
<1> DEFINE c == (len + (PageSize - 1)) \div PageSize
           r == (len + (PageSize - 1)) % PageSize
           q == len \div PageSize
           m == len % PageSize
<1>1. /\ c \in Nat /\ r \in 0..(PageSize - 1) /\ q \in Nat /\ m \in 0..(PageSize - 1)
      /\ len + (PageSize - 1) = PageSize * c + r
      /\ len = PageSize * q + m
  <2>1. len + (PageSize - 1) \in Nat
    OBVIOUS
  <2> QED BY <2>1, Quotient
<1>2. Pages(len) = c /\ LastPageLen(len) = IF m = 0 /\ len # 0 THEN PageSize ELSE m
  BY DEF Pages, LastPageLen
<1> HIDE DEF c, r, q, m
<1>3. PageSize * (c - q) = m + (PageSize - 1) - r
  BY <1>1, SMT
<1>4. CASE m = 0
  <2>1. c - q = 0
    <3>1. PageSize * (c - q) < PageSize /\ PageSize * (c - q) > -PageSize /\ c - q \in Int
      BY <1>1, <1>3, <1>4
    <3> QED BY <3>1, SmallMultiple
  <2>2. c = q /\ len = PageSize * c
    BY <1>1, <1>4, <2>1
  <2>3. (c - 1) * PageSize + PageSize = PageSize * c
    BY <1>1, SMT
  <2>4. len = 0 => c = 0
    <3>1. len = 0 => PageSize * c < PageSize /\ PageSize * c > -PageSize
      BY <2>2
    <3> QED BY <3>1, <1>1, SmallMultiple
  <2>5. len > 0 => c > 0
    BY <2>2, <1>1, SMT
  <2> QED BY <1>1, <1>2, <1>4, <2>2, <2>3, <2>4, <2>5
<1>5. CASE m > 0
  <2>1. c - q - 1 = 0
    <3>1. PageSize * (c - q - 1) = PageSize * (c - q) - PageSize
      BY <1>1, SMT
    <3>2. PageSize * (c - q - 1) < PageSize /\ PageSize * (c - q - 1) > -PageSize
      BY <1>1, <1>3, <1>5, <3>1
    <3>3. c - q - 1 \in Int
      BY <1>1
    <3> QED BY <3>2, <3>3, SmallMultiple
  <2>2. c - 1 = q /\ c > 0
    BY <1>1, <2>1
  <2>3. (c - 1) * PageSize = PageSize * q
    BY <1>1, <2>2, SMT
  <2>4. len > 0
    <3>1. PageSize * q >= 0
      BY <1>1, SMT
    <3> QED BY <3>1, <1>1, <1>5
  <2>5. (c - 1) * PageSize + m = len
    BY <1>1, <2>3
  <2>6. LastPageLen(len) = m /\ m \in 0..PageSize
    BY <1>1, <1>2, <1>5
  <2>7. Pages(len) = c
    BY <1>2
  <2>8. len # 0 /\ c > 0 /\ c \in Nat
    BY <1>1, <2>2, <2>4
  <2>9. (Pages(len) - 1) * PageSize + LastPageLen(len) = len
    BY <2>5, <2>6, <2>7, Zenon
  <2> QED BY <2>6, <2>7, <2>8, <2>9, Zenon
<1> QED BY <1>1, <1>4, <1>5

(* A longer sequence has no fewer pages. *)
LEMMA PagesMonotone ==
  ASSUME NEW a \in Nat, NEW b \in Nat, a <= b
  PROVE  Pages(a) <= Pages(b)
<1> DEFINE x == (a + (PageSize - 1)) \div PageSize
           y == (b + (PageSize - 1)) \div PageSize
           rx == (a + (PageSize - 1)) % PageSize
           ry == (b + (PageSize - 1)) % PageSize
<1>1. /\ x \in Nat /\ y \in Nat /\ rx \in 0..(PageSize - 1) /\ ry \in 0..(PageSize - 1)
      /\ a + (PageSize - 1) = PageSize * x + rx
      /\ b + (PageSize - 1) = PageSize * y + ry
  <2>1. a + (PageSize - 1) \in Nat /\ b + (PageSize - 1) \in Nat
    OBVIOUS
  <2> QED BY <2>1, Quotient
<1>2. Pages(a) = x /\ Pages(b) = y
  BY DEF Pages
<1> HIDE DEF x, y, rx, ry
<1>3. PageSize * (x - y) < PageSize
  <2>1. PageSize * (x - y) = PageSize * x - PageSize * y
    BY <1>1, SMT
  <2>2. PageSize * x \in Int /\ PageSize * y \in Int
    BY <1>1
  <2> QED BY <1>1, <2>1, <2>2
<1>4. ~(x - y >= 1)
  <2>1. x - y >= 1 => PageSize * (x - y) >= PageSize * 1
    BY <1>1, SMT
  <2> QED BY <1>1, <1>3, <2>1
<1> QED BY <1>1, <1>2, <1>4

(* A row never needs more pages than max_num_pages_per_req. *)
LEMMA RowPagesBounded ==
  ASSUME NEW len \in Lens
  PROVE  Pages(len) \in 0..MaxPagesPerReq
<1>1. len \in Nat /\ len <= MaxModelLen
  BY DEF Lens
<1>2. Pages(len) \in Nat /\ Pages(MaxModelLen) \in Nat
  BY <1>1, PagesOfLength
<1>3. Pages(len) <= Pages(MaxModelLen)
  BY <1>1, PagesMonotone
<1> QED BY <1>2, <1>3 DEF MaxPagesPerReq

(* max_num_pages_per_req and max_num_pages are naturals. *)
LEMMA MaxPagesType == MaxPagesPerReq \in Nat /\ MaxPages \in Nat
<1>1. MaxPagesPerReq \in Nat
  BY PagesOfLength DEF MaxPagesPerReq
<1> QED BY <1>1 DEF MaxPages

-----------------------------------------------------------------------------
(* Cumulative page counts.                                                 *)

PagesOfRows(blocks, i) ==
  {e \in (1..i) \X (0..(MaxPagesPerReq - 1)) : e[2] < blocks[e[1]]}

(* The pages of any rows are finitely many, and no more than the buffer's. *)
LEMMA CumPagesBounded ==
  ASSUME NEW n \in 0..MaxReqs, NEW blocks \in [1..n -> 0..MaxPagesPerReq], NEW i \in 0..n
  PROVE  /\ IsFiniteSet(PagesOfRows(blocks, i))
         /\ CumPages(blocks, i) = Cardinality(PagesOfRows(blocks, i))
         /\ CumPages(blocks, i) \in 0..MaxPages
<1> DEFINE A == (1..MaxReqs) \X (0..(MaxPagesPerReq - 1))
<1>1. /\ IsFiniteSet(1..MaxReqs) /\ IsFiniteSet(0..(MaxPagesPerReq - 1))
      /\ Cardinality(1..MaxReqs) = MaxReqs
      /\ Cardinality(0..(MaxPagesPerReq - 1)) = MaxPagesPerReq
  BY MaxPagesType, FS_Interval
<1>2. IsFiniteSet(A) /\ Cardinality(A) = MaxPages
  BY <1>1, FS_Product DEF MaxPages
<1>3. PagesOfRows(blocks, i) \subseteq A
  <2>1. 1..i \subseteq 1..MaxReqs
    OBVIOUS
  <2> QED BY <2>1 DEF PagesOfRows
<1>4. /\ IsFiniteSet(PagesOfRows(blocks, i))
      /\ Cardinality(PagesOfRows(blocks, i)) <= MaxPages
  BY <1>2, <1>3, FS_Subset
<1>5. Cardinality(PagesOfRows(blocks, i)) \in Nat
  BY <1>4, FS_CardinalityType
<1>6. CumPages(blocks, i) = Cardinality(PagesOfRows(blocks, i))
  BY DEF CumPages, PagesOfRows
<1> QED BY <1>4, <1>5, <1>6, MaxPagesType

(* No row, no page: the entry 0 of the indptr never changes. *)
LEMMA CumPagesZero ==
  ASSUME NEW blocks
  PROVE  CumPages(blocks, 0) = 0
<1>1. {e \in (1..0) \X (0..(MaxPagesPerReq - 1)) : e[2] < blocks[e[1]]} = {}
  OBVIOUS
<1> QED BY <1>1, FS_EmptySet DEF CumPages

(* Each row adds its own pages. *)
LEMMA CumPagesStep ==
  ASSUME NEW n \in 0..MaxReqs, NEW blocks \in [1..n -> 0..MaxPagesPerReq], NEW i \in 1..n
  PROVE  CumPages(blocks, i) = CumPages(blocks, i - 1) + blocks[i]
<1> DEFINE A == PagesOfRows(blocks, i - 1)
           B == {i} \X (0..(blocks[i] - 1))
<1>1. IsFiniteSet(A) /\ Cardinality(A) = CumPages(blocks, i - 1)
  <2>1. i - 1 \in 0..n
    OBVIOUS
  <2> QED BY <2>1, CumPagesBounded
<1>2. IsFiniteSet(B) /\ Cardinality(B) = blocks[i]
  <2>1. IsFiniteSet({i}) /\ Cardinality({i}) = 1
    BY FS_Singleton
  <2>2. blocks[i] \in Nat
    BY MaxPagesType
  <2>3. /\ IsFiniteSet(0..(blocks[i] - 1))
        /\ Cardinality(0..(blocks[i] - 1)) = blocks[i]
    <3> DEFINE top == blocks[i] - 1
    <3>1. top \in Int /\ top + 1 = blocks[i] /\ top >= -1
      BY <2>2
    <3> HIDE DEF top
    <3>2. /\ IsFiniteSet(0..top)
          /\ Cardinality(0..top) = IF 0 > top THEN 0 ELSE top - 0 + 1
      <4>1. 0 \in Int
        OBVIOUS
      <4> QED BY <3>1, <4>1, FS_Interval, Zenon
    <3>3. (IF 0 > top THEN 0 ELSE top - 0 + 1) = top + 1
      BY <3>1
    <3>4. IsFiniteSet(0..top) /\ Cardinality(0..top) = top + 1
      BY <3>2, <3>3
    <3> QED BY <3>1, <3>4, Zenon DEF top
  <2> HIDE DEF B
  <2>4. IsFiniteSet(B) /\ Cardinality(B) = 1 * blocks[i]
    BY <2>1, <2>3, FS_Product DEF B
  <2> QED BY <2>2, <2>4
<1>3. A \cap B = {}
  BY DEF PagesOfRows
<1>4. PagesOfRows(blocks, i) = A \cup B
  <2>1. ASSUME NEW e \in PagesOfRows(blocks, i) PROVE e \in A \cup B
    <3>1. e \in (1..i) \X (0..(MaxPagesPerReq - 1)) /\ e[2] < blocks[e[1]]
      BY <2>1 DEF PagesOfRows
    <3>2. CASE e[1] = i
      <4>1. e = <<i, e[2]>> /\ e[2] \in 0..(MaxPagesPerReq - 1) /\ e[2] < blocks[i]
        BY <3>1, <3>2
      <4>2. blocks[i] \in 0..MaxPagesPerReq
        OBVIOUS
      <4>3. e[2] \in 0..(blocks[i] - 1)
        BY <4>1, <4>2, MaxPagesType
      <4>4. e \in B
        BY <4>1, <4>3
      <4> QED BY <4>4
    <3>3. CASE e[1] # i
      BY <3>1, <3>3 DEF PagesOfRows
    <3> QED BY <3>2, <3>3
  <2>2. A \subseteq PagesOfRows(blocks, i)
    BY DEF PagesOfRows
  <2>3. B \subseteq PagesOfRows(blocks, i)
    <3>1. blocks[i] \in 0..MaxPagesPerReq
      OBVIOUS
    <3> QED BY <3>1, MaxPagesType DEF PagesOfRows
  <2> QED BY <2>1, <2>2, <2>3
<1>5. Cardinality(A \cup B) = Cardinality(A) + Cardinality(B)
  <2> HIDE DEF A, B
  <2>1. Cardinality(A \cup B) = Cardinality(A) + Cardinality(B) - Cardinality(A \cap B)
    BY <1>1, <1>2, FS_Union
  <2>2. Cardinality(A) \in Nat /\ Cardinality(B) \in Nat
    BY <1>1, <1>2, FS_CardinalityType
  <2>3. Cardinality(A \cap B) = 0
    BY <1>3, FS_EmptySet, Zenon
  <2> QED BY <2>1, <2>2, <2>3, SMT
<1>6. CumPages(blocks, i) = Cardinality(PagesOfRows(blocks, i))
  <2>1. i \in 0..n
    OBVIOUS
  <2> QED BY <2>1, CumPagesBounded
<1> QED BY <1>1, <1>2, <1>4, <1>5, <1>6, Zenon

(* A later row starts after an earlier one. *)
LEMMA CumPagesMonotone ==
  ASSUME NEW n \in 0..MaxReqs, NEW blocks \in [1..n -> 0..MaxPagesPerReq],
         NEW i \in 0..n, NEW k \in 0..n, i <= k
  PROVE  CumPages(blocks, i) <= CumPages(blocks, k)
<1>1. PagesOfRows(blocks, i) \subseteq PagesOfRows(blocks, k)
  <2>1. 1..i \subseteq 1..k
    OBVIOUS
  <2> QED BY <2>1 DEF PagesOfRows
<1>2. IsFiniteSet(PagesOfRows(blocks, k))
  BY CumPagesBounded
<1>3. Cardinality(PagesOfRows(blocks, i)) <= Cardinality(PagesOfRows(blocks, k))
  BY <1>1, <1>2, FS_Subset
<1> QED BY <1>3, CumPagesBounded

-----------------------------------------------------------------------------
(* The invariant.                                                          *)

(* The page counts of the latest batch. *)
Blocks == [r \in 1..batch.n |-> Pages(batch.lens[r])]

(* The CPU buffers hold the metadata of the latest batch. *)
HostInv ==
  /\ \A i \in 0..batch.n : host.indptr[i] = CumPages(Blocks, i)
  /\ DcpWorld = 1 => \A r \in 1..batch.n : /\ batch.adjusted[r] = batch.lens[r]
                                           /\ host.last[r] = LastPageLen(batch.lens[r])

(* The GPU buffers hold it once they have been copied. *)
GpuInv ==
  /\ phase # "indptr" => \A i \in 0..batch.n : gpu.indptr[i] = CumPages(Blocks, i)
  /\ phase = "attend" => \A r \in 1..batch.n : gpu.last[r] = host.last[r]

(* What the gather program of a row has copied is in place and stays there. *)
GatherInv ==
  /\ phase = "indptr" => \A r \in Rows : copied[r] = 0
  /\ phase # "indptr" =>
       \A r \in 1..batch.n :
         /\ copied[r] <= Blocks[r]
         /\ \A j \in 0..(copied[r] - 1) :
              indices[CumPages(Blocks, r - 1) + j] = <<step, r, j>>
  /\ phase = "attend" => \A r \in 1..batch.n : copied[r] = Blocks[r]

Inv == TypeOK /\ HostInv /\ GpuInv /\ GatherInv

(* The page counts of a batch have the type the lemmas above ask for. *)
LEMMA BlocksType ==
  ASSUME TypeOK
  PROVE  batch.n \in 0..MaxReqs /\ Blocks \in [1..batch.n -> 0..MaxPagesPerReq]
<1>1. \A r \in 1..batch.n : Pages(batch.lens[r]) \in 0..MaxPagesPerReq
  BY RowPagesBounded DEF TypeOK
<1> QED BY <1>1 DEF TypeOK, Blocks

(* A rank's share of a sequence is a length. *)
LEMMA LocalLenType ==
  ASSUME NEW len \in Lens
  PROVE  LocalLen(len) \in Lens
<1> DEFINE A == {t \in 0..(len - 1) : (t \div Interleave) % DcpWorld = DcpRank}
           top == len - 1
<1>1. top \in Int /\ top + 1 = len /\ top >= -1 /\ len \in Nat /\ len <= MaxModelLen
  BY DEF Lens
<1>2. A \subseteq 0..top
  OBVIOUS
<1> HIDE DEF A, top
<1>3. /\ IsFiniteSet(0..top)
      /\ Cardinality(0..top) = IF 0 > top THEN 0 ELSE top - 0 + 1
  <2>1. 0 \in Int
    OBVIOUS
  <2> QED BY <1>1, <2>1, FS_Interval, Zenon
<1>4. IsFiniteSet(A) /\ Cardinality(A) <= Cardinality(0..top)
  BY <1>2, <1>3, FS_Subset
<1>5. Cardinality(A) \in Nat
  BY <1>4, FS_CardinalityType
<1>6. Cardinality(A) <= len
  <2>1. (IF 0 > top THEN 0 ELSE top - 0 + 1) = len
    BY <1>1
  <2> QED BY <1>3, <1>4, <2>1
<1>7. LocalLen(len) = Cardinality(A)
  BY DEF LocalLen, A
<1> QED BY <1>1, <1>5, <1>6, <1>7 DEF Lens

(* The first pages of the rows fit the indptr table. *)
LEMMA TablesType == Tables = [indptr : [0..MaxReqs -> 0..MaxPages], last : [Rows -> 0..PageSize]]
BY DEF Tables, MaxPages

LEMMA InitInv == Init => Inv
<1> SUFFICES ASSUME Init PROVE Inv
  OBVIOUS
<1> USE DEF Init
<1>1. TypeOK
  BY MaxPagesType, TablesType DEF TypeOK, Rows, Entry
<1>2. \A i \in 0..batch.n : i = 0
  OBVIOUS
<1>3. HostInv
  BY <1>2, CumPagesZero DEF HostInv
<1>4. GpuInv
  BY <1>2, CumPagesZero DEF GpuInv
<1>5. GatherInv
  BY DEF GatherInv
<1> QED BY <1>1, <1>3, <1>4, <1>5 DEF Inv

(* build() replaces the metadata of the last batch, rows it does not have  *)
(* keep theirs.                                                            *)
LEMMA BuildInv ==
  ASSUME Inv, NEW n \in Rows, NEW lens \in [1..n -> Lens],
         NEW new \in NewTokens(n, lens), Build(n, lens, new)
  PROVE  Inv'
<1> DEFINE context == [r \in 1..n |-> IF DcpWorld > 1 THEN lens[r] - new[r] ELSE lens[r]]
           blocks == [r \in 1..n |-> Pages(lens[r])]
<1>1. n \in 1..MaxReqs /\ TypeOK /\ phase = "idle" /\ step < MaxSteps
  BY DEF Inv, Rows, Build
<1>2. blocks \in [1..n -> 0..MaxPagesPerReq]
  BY RowPagesBounded
<1>3. /\ batch'.n = n /\ batch'.lens = lens /\ phase' = "indptr" /\ step' = step + 1
      /\ copied' = [r \in Rows |-> 0] /\ gpu' = gpu /\ indices' = indices
      /\ batch'.adjusted = [r \in 1..n |-> IF DcpWorld > 1 THEN LocalLen(context[r])
                                           ELSE context[r]]
      /\ host'.indptr = [i \in 0..MaxReqs |->
                           IF i \in 1..n THEN CumPages(blocks, i) ELSE host.indptr[i]]
      /\ host'.last = [r \in Rows |->
                         IF r <= n THEN LastPageLen(context[r]) ELSE host.last[r]]
      /\ host' = [indptr |-> host'.indptr, last |-> host'.last]
  BY DEF Build
<1>4. Blocks' = blocks
  BY <1>3 DEF Blocks
<1>5. context \in [1..n -> Lens] /\ (DcpWorld = 1 => context = lens)
  <2>1. CASE DcpWorld = 1
    BY <2>1
  <2>2. CASE DcpWorld > 1
    <3>1. \A r \in 1..n : new[r] \in Lens /\ lens[r] \in Lens /\ new[r] <= lens[r]
      <4>1. DcpWorld # 1
        BY <2>2
      <4>2. new \in [1..n -> Lens] /\ \A r \in 1..n : new[r] <= lens[r]
        BY <4>1, Zenon DEF NewTokens
      <4> QED BY <4>2
    <3>2. \A r \in 1..n : lens[r] - new[r] \in Lens
      BY <3>1 DEF Lens
    <3> QED BY <2>2, <3>2
  <2> QED BY <2>1, <2>2
<1> HIDE DEF context, blocks
<1>6. TypeOK'
  <2>1. batch'.n \in 0..MaxReqs /\ batch'.lens \in [1..batch'.n -> Lens]
    BY <1>1, <1>3
  <2>2. batch'.adjusted \in [1..batch'.n -> Lens]
    <3>1. \A r \in 1..n : context[r] \in Lens /\ LocalLen(context[r]) \in Lens
      BY <1>5, LocalLenType
    <3> QED BY <1>3, <3>1
  <2>3. host' \in Tables
    <3>1. \A i \in 1..n : i \in 0..n /\ CumPages(blocks, i) \in 0..MaxPages
      <4>1. n \in 0..MaxReqs
        BY <1>1
      <4> QED BY <4>1, <1>2, CumPagesBounded
    <3>2. host.indptr \in [0..MaxReqs -> 0..MaxPages] /\ host.last \in [Rows -> 0..PageSize]
      BY <1>1, TablesType DEF TypeOK
    <3>3. host'.indptr \in [0..MaxReqs -> 0..MaxPages]
      BY <1>1, <1>3, <3>1, <3>2
    <3>4. \A r \in 1..n : LastPageLen(context[r]) \in 0..PageSize
      <4>1. \A r \in 1..n : context[r] \in Nat
        BY <1>5 DEF Lens
      <4> QED BY <4>1, PagesOfLength
    <3>5. host'.last \in [Rows -> 0..PageSize]
      BY <1>1, <1>3, <3>2, <3>4 DEF Rows
    <3> QED BY <1>3, <3>3, <3>5, TablesType
  <2>4. gpu' \in Tables /\ indices' \in [Slots -> Entry]
    BY <1>1, <1>3 DEF TypeOK
  <2>5. copied' \in [Rows -> 0..MaxPagesPerReq]
    BY <1>3, MaxPagesType
  <2>6. step' \in 0..MaxSteps /\ phase' \in {"idle", "indptr", "gather", "attend"}
    BY <1>1, <1>3 DEF TypeOK
  <2> QED BY <2>1, <2>2, <2>3, <2>4, <2>5, <2>6 DEF TypeOK
<1>7. HostInv'
  <2>1. \A i \in 0..n : host'.indptr[i] = CumPages(blocks, i)
    <3>1. host.indptr[0] = CumPages(Blocks, 0)
      <4>1. 0 \in 0..batch.n
        BY <1>1 DEF TypeOK
      <4> QED BY <4>1 DEF Inv, HostInv
    <3>2. host.indptr[0] = 0 /\ CumPages(blocks, 0) = 0
      BY <3>1, CumPagesZero
    <3>3. \A i \in 1..n : host'.indptr[i] = CumPages(blocks, i)
      BY <1>1, <1>3
    <3>4. host'.indptr[0] = host.indptr[0]
      BY <1>3
    <3>5. \A i \in 0..n : i = 0 \/ i \in 1..n
      BY <1>1
    <3> QED BY <3>2, <3>3, <3>4, <3>5
  <2>2. DcpWorld = 1 =>
          \A r \in 1..n : /\ batch'.adjusted[r] = lens[r]
                          /\ host'.last[r] = LastPageLen(lens[r])
    BY <1>1, <1>3, <1>5 DEF Rows
  <2> QED BY <1>3, <1>4, <2>1, <2>2 DEF HostInv
<1>8. GpuInv'
  BY <1>3 DEF GpuInv
<1>9. GatherInv'
  BY <1>3 DEF GatherInv
<1> QED BY <1>6, <1>7, <1>8, <1>9 DEF Inv

(* The copies put on the GPU what build() computed. *)
LEMMA CopyIndptrInv ==
  ASSUME Inv, CopyIndptr
  PROVE  Inv'
<1>1. /\ TypeOK /\ HostInv /\ phase = "indptr" /\ phase' = "gather"
      /\ step' = step /\ batch' = batch /\ host' = host /\ indices' = indices
      /\ copied' = copied
      /\ gpu' = [gpu EXCEPT !.indptr = [i \in 0..MaxReqs |->
                    IF i <= batch.n THEN host.indptr[i] ELSE gpu.indptr[i]]]
  BY DEF Inv, CopyIndptr
<1>2. batch.n \in 0..MaxReqs /\ Blocks \in [1..batch.n -> 0..MaxPagesPerReq]
  BY <1>1, BlocksType
<1>3. Blocks' = Blocks
  BY <1>1 DEF Blocks
<1>4. /\ gpu'.indptr = [i \in 0..MaxReqs |->
                           IF i <= batch.n THEN host.indptr[i] ELSE gpu.indptr[i]]
      /\ gpu' \in Tables
  <2>1. gpu \in Tables /\ host \in Tables
    BY <1>1 DEF TypeOK
  <2> QED BY <1>1, <2>1 DEF Tables
<1>5. TypeOK'
  BY <1>1, <1>4 DEF TypeOK
<1>6. HostInv'
  BY <1>1, <1>3 DEF HostInv
<1>7. GpuInv'
  <2>1. \A i \in 0..batch.n : gpu'.indptr[i] = CumPages(Blocks, i)
    BY <1>1, <1>2, <1>4 DEF HostInv
  <2> QED BY <1>1, <1>3, <2>1 DEF GpuInv
<1>8. GatherInv'
  <2>1. \A r \in 1..batch.n : copied[r] = 0 /\ Blocks[r] \in Nat
    BY <1>1, <1>2, MaxPagesType DEF Inv, GatherInv, Rows
  <2> QED BY <1>1, <1>3, <2>1 DEF GatherInv
<1> QED BY <1>5, <1>6, <1>7, <1>8 DEF Inv

(* One iteration of a program copies the offsets up to a limit it moves. *)
ChunkOf(c, nb) == {o \in c..(c + BlockSize - 1) : o < nb}

LEMMA ChunkIsInterval ==
  ASSUME NEW c \in Nat, NEW nb \in Nat, c < nb
  PROVE  /\ c + Cardinality(ChunkOf(c, nb)) \in 0..nb
         /\ \A o \in Int :
              o \in ChunkOf(c, nb) <=> o >= c /\ o < c + Cardinality(ChunkOf(c, nb))
<1> DEFINE chunk == ChunkOf(c, nb)
           top == IF c + BlockSize <= nb THEN c + BlockSize - 1 ELSE nb - 1
<1>1. top \in Int /\ c <= top /\ top < nb /\ chunk = c..top
  BY DEF ChunkOf
<1> HIDE DEF chunk, top
<1>2. Cardinality(c..top) = IF c > top THEN 0 ELSE top - c + 1
  <2>1. c \in Int
    OBVIOUS
  <2> QED BY <1>1, <2>1, FS_Interval, Zenon
<1>3. c + Cardinality(chunk) = top + 1
  BY <1>1, <1>2
<1>4. \A o \in Int : o \in chunk <=> o >= c /\ o < c + Cardinality(chunk)
  BY <1>1, <1>3
<1>5. c + Cardinality(chunk) \in 0..nb
  BY <1>1, <1>3
<1> QED BY <1>4, <1>5 DEF chunk

(* The page ranges of two rows are apart, and within the buffer. *)
LEMMA RowsApart ==
  ASSUME TypeOK, NEW r \in 1..batch.n
  PROVE  /\ CumPages(Blocks, r - 1) \in Nat /\ CumPages(Blocks, r) \in Nat
         /\ Blocks[r] \in 0..MaxPagesPerReq
         /\ CumPages(Blocks, r) = CumPages(Blocks, r - 1) + Blocks[r]
         /\ CumPages(Blocks, r) <= MaxPages
         /\ \A q \in 1..batch.n :
              r < q => CumPages(Blocks, r) <= CumPages(Blocks, q - 1)
<1>1. batch.n \in 0..MaxReqs /\ Blocks \in [1..batch.n -> 0..MaxPagesPerReq]
  BY BlocksType
<1>2. r - 1 \in 0..batch.n /\ r \in 0..batch.n
  BY <1>1
<1>3. CumPages(Blocks, r - 1) \in 0..MaxPages /\ CumPages(Blocks, r) \in 0..MaxPages
  BY <1>1, <1>2, CumPagesBounded
<1>4. CumPages(Blocks, r) = CumPages(Blocks, r - 1) + Blocks[r]
  BY <1>1, CumPagesStep
<1>5. ASSUME NEW q \in 1..batch.n, r < q
      PROVE  CumPages(Blocks, r) <= CumPages(Blocks, q - 1)
  <2>1. q - 1 \in 0..batch.n /\ r <= q - 1
    BY <1>1, <1>5
  <2> QED BY <1>1, <1>2, <2>1, CumPagesMonotone
<1> QED BY <1>1, <1>3, <1>4, <1>5, MaxPagesType

(* A gather program extends what it has copied and spoils no other row's. *)
LEMMA GatherChunkInv ==
  ASSUME Inv, NEW r \in Rows, GatherChunk(r)
  PROVE  Inv'
<1> DEFINE start(q) == CumPages(Blocks, q - 1)
           c == copied[r]
           chunk == ChunkOf(c, Blocks[r])
           d == c + Cardinality(chunk)
<1>1. /\ TypeOK /\ HostInv /\ GpuInv /\ GatherInv /\ phase = "gather"
      /\ r \in 1..batch.n /\ c < NumBlocks(r)
      /\ step' = step /\ phase' = phase /\ batch' = batch /\ host' = host /\ gpu' = gpu
  BY DEF Inv, GatherChunk, Rows, TypeOK
<1>2. Blocks' = Blocks
  BY <1>1 DEF Blocks
<1>3. gpu.indptr[r - 1] = start(r) /\ NumBlocks(r) = Blocks[r]
  <2>1. \A i \in 0..batch.n : gpu.indptr[i] = CumPages(Blocks, i)
    BY <1>1 DEF GpuInv
  <2>2. r - 1 \in 0..batch.n /\ r \in 0..batch.n
    BY <1>1 DEF TypeOK
  <2>3. gpu.indptr[r - 1] = start(r) /\ gpu.indptr[r] = CumPages(Blocks, r)
    BY <2>1, <2>2
  <2>4. CumPages(Blocks, r) - start(r) = Blocks[r]
    BY <1>1, RowsApart
  <2> QED BY <2>3, <2>4 DEF NumBlocks
<1>4. /\ indices' = [p \in Slots |-> IF p - start(r) \in chunk
                                      THEN <<step, r, p - start(r)>> ELSE indices[p]]
      /\ copied' = [copied EXCEPT ![r] = d]
  BY <1>1, <1>3 DEF GatherChunk, Chunk, ChunkOf
<1>5. c \in Nat /\ Blocks[r] \in Nat /\ c < Blocks[r] /\ start(r) \in Nat
  BY <1>1, <1>3, RowsApart, MaxPagesType DEF TypeOK
<1>6. d \in 0..Blocks[r] /\ \A o \in Int : o \in chunk <=> o >= c /\ o < d
  <2> HIDE DEF start, c
  <2> QED BY <1>5, ChunkIsInterval
<1>7. copied \in [Rows -> 0..MaxPagesPerReq] /\ indices \in [Slots -> Entry]
  BY <1>1 DEF TypeOK
<1>8. start(r) + Blocks[r] <= MaxPages /\ Blocks[r] <= MaxPagesPerReq
  BY <1>1, RowsApart, MaxPagesType
<1> HIDE DEF start, c, chunk, d
<1>9. TypeOK'
  <2>1. copied' \in [Rows -> 0..MaxPagesPerReq]
    BY <1>4, <1>5, <1>6, <1>7, <1>8, MaxPagesType
  <2>2. ASSUME NEW p \in Slots PROVE indices'[p] \in Entry
    <3>1. CASE p - start(r) \in chunk
      <4>1. p - start(r) \in Int
        BY <1>5, MaxPagesType DEF Slots
      <4>2. p - start(r) \in 0..MaxPagesPerReq
        BY <3>1, <4>1, <1>5, <1>6, <1>8, MaxPagesType
      <4>3. step \in 0..MaxSteps /\ r \in 0..MaxReqs
        BY <1>1 DEF TypeOK, Rows
      <4> QED BY <1>4, <3>1, <4>2, <4>3 DEF Entry
    <3>2. CASE p - start(r) \notin chunk
      BY <1>4, <1>7, <3>2
    <3> QED BY <3>1, <3>2
  <2>3. indices' \in [Slots -> Entry]
    BY <1>4, <2>2
  <2> QED BY <1>1, <2>1, <2>3 DEF TypeOK
<1>10. HostInv' /\ GpuInv'
  BY <1>1, <1>2 DEF HostInv, GpuInv
<1>11. ASSUME NEW q \in 1..batch.n
       PROVE  /\ copied'[q] <= Blocks[q]
              /\ \A j \in 0..(copied'[q] - 1) : indices'[start(q) + j] = <<step, q, j>>
  <2>1. /\ q \in Rows /\ start(q) \in Nat /\ Blocks[q] \in Nat
        /\ start(q) + Blocks[q] <= MaxPages /\ copied[q] \in Nat
        /\ copied[q] <= Blocks[q]
        /\ \A j \in 0..(copied[q] - 1) : indices[start(q) + j] = <<step, q, j>>
    <3>1. q \in Rows /\ copied[q] \in Nat
      BY <1>1, <1>7, MaxPagesType DEF Rows, TypeOK
    <3>2. start(q) \in Nat /\ Blocks[q] \in Nat /\ start(q) + Blocks[q] <= MaxPages
      BY <1>1, RowsApart, MaxPagesType DEF start
    <3>3. /\ copied[q] <= Blocks[q]
          /\ \A j \in 0..(copied[q] - 1) : indices[start(q) + j] = <<step, q, j>>
      BY <1>1 DEF GatherInv, start
    <3> QED BY <3>1, <3>2, <3>3
  <2>2. CASE q = r
    <3>1. copied'[q] = d /\ copied[q] = c
      BY <1>4, <1>7, <2>1, <2>2 DEF c
    <3>2. ASSUME NEW j \in 0..(d - 1) PROVE indices'[start(q) + j] = <<step, q, j>>
      <4>1. start(q) + j \in Slots /\ j \in Int /\ (start(q) + j) - start(q) = j
        BY <1>6, <1>5, <2>1, <2>2, MaxPagesType DEF Slots
      <4>2. CASE j \in chunk
        BY <1>4, <2>2, <4>1, <4>2
      <4>3. CASE j \notin chunk
        <5>1. j \in 0..(c - 1)
          BY <1>5, <1>6, <4>1, <4>3
        <5>2. indices'[start(q) + j] = indices[start(q) + j]
          BY <1>4, <2>2, <4>1, <4>3
        <5> QED BY <2>1, <3>1, <5>1, <5>2
      <4> QED BY <4>2, <4>3
    <3> QED BY <1>6, <2>2, <3>1, <3>2
  <2>3. CASE q # r
    <3>1. copied'[q] = copied[q]
      BY <1>4, <1>7, <2>1, <2>3
    <3>2. start(q) + Blocks[q] <= start(r) \/ start(r) + Blocks[r] <= start(q)
      <4>1. q < r \/ r < q
        BY <1>1, <2>3 DEF Rows
      <4>2. q < r => CumPages(Blocks, q) <= start(r)
        BY <1>1, RowsApart DEF start
      <4>3. r < q => CumPages(Blocks, r) <= start(q)
        BY <1>1, RowsApart DEF start
      <4>4. /\ CumPages(Blocks, q) = start(q) + Blocks[q]
            /\ CumPages(Blocks, r) = start(r) + Blocks[r]
        BY <1>1, RowsApart DEF start
      <4> QED BY <4>1, <4>2, <4>3, <4>4
    <3>3. ASSUME NEW j \in 0..(copied[q] - 1)
          PROVE  indices'[start(q) + j] = indices[start(q) + j]
      <4>1. start(q) + j \in Slots /\ (start(q) + j) - start(r) \in Int
        BY <2>1, <1>5, MaxPagesType DEF Slots
      <4>2. ~((start(q) + j) - start(r) >= c /\ (start(q) + j) - start(r) < d)
        BY <1>5, <1>6, <2>1, <3>2
      <4>3. (start(q) + j) - start(r) \notin chunk
        BY <1>6, <4>1, <4>2
      <4> QED BY <1>4, <4>1, <4>3
    <3> QED BY <2>1, <3>1, <3>3
  <2> QED BY <2>2, <2>3
<1>12. GatherInv'
  BY <1>1, <1>2, <1>11 DEF GatherInv, start
<1> QED BY <1>9, <1>10, <1>12 DEF Inv

(* The last-page lengths are the last thing to arrive; by then every       *)
(* program has run to its end.                                             *)
LEMMA CopyLastPageLenInv ==
  ASSUME Inv, CopyLastPageLen
  PROVE  Inv'
<1>1. /\ TypeOK /\ HostInv /\ GpuInv /\ GatherInv /\ phase = "gather" /\ phase' = "attend"
      /\ step' = step /\ batch' = batch /\ host' = host /\ indices' = indices
      /\ copied' = copied /\ \A r \in 1..batch.n : copied[r] >= NumBlocks(r)
      /\ gpu' = [gpu EXCEPT !.last = [r \in Rows |->
                    IF r <= batch.n THEN host.last[r] ELSE gpu.last[r]]]
  BY DEF Inv, CopyLastPageLen
<1>2. Blocks' = Blocks
  BY <1>1 DEF Blocks
<1>3. /\ gpu'.indptr = gpu.indptr /\ gpu' \in Tables
      /\ \A r \in 1..batch.n : gpu'.last[r] = host.last[r]
  <2>1. gpu \in Tables /\ host \in Tables /\ 1..batch.n \subseteq Rows
    BY <1>1 DEF TypeOK, Rows
  <2>2. /\ gpu'.indptr = gpu.indptr
        /\ gpu'.last = [r \in Rows |-> IF r <= batch.n THEN host.last[r] ELSE gpu.last[r]]
        /\ gpu' = [indptr |-> gpu'.indptr, last |-> gpu'.last]
    BY <1>1, <2>1 DEF Tables
  <2>3. gpu'.last \in [Rows -> 0..PageSize]
    BY <2>1, <2>2 DEF Tables
  <2>4. \A r \in 1..batch.n : r <= batch.n /\ r \in Rows
    BY <1>1, <2>1 DEF TypeOK
  <2>5. gpu' \in Tables
    BY <2>1, <2>2, <2>3 DEF Tables
  <2> QED BY <2>2, <2>4, <2>5
<1>4. TypeOK' /\ HostInv'
  BY <1>1, <1>2, <1>3 DEF TypeOK, HostInv
<1>5. GpuInv'
  BY <1>1, <1>2, <1>3 DEF GpuInv
<1>6. \A r \in 1..batch.n : copied[r] = Blocks[r]
  <2> SUFFICES ASSUME NEW r \in 1..batch.n PROVE copied[r] = Blocks[r]
    OBVIOUS
  <2>1. \A i \in 0..batch.n : gpu.indptr[i] = CumPages(Blocks, i)
    BY <1>1 DEF GpuInv
  <2>2. r - 1 \in 0..batch.n /\ r \in 0..batch.n /\ r \in Rows
    BY <1>1 DEF TypeOK, Rows
  <2>3. NumBlocks(r) = CumPages(Blocks, r) - CumPages(Blocks, r - 1)
    BY <2>1, <2>2 DEF NumBlocks
  <2>4. NumBlocks(r) = Blocks[r] /\ Blocks[r] \in Nat
    BY <1>1, <2>3, RowsApart, MaxPagesType
  <2>5. copied[r] <= Blocks[r] /\ copied[r] \in Nat
    BY <1>1, <2>2, MaxPagesType DEF GatherInv, TypeOK
  <2> QED BY <1>1, <2>4, <2>5
<1>7. GatherInv'
  BY <1>1, <1>2, <1>6 DEF GatherInv
<1> QED BY <1>4, <1>5, <1>7 DEF Inv

(* Every step keeps the invariant. *)
LEMMA NextInv == Inv /\ [Next]_vars => Inv'
<1> SUFFICES ASSUME Inv, [Next]_vars PROVE Inv'
  OBVIOUS
<1>1. CASE Step
  BY <1>1, BuildInv DEF Step
<1>2. CASE CopyIndptr
  BY <1>2, CopyIndptrInv
<1>3. CASE \E r \in Rows : GatherChunk(r)
  BY <1>3, GatherChunkInv
<1>4. CASE CopyLastPageLen
  BY <1>4, CopyLastPageLenInv
<1>5. CASE Attend
  <2>1. Blocks' = Blocks
    BY <1>5 DEF Attend, Blocks
  <2> QED BY <1>5, <2>1 DEF Attend, Inv, TypeOK, HostInv, GpuInv, GatherInv
<1>6. CASE UNCHANGED vars
  <2>1. Blocks' = Blocks
    BY <1>6 DEF vars, Blocks
  <2> QED BY <1>6, <2>1 DEF vars, Inv, TypeOK, HostInv, GpuInv, GatherInv
<1> QED BY <1>1, <1>2, <1>3, <1>4, <1>5, <1>6 DEF Next, Done

(* The invariant holds in every reachable state. *)
LEMMA InvCorrect == Spec => []Inv
BY InitInv, NextInv, PTL DEF Spec

-----------------------------------------------------------------------------
(* The buffers keep their shapes and ranges.                               *)
THEOREM TypeCorrect == Spec => []TypeOK
<1>1. Inv => TypeOK
  BY DEF Inv
<1> QED BY <1>1, InvCorrect, PTL

(* No batch of any lengths up to max_model_len overruns paged_kv_indices,  *)
(* nor do stale entries of the indptr point behind it.                     *)
THEOREM BufferSuffices == Spec => []BufferHoldsBatch
<1>1. Inv => BufferHoldsBatch
  BY TablesType, MaxPagesType DEF Inv, TypeOK, BufferHoldsBatch
<1> QED BY <1>1, InvCorrect, PTL

(* Whatever order the gather programs run in, each row's kernels find the  *)
(* row's own pages and all of them.                                        *)
THEOREM PagesAreOwn == Spec => []RowsReadOwnPages
<1>1. Inv => RowsReadOwnPages
  <2> SUFFICES ASSUME Inv, phase = "attend", NEW r \in 1..batch.n
               PROVE  PageList(r) = [j \in 0..(Pages(batch.lens[r]) - 1) |-> <<step, r, j>>]
    BY DEF RowsReadOwnPages
  <2>1. /\ gpu.indptr[r - 1] = CumPages(Blocks, r - 1)
        /\ gpu.indptr[r] = CumPages(Blocks, r)
    <3>1. r - 1 \in 0..batch.n /\ r \in 0..batch.n
      BY DEF Inv, TypeOK
    <3> QED BY <3>1 DEF Inv, GpuInv
  <2>2. /\ CumPages(Blocks, r) - CumPages(Blocks, r - 1) = Blocks[r]
        /\ Blocks[r] \in Nat
    BY RowsApart, MaxPagesType DEF Inv
  <2>3. Blocks[r] = Pages(batch.lens[r])
    BY DEF Blocks
  <2>4. \A j \in 0..(Blocks[r] - 1) :
          indices[CumPages(Blocks, r - 1) + j] = <<step, r, j>>
    BY DEF Inv, GatherInv
  <2> QED BY <2>1, <2>2, <2>3, <2>4 DEF PageList
<1> QED BY <1>1, InvCorrect, PTL

(* Without decode context parallelism the length the kernels derive is the *)
(* length of the row.                                                      *)
THEOREM LengthsAreOwn ==
  ASSUME DcpWorld = 1
  PROVE  Spec => []PlannedLengthIsAdjusted
<1>1. Inv => PlannedLengthIsAdjusted
  <2> SUFFICES ASSUME Inv, phase = "attend", NEW r \in 1..batch.n
               PROVE  PlannedLen(r) = batch.adjusted[r]
    BY DEF PlannedLengthIsAdjusted
  <2> DEFINE len == batch.lens[r]
  <2>1. gpu.indptr[r] - gpu.indptr[r - 1] = Pages(len)
    <3>1. r - 1 \in 0..batch.n /\ r \in 0..batch.n
      BY DEF Inv, TypeOK
    <3>2. gpu.indptr[r - 1] = CumPages(Blocks, r - 1) /\ gpu.indptr[r] = CumPages(Blocks, r)
      BY <3>1 DEF Inv, GpuInv
    <3>3. CumPages(Blocks, r) - CumPages(Blocks, r - 1) = Blocks[r]
      BY RowsApart, MaxPagesType DEF Inv
    <3> QED BY <3>2, <3>3 DEF Blocks
  <2>2. gpu.last[r] = LastPageLen(len) /\ batch.adjusted[r] = len
    BY DEF Inv, GpuInv, HostInv
  <2>3. len \in Nat
    BY DEF Inv, TypeOK, Lens
  <2> HIDE DEF len
  <2>4. PlannedLen(r) = (IF Pages(len) > 0 THEN Pages(len) - 1 ELSE 0) * PageSize
                          + LastPageLen(len)
    BY <2>1, <2>2, Zenon DEF PlannedLen
  <2>5. CASE len = 0
    BY <2>2, <2>3, <2>4, <2>5, PagesOfLength
  <2>6. CASE len > 0
    <3>1. Pages(len) > 0 /\ (Pages(len) - 1) * PageSize + LastPageLen(len) = len
      BY <2>3, <2>6, PagesOfLength
    <3> QED BY <2>2, <2>4, <3>1
  <2> QED BY <2>3, <2>5, <2>6
<1> QED BY <1>1, InvCorrect, PTL
=============================================================================
