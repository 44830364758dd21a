------------------------------ MODULE KvTiling ------------------------------
(***************************************************************************)
(* How the paged attention kernel cuts one request into blocks: tiles of   *)
(* packed query rows against chunks of keys, the iterations a block makes  *)
(* over its chunk, those it masks, and where a split-KV run leaves its     *)
(* partial results.  A block is one step; blocks run in any order, and the *)
(* partial results of a row are merged when all have run.  A result is the *)
(* set of keys folded into it.  Unsigned arithmetic wraps at Word.         *)
(***************************************************************************)
EXTENDS Integers

CONSTANTS
  GroupSize,  \* query heads per KV head
  TileQ,      \* CTA_TILE_Q
  TileKv,     \* CTA_TILE_KV
  Word,       \* 2^32
  Requests    \* requests to consider

(* A request has qo_len new tokens, the last of its kv_len keys; a padding *)
(* row of a graph has none.  It is causal, or a non-causal draft that      *)
(* build() sends to prefill, either with the layers' sliding window        *)
(* (window = -1: none); chunk is the planned kv_chunk_size, 0 when the run *)
(* is not split.                                                           *)
RequestOK(x) ==
  /\ x.qo \in Nat \ {0} /\ x.kv \in Nat /\ (x.kv = 0 \/ x.qo <= x.kv)
  /\ x.window \in Nat \union {-1} /\ x.chunk \in Nat /\ x.causal \in BOOLEAN
  /\ 2 * (x.kv + x.qo + x.window + x.chunk + TileQ) < Word

ASSUME TilingAssumption ==
  /\ GroupSize \in Nat \ {0} /\ TileQ \in Nat /\ TileQ >= 2
  /\ TileKv \in Nat \ {0} /\ Word \in Nat
  /\ \A x \in Requests : RequestOK(x)

VARIABLES
  req,      \* the request
  partial,  \* partial results: a function of the slots written so far
  ran,      \* the blocks that have run
  output    \* the keys folded into the output of every row
vars == <<req, partial, ran, output>>

-----------------------------------------------------------------------------
U(n) == n % Word
CeilDiv(a, b) == (a + b - 1) \div b
SubOrZero(a, b) == IF a > b THEN a - b ELSE 0     \* sub_if_greater_or_zero
Least(a, b) == IF a < b THEN a ELSE b
Most(a, b) == IF a > b THEN a ELSE b

Partitioned == req.chunk > 0
WindowLeft == IF req.window = -1 THEN req.kv ELSE req.window

(* Rows are packed: token and head of its group. *)
Rows == 0..(req.qo * GroupSize - 1)
Token(p) == p \div GroupSize
TileOf(p) == p \div TileQ

(* The grid of the plan. *)
PlannedChunks ==
  IF Partitioned THEN CeilDiv(Least(Most(req.kv, 1), WindowLeft + TileQ), req.chunk) ELSE 1
QTiles == 0..(CeilDiv(req.qo * GroupSize, TileQ) - 1)
KvTiles == 0..(PlannedChunks - 1)
Blocks == QTiles \X KvTiles

-----------------------------------------------------------------------------
(* The part of the keys a block covers.                                    *)

KvStart(t) ==
  SubOrZero(U(req.kv + (t * TileQ) \div GroupSize), U(req.qo + WindowLeft))
ChunkBound(t, c) == Least(U(c * req.chunk + KvStart(t)), req.kv)
ChunkStart(t, c) == IF Partitioned THEN ChunkBound(t, c) ELSE KvStart(t)
ChunkEnd(t, c) == IF Partitioned THEN ChunkBound(t, c + 1) ELSE req.kv
ChunkSize(t, c) == U(ChunkEnd(t, c) - ChunkStart(t, c))

NumIterations(t, c) ==
  CeilDiv(
    IF req.causal
      THEN Least(ChunkSize(t, c),
                 SubOrZero(U(req.kv - req.qo + CeilDiv((t + 1) * TileQ, GroupSize)),
                           ChunkStart(t, c)))
      ELSE ChunkSize(t, c),
    TileKv)

WindowIteration(t, c) ==
  CeilDiv(
    SubOrZero(U(req.kv + CeilDiv((t + 1) * TileQ, GroupSize)),
              U(req.qo + WindowLeft + ChunkStart(t, c))),
    TileKv)

(* Mutant: rounded up. *)
MaskIterationUp(t, c) ==
  CeilDiv(
    IF req.causal
      THEN Least(ChunkSize(t, c),
                 SubOrZero(U(req.kv + CeilDiv(t * TileQ, GroupSize) - req.qo),
                           ChunkStart(t, c)))
      ELSE ChunkSize(t, c),
    TileKv)

MaskIteration(t, c) ==
  (IF req.causal
     THEN Least(ChunkSize(t, c),
                SubOrZero(U(req.kv + CeilDiv(t * TileQ, GroupSize) - req.qo),
                          ChunkStart(t, c)))
     ELSE ChunkSize(t, c))
  \div TileKv

(* Mutant: keys past the end of the chunk are not masked. *)
UnmaskedPastEnd(p, k, end) ==
  /\ req.causal => U(k + req.qo) <= U(req.kv + Token(p))
  /\ U(k + req.qo + WindowLeft) >= U(req.kv + Token(p))

(* logits_mask and the variant's LogitsMask *)
Unmasked(p, k, end) ==
  /\ req.causal => U(k + req.qo) <= U(req.kv + Token(p))
  /\ k < end
  /\ U(k + req.qo + WindowLeft) >= U(req.kv + Token(p))

TileKeys(t, c, i) ==
  LET first == ChunkStart(t, c) + i * TileKv IN first..(first + TileKv - 1)

(* The keys an iteration folds into a row: it masks only the first and the *)
(* last tiles.                                                             *)
IterationKeys(p, c, i) ==
  LET t == TileOf(p)
  IN  IF i >= MaskIteration(t, c) \/ i < WindowIteration(t, c)
        THEN {k \in TileKeys(t, c, i) : Unmasked(p, k, ChunkEnd(t, c))}
        ELSE TileKeys(t, c, i)

BlockKeys(p, c) ==
  UNION {IterationKeys(p, c, i) : i \in 0..(NumIterations(TileOf(p), c) - 1)}

-----------------------------------------------------------------------------
(* Where results go.                                                       *)

(* Mutant: the window is counted without the tile's own tokens. *)
NumKvChunksShort ==
  CeilDiv(Least(Most(req.kv, 1), Most(WindowLeft, 1)), req.chunk)

NumKvChunks == CeilDiv(Least(Most(req.kv, 1), WindowLeft + TileQ), req.chunk)

(* o_ptr_base and o_stride_n of a split-KV run *)
Slot(p, c) == (Token(p) * NumKvChunks + c) * GroupSize + (p % GroupSize)

RowsOf(t) == {p \in Rows : TileOf(p) = t}

(* BatchPrefillWithPagedKVCacheDevice for one block *)
RunBlock(t, c) ==
  /\ <<t, c>> \notin ran
  /\ ran' = ran \union {<<t, c>>}
  /\ IF Partitioned
       THEN LET slots == {Slot(p, c) : p \in RowsOf(t)}
            IN  /\ partial' = [s \in DOMAIN partial \union slots |->
                     IF s \in slots
                       THEN BlockKeys(CHOOSE p \in RowsOf(t) : Slot(p, c) = s, c)
                       ELSE partial[s]]
                /\ UNCHANGED output
       ELSE /\ output' = [p \in DOMAIN output \union RowsOf(t) |->
                 IF p \in RowsOf(t) THEN BlockKeys(p, c) ELSE output[p]]
            /\ UNCHANGED partial
  /\ UNCHANGED req

(* VariableLengthMergeStates: the plan gives each row as many partial      *)
(* results as there are chunks.                                            *)
MergedSlots(p) ==
  {(Token(p) * PlannedChunks + c) * GroupSize + (p % GroupSize) : c \in KvTiles}

Merge ==
  /\ Partitioned /\ ran = Blocks /\ output = << >>
  /\ output' = [p \in Rows |-> UNION {partial[s] : s \in MergedSlots(p) \intersect DOMAIN partial}]
  /\ UNCHANGED <<req, partial, ran>>

Finished == ran = Blocks /\ DOMAIN output = Rows
Done == Finished /\ UNCHANGED vars

Init ==
  /\ req \in Requests
  /\ partial = << >> /\ ran = {} /\ output = << >>

Next == (\E t \in QTiles, c \in KvTiles : RunBlock(t, c)) \/ Merge \/ Done

Spec == Init /\ [][Next]_vars

-----------------------------------------------------------------------------
(* Properties.                                                             *)

(* Blocks write inside the partial results and the outputs the plan has    *)
(* room for, and fold no key past the last.                                *)
TypeOK ==
  /\ req \in Requests
  /\ ran \subseteq Blocks
  /\ DOMAIN partial \subseteq 0..(req.qo * PlannedChunks * GroupSize - 1)
  /\ DOMAIN output \subseteq Rows
  /\ \A s \in DOMAIN partial : partial[s] \subseteq 0..(req.kv - 1)
  /\ \A p \in DOMAIN output : output[p] \subseteq 0..(req.kv - 1)

(* What attention is defined to be: every key up to the token's own and    *)
(* within its window.                                                      *)
Attended(p) ==
  LET own == req.kv - req.qo + Token(p)
  IN  {k \in 0..(req.kv - 1) :
         (req.causal => k <= own) /\ (req.window >= 0 => k >= own - req.window)}

(* The planned chunks of a tile end window_left + CTA_TILE_Q keys after    *)
(* its first: enough for a causal tile, whose tokens see no further than   *)
(* themselves.  Without the causal mask they see up to the last key.       *)
WindowReaches ==
  req.causal \/ req.window = -1 \/ ~Partitioned \/ req.qo <= TileQ

(* Tiling, skipped iterations, skipped masks and split chunks leave every  *)
(* row with exactly the keys it attends to, causal or not, except for a    *)
(* split non-causal request with a window and more tokens than a query     *)
(* tile has rows: nothing refuses that one, and it loses its last keys.    *)
RowsAttendWhole ==
  Finished /\ WindowReaches => \A p \in Rows : output[p] = Attended(p)

(* No partial result is counted twice and none is overwritten: the blocks  *)
(* that have run left one result for each of their rows, and the results   *)
(* of one row share no key.                                                *)
PartialsAreDisjoint ==
  Partitioned =>
    \A b \in ran : \A p \in RowsOf(b[1]) :
      LET s == (Token(p) * PlannedChunks + b[2]) * GroupSize + (p % GroupSize)
      IN  /\ s \in DOMAIN partial /\ partial[s] = BlockKeys(p, b[2])
          /\ \A c \in KvTiles \ {b[2]} : BlockKeys(p, c) \intersect partial[s] = {}
=============================================================================
