--------------------------- MODULE KvTilingProofs ---------------------------
(***************************************************************************)
(* Proofs about KvTiling: for every group size, tile and chunk the blocks  *)
(* of a request fold exactly the keys its rows attend to, each once.       *)
(***************************************************************************)
EXTENDS KvTiling, TLAPS

-----------------------------------------------------------------------------
(* Division.                                                               *)

(* Products of naturals. *)
LEMMA MulNext == \A a, n \in Nat : (a + 1) * n = a * n + n
OBVIOUS

LEMMA MulMono ==
  ASSUME NEW n \in Nat, NEW a \in Int, NEW b \in Int, a <= b
  PROVE  a * n <= b * n
<1>1. PICK d \in Nat : b = a + d
  <2>1. b - a \in Nat /\ b = a + (b - a)
    OBVIOUS
  <2> QED BY <2>1
<1>2. b * n = a * n + d * n
  BY <1>1
<1>3. d * n \in Nat /\ a * n \in Int
  OBVIOUS
<1> QED BY <1>2, <1>3

(* A product bounded by the next multiple. *)
LEMMA MulLess ==
  ASSUME NEW n \in Nat \ {0}, NEW a \in Int, NEW b \in Int, a * n < (b + 1) * n
  PROVE  a <= b
<1> SUFFICES ASSUME b + 1 <= a PROVE FALSE
  OBVIOUS
<1>1. (b + 1) * n <= a * n
  BY MulMono
<1>2. (b + 1) * n \in Int /\ a * n \in Int
  OBVIOUS
<1> QED BY <1>1, <1>2

LEMMA DivMod ==
  ASSUME NEW a \in Nat, NEW n \in Nat \ {0}
  PROVE  /\ a \div n \in Nat /\ a % n \in 0..(n - 1)
         /\ a = (a \div n) * n + (a % n)
OBVIOUS

LEMMA DivBetween ==
  ASSUME NEW a \in Nat, NEW n \in Nat \ {0}
  PROVE  /\ a \div n \in Nat
         /\ (a \div n) * n <= a /\ a < (a \div n + 1) * n
<1>1. a \div n \in Nat /\ a % n \in 0..(n - 1) /\ a = (a \div n) * n + (a % n)
  BY DivMod
<1>2. (a \div n + 1) * n = (a \div n) * n + n /\ (a \div n) * n \in Nat
  BY <1>1
<1> QED BY <1>1, <1>2

LEMMA CeilBetween ==
  ASSUME NEW a \in Nat, NEW n \in Nat \ {0}
  PROVE  /\ CeilDiv(a, n) \in Nat
         /\ a <= CeilDiv(a, n) * n /\ CeilDiv(a, n) * n < a + n
<1> DEFINE c == CeilDiv(a, n)
<1>1. a + n - 1 \in Nat
  OBVIOUS
<1>2. c \in Nat /\ c * n <= a + n - 1 /\ a + n - 1 < (c + 1) * n
  BY <1>1, DivBetween DEF CeilDiv
<1>3. (c + 1) * n = c * n + n /\ c * n \in Nat
  BY <1>2
<1> QED BY <1>2, <1>3

(* Unsigned sums below Word do not wrap. *)
LEMMA USmall ==
  ASSUME NEW n \in Nat, n < Word
  PROVE  U(n) = n
<1>1. Word \in Nat \ {0}
  BY TilingAssumption
<1>2. n \div Word \in Nat /\ n % Word \in 0..(Word - 1) /\ n = (n \div Word) * Word + (n % Word)
  BY <1>1, DivMod
<1>3. n \div Word = 0
  <2>1. ASSUME 1 <= n \div Word PROVE FALSE
    <3>1. 1 * Word <= (n \div Word) * Word
      BY <1>1, <1>2, <2>1, MulMono
    <3> QED BY <1>1, <1>2, <3>1
  <2> QED BY <1>2, <2>1
<1>4. 0 * Word = 0
  BY <1>1
<1> QED BY <1>2, <1>3, <1>4 DEF U

(* Quotient and remainder are determined by the number. *)
LEMMA Radix ==
  ASSUME NEW n \in Nat \ {0}, NEW q1 \in Nat, NEW q2 \in Nat,
         NEW r1 \in 0..(n - 1), NEW r2 \in 0..(n - 1),
         q1 * n + r1 = q2 * n + r2
  PROVE  q1 = q2 /\ r1 = r2
<1>1. /\ (q1 + 1) * n = q1 * n + n /\ (q2 + 1) * n = q2 * n + n
      /\ q1 * n \in Nat /\ q2 * n \in Nat
  OBVIOUS
<1>2. q1 * n < (q2 + 1) * n /\ q2 * n < (q1 + 1) * n
  BY <1>1
<1>3. q1 = q2
  BY <1>2, MulLess
<1> QED BY <1>1, <1>3

LEMMA RadixBound ==
  ASSUME NEW m \in Nat, NEW n \in Nat \ {0}, NEW q \in 0..(m - 1), NEW r \in 0..(n - 1)
  PROVE  q * n + r \in 0..(m * n - 1)
<1>1. (q + 1) * n <= m * n
  BY MulMono
<1>2. (q + 1) * n = q * n + n /\ q * n \in Nat /\ m * n \in Nat
  OBVIOUS
<1> QED BY <1>1, <1>2

-----------------------------------------------------------------------------
(* Tiles of rows.                                                          *)

First(t) == (t * TileQ) \div GroupSize            \* token of the tile's first row
Above(t) == CeilDiv(t * TileQ, GroupSize)
Beyond(t) == CeilDiv((t + 1) * TileQ, GroupSize)  \* token after its last row's

LEMMA RequestFacts ==
  ASSUME req \in Requests
  PROVE  /\ req.qo \in Nat \ {0} /\ req.kv \in Nat /\ (req.kv = 0 \/ req.qo <= req.kv)
         /\ req.window \in Nat \union {-1} /\ req.chunk \in Nat /\ req.causal \in BOOLEAN
         /\ 2 * (req.kv + req.qo + req.window + req.chunk + TileQ) < Word
         /\ WindowLeft \in Nat
         /\ WindowLeft = req.kv \/ WindowLeft = req.window
         /\ GroupSize \in Nat \ {0} /\ TileQ \in Nat /\ TileQ >= 2
         /\ TileKv \in Nat \ {0} /\ Word \in Nat
<1>1. RequestOK(req)
  BY TilingAssumption
<1>2. /\ GroupSize \in Nat \ {0} /\ TileQ \in Nat /\ TileQ >= 2
      /\ TileKv \in Nat \ {0} /\ Word \in Nat
  BY TilingAssumption
<1>3. /\ req.qo \in Nat \ {0} /\ req.kv \in Nat /\ (req.kv = 0 \/ req.qo <= req.kv)
      /\ req.window \in Nat \union {-1} /\ req.chunk \in Nat /\ req.causal \in BOOLEAN
      /\ 2 * (req.kv + req.qo + req.window + req.chunk + TileQ) < Word
  BY <1>1 DEF RequestOK
<1>4. WindowLeft \in Nat /\ (WindowLeft = req.kv \/ WindowLeft = req.window)
  BY <1>3 DEF WindowLeft
<1> QED BY <1>2, <1>3, <1>4

(* A tile spans at most TileQ tokens. *)
LEMMA TileSpan ==
  ASSUME req \in Requests, NEW t \in Nat
  PROVE  /\ First(t) \in Nat /\ Above(t) \in Nat /\ Beyond(t) \in Nat
         /\ Beyond(t) <= First(t) + TileQ
         /\ Above(t) <= First(t) + 1
<1> DEFINE g == GroupSize
           a == t * TileQ
<1>1. g \in Nat \ {0} /\ TileQ \in Nat /\ TileQ >= 2
  BY RequestFacts
<1>2. a \in Nat /\ (t + 1) * TileQ = a + TileQ /\ (t + 1) * TileQ \in Nat
  BY <1>1
<1> HIDE DEF a, g
<1>3. First(t) \in Nat /\ First(t) * g <= a /\ a < (First(t) + 1) * g
  BY <1>1, <1>2, DivBetween DEF First, a, g
<1>4. Above(t) \in Nat /\ a <= Above(t) * g /\ Above(t) * g < a + g
  BY <1>1, <1>2, CeilBetween DEF Above, a, g
<1>5. Beyond(t) \in Nat /\ a + TileQ <= Beyond(t) * g /\ Beyond(t) * g < a + TileQ + g
  BY <1>1, <1>2, CeilBetween DEF Beyond, g
<1>6. (First(t) + 1) * g = First(t) * g + g /\ First(t) * g \in Nat
  BY <1>1, <1>3
<1>7. Above(t) <= First(t) + 1
  <2>1. Above(t) * g < ((First(t) + 1) + 1) * g
    <3>1. ((First(t) + 1) + 1) * g = First(t) * g + g + g
      BY <1>1, <1>3
    <3> QED BY <3>1, <1>1, <1>2, <1>3, <1>4, <1>6
  <2> QED BY <2>1, <1>1, <1>3, <1>4, MulLess
<1>8. Beyond(t) <= First(t) + TileQ
  <2>1. CASE g = 1
    BY <2>1, <1>1, <1>2, <1>3, <1>5, <1>6
  <2>2. CASE g >= 2
    <3>1. (g - 2) \in Nat /\ (TileQ - 2) \in Nat
      BY <2>2, <1>1
    <3>2. PICK h \in Nat, c \in Nat : g = h + 2 /\ TileQ = c + 2
      <4>1. g = (g - 2) + 2 /\ TileQ = (TileQ - 2) + 2
        BY <1>1
      <4> QED BY <3>1, <4>1
    <3>3. TileQ * g = c * h + 2 * c + 2 * h + 4 /\ c * h \in Nat
      BY <3>2
    <3>4. TileQ + 2 * g <= TileQ * g + 2
      BY <3>2, <3>3
    <3>5. (First(t) + TileQ + 1) * g = First(t) * g + TileQ * g + g
      BY <1>1, <1>3
    <3>6. Beyond(t) * g < (First(t) + TileQ + 1) * g
      BY <3>3, <3>4, <3>5, <3>2, <1>1, <1>2, <1>3, <1>5, <1>6
    <3> QED BY <3>6, <1>1, <1>3, <1>5, MulLess
  <2> QED BY <2>1, <2>2, <1>1
<1> QED BY <1>3, <1>4, <1>5, <1>7, <1>8

(* The tokens of a row lie between those bounds. *)
LEMMA RowFacts ==
  ASSUME req \in Requests, NEW p \in Rows
  PROVE  /\ p \in Nat /\ TileOf(p) \in Nat /\ TileOf(p) \in QTiles
         /\ Token(p) \in Nat /\ Token(p) < req.qo
         /\ p % GroupSize \in 0..(GroupSize - 1)
         /\ p = Token(p) * GroupSize + (p % GroupSize)
         /\ First(TileOf(p)) <= Token(p) /\ Token(p) < Beyond(TileOf(p))
<1> DEFINE g == GroupSize
           t == TileOf(p)
           q == Token(p)
<1>1. g \in Nat \ {0} /\ TileQ \in Nat \ {0} /\ req.qo \in Nat \ {0}
  BY RequestFacts
<1>2. req.qo * g \in Nat /\ p \in Nat /\ p < req.qo * g
  BY <1>1 DEF Rows
<1>3. t \in Nat /\ t * TileQ <= p /\ p < (t + 1) * TileQ
  BY <1>1, <1>2, DivBetween DEF TileOf
<1>4. q \in Nat /\ q * g <= p /\ p < (q + 1) * g
  BY <1>1, <1>2, DivBetween DEF Token
<1>5. p % g \in 0..(g - 1) /\ p = q * g + (p % g)
  BY <1>1, <1>2, DivMod DEF Token
<1> HIDE DEF g, t, q
<1>6. q < req.qo
  <2>1. q * g \in Nat /\ (req.qo - 1 + 1) * g = req.qo * g /\ req.qo - 1 \in Int
    BY <1>1, <1>4
  <2>2. q * g < (req.qo - 1 + 1) * g
    BY <2>1, <1>2, <1>4
  <2>3. q <= req.qo - 1
    BY <2>1, <2>2, <1>1, <1>4, MulLess
  <2> QED BY <2>3, <1>1, <1>4
<1>7. t \in QTiles
  <2> DEFINE n == CeilDiv(req.qo * g, TileQ)
  <2>1. n \in Nat /\ req.qo * g <= n * TileQ
    BY <1>1, <1>2, CeilBetween
  <2> HIDE DEF n
  <2>2. t * TileQ < (n - 1 + 1) * TileQ
    <3>1. n - 1 + 1 = n
      BY <2>1
    <3>2. t * TileQ \in Nat /\ n * TileQ \in Nat
      BY <1>1, <1>3, <2>1
    <3> QED BY <3>1, <3>2, <2>1, <1>2, <1>3
  <2>3. t <= n - 1
    BY <2>1, <2>2, <1>1, <1>3, MulLess
  <2> QED BY <2>1, <2>3, <1>3 DEF QTiles, n, g
<1>8. First(t) <= q
  <2>1. t * TileQ \in Nat
    BY <1>1, <1>3
  <2>2. First(t) \in Nat /\ First(t) * g <= t * TileQ
    BY <1>1, <2>1, DivBetween DEF First, g
  <2>3. First(t) * g < (q + 1) * g
    <3>1. First(t) * g \in Nat /\ (q + 1) * g \in Nat
      BY <1>1, <1>4, <2>2
    <3> QED BY <3>1, <2>1, <2>2, <1>2, <1>3, <1>4
  <2> QED BY <2>2, <2>3, <1>1, <1>4, MulLess
<1>9. q < Beyond(t)
  <2>1. (t + 1) * TileQ \in Nat
    BY <1>1, <1>3
  <2>2. Beyond(t) \in Nat /\ (t + 1) * TileQ <= Beyond(t) * g
    BY <1>1, <2>1, CeilBetween DEF Beyond, g
  <2>3. q * g < (Beyond(t) - 1 + 1) * g
    <3>1. q * g \in Nat /\ Beyond(t) * g \in Nat /\ Beyond(t) - 1 + 1 = Beyond(t)
      BY <1>1, <1>4, <2>2
    <3> QED BY <3>1, <2>1, <2>2, <1>2, <1>3, <1>4
  <2>4. q <= Beyond(t) - 1
    BY <2>2, <2>3, <1>1, <1>4, MulLess
  <2> QED BY <2>2, <2>4, <1>4
<1> QED BY <1>2, <1>3, <1>4, <1>5, <1>6, <1>7, <1>8, <1>9 DEF g, t, q

-----------------------------------------------------------------------------
(* Chunks of keys.                                                         *)

LEMMA StartIs ==
  ASSUME req \in Requests, NEW p \in Rows
  PROVE  LET t == TileOf(p)
         IN  /\ KvStart(t) = SubOrZero(req.kv + First(t), req.qo + WindowLeft)
             /\ KvStart(t) \in Nat /\ KvStart(t) <= req.kv
<1> DEFINE t == TileOf(p)
<1>1. First(t) \in Nat /\ First(t) < req.qo
  BY RowFacts, TileSpan, RequestFacts
<1>2. /\ req.kv + First(t) \in Nat /\ req.kv + First(t) < Word
      /\ req.qo + WindowLeft \in Nat /\ req.qo + WindowLeft < Word
  BY <1>1, RequestFacts
<1>3. U(req.kv + First(t)) = req.kv + First(t) /\ U(req.qo + WindowLeft) = req.qo + WindowLeft
  BY <1>2, USmall
<1>4. KvStart(t) = SubOrZero(req.kv + First(t), req.qo + WindowLeft)
  BY <1>3 DEF KvStart, First
<1> QED BY <1>1, <1>2, <1>4, RequestFacts DEF SubOrZero

LEMMA ChunksPlanned ==
  ASSUME req \in Requests
  PROVE  /\ PlannedChunks \in Nat /\ PlannedChunks >= 1
         /\ Partitioned =>
              /\ req.chunk \in Nat \ {0}
              /\ Least(Most(req.kv, 1), WindowLeft + TileQ) <= PlannedChunks * req.chunk
              /\ PlannedChunks * req.chunk < req.kv + 1 + req.chunk
              /\ NumKvChunks = PlannedChunks
<1>1. CASE ~Partitioned
  BY <1>1 DEF PlannedChunks
<1>2. CASE Partitioned
  <2> DEFINE n == Least(Most(req.kv, 1), WindowLeft + TileQ)
  <2>1. req.chunk \in Nat \ {0}
    BY <1>2, RequestFacts DEF Partitioned
  <2>2. n \in Nat /\ n >= 1 /\ n <= req.kv + 1
    BY RequestFacts DEF Least, Most
  <2>3. PlannedChunks = CeilDiv(n, req.chunk) /\ NumKvChunks = CeilDiv(n, req.chunk)
    BY <1>2 DEF PlannedChunks, NumKvChunks
  <2> HIDE DEF n
  <2>4. PlannedChunks \in Nat /\ n <= PlannedChunks * req.chunk
        /\ PlannedChunks * req.chunk < n + req.chunk
    BY <2>1, <2>2, <2>3, CeilBetween
  <2>5. PlannedChunks >= 1
    <3>1. ASSUME PlannedChunks = 0 PROVE FALSE
      <4>1. PlannedChunks * req.chunk = 0
        BY <3>1, <2>1
      <4> QED BY <4>1, <2>2, <2>4
    <3> QED BY <3>1, <2>4
  <2>6. PlannedChunks * req.chunk < req.kv + 1 + req.chunk
    <3>1. PlannedChunks * req.chunk \in Nat /\ req.kv \in Nat
      BY <2>1, <2>4, RequestFacts
    <3> QED BY <3>1, <2>1, <2>2, <2>4
  <2> QED BY <2>1, <2>3, <2>4, <2>5, <2>6 DEF n
<1> QED BY <1>1, <1>2

(* A chunk is an interval of keys; the next one starts where it ends.      *)
LEMMA BoundIs ==
  ASSUME req \in Requests, NEW p \in Rows, Partitioned, NEW c \in 0..PlannedChunks
  PROVE  LET t == TileOf(p)
         IN  /\ ChunkBound(t, c) = Least(c * req.chunk + KvStart(t), req.kv)
             /\ c * req.chunk \in Nat
             /\ ChunkBound(t, c) \in Nat /\ ChunkBound(t, c) <= req.kv
             /\ KvStart(t) <= ChunkBound(t, c)
<1> DEFINE t == TileOf(p)
           x == c * req.chunk
<1>1. /\ PlannedChunks \in Nat /\ req.chunk \in Nat \ {0}
      /\ PlannedChunks * req.chunk < req.kv + 1 + req.chunk
  BY ChunksPlanned
<1>2. x \in Nat /\ x <= PlannedChunks * req.chunk /\ PlannedChunks * req.chunk \in Nat
  BY <1>1, MulMono
<1>3. KvStart(t) \in Nat /\ KvStart(t) <= req.kv
  BY StartIs
<1> HIDE DEF x, t
<1>4. x + KvStart(t) \in Nat /\ x + KvStart(t) < Word
  BY <1>1, <1>2, <1>3, RequestFacts
<1>5. ChunkBound(t, c) = Least(x + KvStart(t), req.kv)
  BY <1>4, USmall DEF ChunkBound, x
<1>6. req.kv \in Nat
  BY RequestFacts
<1> QED BY <1>2, <1>3, <1>5, <1>6 DEF Least, x, t

LEMMA ChunkIs ==
  ASSUME req \in Requests, NEW p \in Rows, NEW c \in KvTiles
  PROVE  LET t == TileOf(p)
         IN  /\ c \in Nat /\ ChunkStart(t, c) \in Nat /\ ChunkEnd(t, c) \in Nat
             /\ KvStart(t) <= ChunkStart(t, c)
             /\ ChunkStart(t, c) <= ChunkEnd(t, c) /\ ChunkEnd(t, c) <= req.kv
             /\ ChunkSize(t, c) = ChunkEnd(t, c) - ChunkStart(t, c)
<1> DEFINE t == TileOf(p)
<1>1. c \in Nat /\ c \in 0..PlannedChunks /\ c + 1 \in 0..PlannedChunks
  BY ChunksPlanned DEF KvTiles
<1>2. KvStart(t) \in Nat /\ KvStart(t) <= req.kv
  BY StartIs
<1> HIDE DEF t
<1>3. /\ ChunkStart(t, c) \in Nat /\ ChunkEnd(t, c) \in Nat
      /\ KvStart(t) <= ChunkStart(t, c)
      /\ ChunkStart(t, c) <= ChunkEnd(t, c) /\ ChunkEnd(t, c) <= req.kv
  <2>1. CASE ~Partitioned
    BY <2>1, <1>2, RequestFacts DEF ChunkStart, ChunkEnd
  <2>2. CASE Partitioned
    <3>1. /\ ChunkBound(t, c) = Least(c * req.chunk + KvStart(t), req.kv)
          /\ ChunkBound(t, c + 1) = Least((c + 1) * req.chunk + KvStart(t), req.kv)
          /\ c * req.chunk \in Nat
          /\ ChunkBound(t, c) \in Nat /\ ChunkBound(t, c + 1) \in Nat
          /\ ChunkBound(t, c + 1) <= req.kv /\ KvStart(t) <= ChunkBound(t, c)
      BY <1>1, <2>2, BoundIs DEF t
    <3>2. (c + 1) * req.chunk = c * req.chunk + req.chunk /\ req.chunk \in Nat
      <4>1. req.chunk \in Nat /\ c \in Nat
        BY <1>1, RequestFacts
      <4> QED BY <4>1, MulNext
    <3>3. ChunkBound(t, c) <= ChunkBound(t, c + 1)
      BY <3>1, <3>2, <1>2, RequestFacts DEF Least
    <3> QED BY <2>2, <3>1, <3>3 DEF ChunkStart, ChunkEnd
  <2> QED BY <2>1, <2>2
<1>4. ChunkSize(t, c) = ChunkEnd(t, c) - ChunkStart(t, c)
  BY <1>3, USmall, RequestFacts DEF ChunkSize
<1> QED BY <1>1, <1>3, <1>4 DEF t

-----------------------------------------------------------------------------
(* Iterations.                                                             *)

(* The keys of a chunk that a row attends to. *)
KeysIn(p, c) ==
  {k \in Attended(p) : ChunkStart(TileOf(p), c) <= k /\ k < ChunkEnd(TileOf(p), c)}

(* The loop reaches every key the tile's last token may see. *)
LEMMA LoopReaches ==
  ASSUME req \in Requests, req.kv > 0, NEW p \in Rows, NEW c \in KvTiles
  PROVE  LET t == TileOf(p)
             reach == SubOrZero(req.kv - req.qo + Beyond(t), ChunkStart(t, c))
         IN  /\ NumIterations(t, c) \in Nat
             /\ (IF req.causal THEN Least(ChunkSize(t, c), reach) ELSE ChunkSize(t, c))
                   <= NumIterations(t, c) * TileKv
<1> DEFINE t == TileOf(p)
           reach == SubOrZero(req.kv - req.qo + Beyond(t), ChunkStart(t, c))
           span == IF req.causal THEN Least(ChunkSize(t, c), reach) ELSE ChunkSize(t, c)
<1>1. ChunkStart(t, c) \in Nat /\ ChunkSize(t, c) \in Nat
  BY ChunkIs
<1>2. Beyond(t) \in Nat /\ Beyond(t) <= req.qo + TileQ
  BY RowFacts, TileSpan, RequestFacts
<1> HIDE DEF t
<1>3. req.kv - req.qo + Beyond(t) \in Nat /\ req.kv - req.qo + Beyond(t) < Word
  BY <1>2, RequestFacts
<1>4. U(req.kv - req.qo + Beyond(t)) = req.kv - req.qo + Beyond(t)
  BY <1>3, USmall
<1>5. span \in Nat
  BY <1>1, <1>3 DEF Least, SubOrZero
<1>6. NumIterations(t, c) = CeilDiv(span, TileKv)
  BY <1>4 DEF NumIterations, Beyond
<1> HIDE DEF span
<1>7. NumIterations(t, c) \in Nat /\ span <= NumIterations(t, c) * TileKv
  BY <1>5, <1>6, CeilBetween, RequestFacts
<1> QED BY <1>7 DEF span, t

(* An iteration that is not masked has nothing to mask. *)
LEMMA SkippedMask ==
  ASSUME req \in Requests, req.kv > 0, NEW p \in Rows, NEW c \in KvTiles, NEW i \in Nat,
         i < MaskIteration(TileOf(p), c), ~(i < WindowIteration(TileOf(p), c))
  PROVE  TileKeys(TileOf(p), c, i) \subseteq KeysIn(p, c)
<1> DEFINE t == TileOf(p)
           start == ChunkStart(t, c)
           seen == SubOrZero(req.kv - req.qo + Above(t), start)
           span == IF req.causal THEN Least(ChunkSize(t, c), seen) ELSE ChunkSize(t, c)
           out == SubOrZero(req.kv + Beyond(t), req.qo + WindowLeft + start)
<1>1. /\ start \in Nat /\ ChunkEnd(t, c) \in Nat /\ ChunkEnd(t, c) <= req.kv
      /\ start <= ChunkEnd(t, c)
      /\ ChunkSize(t, c) = ChunkEnd(t, c) - start
  BY ChunkIs
<1>2. /\ Above(t) \in Nat /\ Above(t) <= Token(p) + 1
      /\ Beyond(t) \in Nat /\ Beyond(t) <= req.qo + TileQ /\ Token(p) < Beyond(t)
      /\ Token(p) \in Nat /\ Token(p) < req.qo
  BY RowFacts, TileSpan, RequestFacts
<1>3. /\ U(req.kv + Above(t) - req.qo) = req.kv - req.qo + Above(t)
      /\ req.kv - req.qo + Above(t) \in Nat
  <2>1. /\ req.kv + Above(t) - req.qo = req.kv - req.qo + Above(t)
        /\ req.kv + Above(t) - req.qo \in Nat /\ req.kv + Above(t) - req.qo < Word
    BY <1>2, RequestFacts
  <2> QED BY <2>1, USmall
<1>4. /\ U(req.kv + Beyond(t)) = req.kv + Beyond(t)
      /\ U(req.qo + WindowLeft + start) = req.qo + WindowLeft + start
  <2>1. /\ req.kv + Beyond(t) \in Nat /\ req.kv + Beyond(t) < Word
        /\ req.qo + WindowLeft + start \in Nat /\ req.qo + WindowLeft + start < Word
    BY <1>1, <1>2, RequestFacts
  <2> QED BY <2>1, USmall
<1>5. MaskIteration(t, c) = span \div TileKv /\ WindowIteration(t, c) = CeilDiv(out, TileKv)
  BY <1>3, <1>4 DEF MaskIteration, WindowIteration, Above, Beyond
<1>6. span \in Nat /\ out \in Nat /\ TileKv \in Nat \ {0}
  BY <1>1, <1>2, <1>3, RequestFacts DEF Least, SubOrZero
<1>7. (i + 1) * TileKv <= span
  <2>1. span \div TileKv \in Nat /\ (span \div TileKv) * TileKv <= span
    BY <1>6, DivBetween
  <2>2. (i + 1) * TileKv <= (span \div TileKv) * TileKv
    BY <1>5, <1>6, <2>1, MulMono
  <2>3. (i + 1) * TileKv \in Nat /\ (span \div TileKv) * TileKv \in Nat
    BY <1>6, <2>1
  <2> QED BY <2>1, <2>2, <2>3, <1>6
<1>8. out <= i * TileKv
  <2>1. CeilDiv(out, TileKv) \in Nat /\ out <= CeilDiv(out, TileKv) * TileKv
    BY <1>6, CeilBetween
  <2>2. CeilDiv(out, TileKv) * TileKv <= i * TileKv
    BY <1>5, <1>6, <2>1, MulMono
  <2>3. i * TileKv \in Nat /\ CeilDiv(out, TileKv) * TileKv \in Nat
    BY <1>6, <2>1
  <2> QED BY <2>1, <2>2, <2>3, <1>6
<1>9. (i + 1) * TileKv = i * TileKv + TileKv /\ i * TileKv \in Nat
  BY <1>6
<1> SUFFICES ASSUME NEW k \in TileKeys(t, c, i) PROVE k \in KeysIn(p, c)
  OBVIOUS
<1>10. k \in Int /\ start + i * TileKv <= k /\ k < start + (i + 1) * TileKv
  BY <1>1, <1>6, <1>9 DEF TileKeys
<1> HIDE DEF t
<1>11. k < ChunkEnd(t, c) /\ start <= k /\ k \in 0..(req.kv - 1)
  <2>1. span <= ChunkSize(t, c)
    BY <1>1, <1>3 DEF Least, SubOrZero
  <2> HIDE DEF span
  <2> QED BY <2>1, <1>1, <1>6, <1>7, <1>9, <1>10, RequestFacts
<1>12. req.causal => k <= req.kv - req.qo + Token(p)
  <2> SUFFICES ASSUME req.causal PROVE k <= req.kv - req.qo + Token(p)
    OBVIOUS
  <2>0. seen \in Nat /\ (seen = 0 \/ seen = req.kv - req.qo + Above(t) - start)
    BY <1>1, <1>2, <1>3, RequestFacts DEF SubOrZero
  <2>1. span <= seen
    <3> HIDE DEF seen
    <3> QED BY <2>0, <1>1 DEF Least
  <2>4. span > 0
    <3> HIDE DEF span
    <3> QED BY <1>6, <1>7, <1>9
  <2> HIDE DEF seen, span
  <2>2. seen = req.kv - req.qo + Above(t) - start
    BY <2>0, <2>1, <2>4, <1>6
  <2>3. k < start + span
    BY <1>1, <1>6, <1>7, <1>9, <1>10
  <2> QED BY <2>1, <2>2, <2>3, <1>1, <1>2, <1>3, <1>6, <1>10, RequestFacts
<1>13. req.window >= 0 => k >= req.kv - req.qo + Token(p) - req.window
  <2> SUFFICES ASSUME req.window >= 0 PROVE k >= req.kv - req.qo + Token(p) - req.window
    OBVIOUS
  <2>1. WindowLeft = req.window
    BY RequestFacts DEF WindowLeft
  <2>2. req.kv + Beyond(t) <= req.qo + WindowLeft + start + out
    BY <1>1, <1>2, RequestFacts DEF SubOrZero
  <2>3. k >= start + out
    BY <1>1, <1>6, <1>8, <1>9, <1>10
  <2> QED BY <2>1, <2>2, <2>3, <1>1, <1>2, <1>6, <1>10, RequestFacts
<1>14. k \in Attended(p)
  <2> DEFINE own == req.kv - req.qo + Token(p)
  <2>1. (req.causal => k <= own) /\ (req.window >= 0 => k >= own - req.window)
    BY <1>11, <1>12, <1>13, <1>2, RequestFacts
  <2> HIDE DEF own
  <2>2. k \in {j \in 0..(req.kv - 1) :
                 (req.causal => j <= own) /\ (req.window >= 0 => j >= own - req.window)}
    BY <1>11, <2>1
  <2> QED BY <2>2 DEF Attended, own
<1> QED BY <1>11, <1>14 DEF KeysIn, t

(* The mask of a tile keeps the keys the row attends to. *)
LEMMA MaskIs ==
  ASSUME req \in Requests, req.kv > 0, NEW p \in Rows, NEW e \in Nat, e <= req.kv, NEW k \in Nat
  PROVE  Unmasked(p, k, e) <=> k < e /\ k \in Attended(p)
<1> DEFINE own == req.kv - req.qo + Token(p)
<1>1. Token(p) \in Nat /\ Token(p) < req.qo
  BY RowFacts
<1>2. CASE ~(k < e)
  BY <1>2 DEF Unmasked
<1>3. CASE k < e
  <2>1. /\ U(k + req.qo) = k + req.qo /\ U(req.kv + Token(p)) = req.kv + Token(p)
        /\ U(k + req.qo + WindowLeft) = k + req.qo + WindowLeft
    <3>1. /\ k + req.qo \in Nat /\ k + req.qo < Word
          /\ req.kv + Token(p) \in Nat /\ req.kv + Token(p) < Word
          /\ k + req.qo + WindowLeft \in Nat /\ k + req.qo + WindowLeft < Word
      BY <1>1, <1>3, RequestFacts
    <3> QED BY <3>1, USmall
  <2>2. k + req.qo <= req.kv + Token(p) <=> k <= own
    BY <1>1, RequestFacts
  <2>3. k + req.qo + WindowLeft >= req.kv + Token(p) <=> (req.window >= 0 => k >= own - req.window)
    BY <1>1, RequestFacts DEF WindowLeft
  <2>4. k \in 0..(req.kv - 1)
    BY <1>3, RequestFacts
  <2> HIDE DEF own
  <2>5. Unmasked(p, k, e) <=>
          /\ req.causal => k <= own
          /\ req.window >= 0 => k >= own - req.window
    BY <1>3, <2>1, <2>2, <2>3 DEF Unmasked
  <2>6. k \in {j \in 0..(req.kv - 1) :
                 (req.causal => j <= own) /\ (req.window >= 0 => j >= own - req.window)}
        <=> /\ req.causal => k <= own
            /\ req.window >= 0 => k >= own - req.window
    BY <2>4
  <2> QED BY <1>3, <2>5, <2>6 DEF Attended, own
<1> QED BY <1>2, <1>3

(* A block folds into a row the keys of its chunk the row attends to. *)
LEMMA BlockKeysAre ==
  ASSUME req \in Requests, NEW p \in Rows, NEW c \in KvTiles
  PROVE  BlockKeys(p, c) = KeysIn(p, c)
<1> DEFINE t == TileOf(p)
           start == ChunkStart(t, c)
           n == NumIterations(t, c)
<1>1. /\ start \in Nat /\ ChunkEnd(t, c) \in Nat /\ start <= ChunkEnd(t, c)
      /\ ChunkEnd(t, c) <= req.kv /\ ChunkSize(t, c) = ChunkEnd(t, c) - start
  BY ChunkIs
<1>2. TileKv \in Nat \ {0} /\ req.kv \in Nat
  BY RequestFacts
<1>3. CASE req.kv = 0
  <2>1. start = 0 /\ ChunkSize(t, c) = 0
    BY <1>1, <1>3
  <2>2. n = CeilDiv(0, TileKv)
    <3> DEFINE u == U(req.kv - req.qo + CeilDiv((t + 1) * TileQ, GroupSize))
    <3>1. u \in Nat
      <4>1. req.kv - req.qo + CeilDiv((t + 1) * TileQ, GroupSize) \in Int
        <5>1. Beyond(t) \in Nat
          BY RowFacts, TileSpan
        <5> QED BY <5>1, RequestFacts DEF Beyond
      <4> DEFINE v == req.kv - req.qo + CeilDiv((t + 1) * TileQ, GroupSize)
      <4> HIDE DEF v
      <4>2. Word \in Nat \ {0}
        BY RequestFacts
      <4>3. v % Word \in Nat
        <5>1. v \in Int
          BY <4>1 DEF v
        <5> QED BY <5>1, <4>2
      <4> QED BY <4>3 DEF U, v
    <3> HIDE DEF u
    <3>2. (IF req.causal THEN Least(0, SubOrZero(u, 0)) ELSE 0) = 0
      BY <3>1 DEF Least, SubOrZero
    <3> QED BY <2>1, <3>2 DEF NumIterations, u
  <2>3. CeilDiv(0, TileKv) = 0
    <3>1. CeilDiv(0, TileKv) \in Nat /\ CeilDiv(0, TileKv) * TileKv < 0 + TileKv
      BY <1>2, CeilBetween
    <3>2. CeilDiv(0, TileKv) * TileKv < (0 + 1) * TileKv
      BY <1>2, <3>1
    <3>3. CeilDiv(0, TileKv) <= 0
      BY <1>2, <3>1, <3>2, MulLess
    <3> QED BY <3>1, <3>3
  <2>4. BlockKeys(p, c) = {}
    BY <2>2, <2>3 DEF BlockKeys
  <2>5. KeysIn(p, c) = {}
    BY <1>3 DEF KeysIn, Attended
  <2> QED BY <2>4, <2>5
<1>4. CASE req.kv > 0
  <2>1. ASSUME NEW k \in BlockKeys(p, c) PROVE k \in KeysIn(p, c)
    <3>1. PICK i \in 0..(n - 1) : k \in IterationKeys(p, c, i)
      BY <2>1 DEF BlockKeys
    <3>2. n \in Nat /\ i \in Nat
      BY <1>4, <3>1, LoopReaches
    <3>3. CASE i >= MaskIteration(t, c) \/ i < WindowIteration(t, c)
      <4>1. k \in TileKeys(t, c, i) /\ Unmasked(p, k, ChunkEnd(t, c))
        BY <3>1, <3>3 DEF IterationKeys
      <4>2. i * TileKv \in Nat
        BY <1>2, <3>2
      <4>3. k \in Nat /\ start <= k
        BY <1>1, <1>2, <4>1, <4>2 DEF TileKeys
      <4>4. k < ChunkEnd(t, c) /\ k \in Attended(p)
        BY <1>1, <1>4, <4>1, <4>3, MaskIs
      <4> QED BY <4>3, <4>4 DEF KeysIn
    <3>4. CASE ~(i >= MaskIteration(t, c) \/ i < WindowIteration(t, c))
      <4>1. k \in TileKeys(t, c, i)
        BY <3>1, <3>4 DEF IterationKeys
      <4>2. MaskIteration(t, c) \in Int
        <5>1. Above(t) \in Nat
          BY RowFacts, TileSpan
        <5>2. req.kv + Above(t) - req.qo \in Nat /\ req.kv + Above(t) - req.qo < Word
          BY <1>4, <5>1, RowFacts, TileSpan, RequestFacts
        <5>3. U(req.kv + Above(t) - req.qo) \in Nat
          BY <5>2, USmall
        <5>4. (IF req.causal
                 THEN Least(ChunkSize(t, c), SubOrZero(U(req.kv + Above(t) - req.qo), start))
                 ELSE ChunkSize(t, c)) \in Nat
          BY <1>1, <5>3 DEF Least, SubOrZero
        <5> HIDE DEF t
        <5> QED BY <1>2, <5>4, DivBetween DEF MaskIteration, Above
      <4>3. i < MaskIteration(t, c) /\ ~(i < WindowIteration(t, c))
        BY <3>2, <3>4, <4>2
      <4> QED BY <1>4, <3>2, <4>1, <4>3, SkippedMask
    <3> QED BY <3>3, <3>4
  <2>2. ASSUME NEW k \in KeysIn(p, c) PROVE k \in BlockKeys(p, c)
    <3> DEFINE i == (k - start) \div TileKv
               reach == SubOrZero(req.kv - req.qo + Beyond(t), start)
               span == IF req.causal THEN Least(ChunkSize(t, c), reach) ELSE ChunkSize(t, c)
    <3>1. k \in Attended(p) /\ start <= k /\ k < ChunkEnd(t, c)
      BY <2>2 DEF KeysIn
    <3>2. k \in Nat /\ (req.causal => k <= req.kv - req.qo + Token(p))
      BY <3>1 DEF Attended
    <3>3. k - start \in Nat
      BY <1>1, <3>1, <3>2
    <3>4. i \in Nat /\ i * TileKv <= k - start /\ k - start < (i + 1) * TileKv
      BY <1>2, <3>3, DivBetween
    <3>5. n \in Nat /\ span <= n * TileKv
      BY <1>4, LoopReaches
    <3> HIDE DEF i, n
    <3>6. k - start < span /\ span \in Nat
      <4>1. Beyond(t) \in Nat /\ Token(p) < Beyond(t) /\ Token(p) \in Nat
        BY RowFacts, TileSpan
      <4>2. reach \in Nat /\ (req.causal => k - start < reach)
        BY <1>1, <1>4, <3>1, <3>2, <4>1, RequestFacts DEF SubOrZero
      <4>3. ChunkSize(t, c) \in Nat /\ k - start < ChunkSize(t, c)
        BY <1>1, <3>1, <3>2
      <4> HIDE DEF reach
      <4> QED BY <4>2, <4>3, <3>3 DEF Least
    <3> HIDE DEF span
    <3>7. i <= n - 1
      <4>1. n - 1 + 1 = n /\ i * TileKv \in Nat /\ n * TileKv \in Nat
        BY <1>2, <3>4, <3>5
      <4>2. i * TileKv < (n - 1 + 1) * TileKv
        BY <3>3, <3>4, <3>5, <3>6, <4>1
      <4> QED BY <1>2, <3>4, <3>5, <4>2, MulLess
    <3>8. k \in TileKeys(t, c, i)
      <4>1. (i + 1) * TileKv = i * TileKv + TileKv /\ i * TileKv \in Nat
        BY <1>2, <3>4
      <4> QED BY <1>1, <1>2, <3>2, <3>3, <3>4, <4>1 DEF TileKeys
    <3>9. Unmasked(p, k, ChunkEnd(t, c))
      BY <1>1, <1>4, <3>1, <3>2, MaskIs
    <3>10. k \in IterationKeys(p, c, i)
      BY <3>8, <3>9 DEF IterationKeys
    <3>11. i \in 0..(n - 1)
      BY <3>4, <3>5, <3>7
    <3> QED BY <3>10, <3>11 DEF BlockKeys, n
  <2> QED BY <2>1, <2>2
<1> QED BY <1>2, <1>3, <1>4

-----------------------------------------------------------------------------
(* The chunks of a row.                                                    *)

(* What a row attends to lies within the planned chunks, if they reach.    *)
LEMMA Covered ==
  ASSUME req \in Requests, NEW p \in Rows, NEW k \in Attended(p)
  PROVE  /\ k \in Nat /\ k < req.kv /\ KvStart(TileOf(p)) <= k
         /\ Partitioned /\ WindowReaches =>
              k < KvStart(TileOf(p)) + PlannedChunks * req.chunk
<1> DEFINE t == TileOf(p)
           s == KvStart(t)
           own == req.kv - req.qo + Token(p)
<1>1. /\ k \in Nat /\ k < req.kv
      /\ req.causal => k <= own
      /\ req.window >= 0 => k >= own - req.window
  <2> HIDE DEF own
  <2>1. k \in {j \in 0..(req.kv - 1) :
                 (req.causal => j <= own) /\ (req.window >= 0 => j >= own - req.window)}
    BY DEF Attended, own
  <2>2. k \in 0..(req.kv - 1)
    BY <2>1
  <2>3. k \in Nat /\ k < req.kv
    BY <2>2, RequestFacts
  <2> QED BY <2>1, <2>3
<1>2. /\ First(t) \in Nat /\ Beyond(t) \in Nat /\ Beyond(t) <= First(t) + TileQ
      /\ Token(p) \in Nat /\ Token(p) < req.qo
      /\ First(t) <= Token(p) /\ Token(p) < Beyond(t)
  BY RowFacts, TileSpan
<1>3. s = SubOrZero(req.kv + First(t), req.qo + WindowLeft) /\ s \in Nat
  BY StartIs
<1> HIDE DEF t, s
<1>4. s <= k
  <2>1. CASE s = 0
    BY <2>1, <1>1
  <2>2. CASE s > 0
    <3>1. s = req.kv + First(t) - (req.qo + WindowLeft) /\ req.kv + First(t) > req.qo + WindowLeft
      BY <2>2, <1>2, <1>3, RequestFacts DEF SubOrZero
    <3>2. req.window >= 0 /\ WindowLeft = req.window
      BY <3>1, <1>2, RequestFacts DEF WindowLeft
    <3> QED BY <3>1, <3>2, <1>1, <1>2, RequestFacts
  <2> QED BY <2>1, <2>2, <1>3
<1>5. ASSUME Partitioned, WindowReaches PROVE k < s + PlannedChunks * req.chunk
  <2> DEFINE n == Least(Most(req.kv, 1), WindowLeft + TileQ)
             cap == PlannedChunks * req.chunk
  <2>1. cap \in Nat /\ n <= cap
    <3>1. /\ PlannedChunks \in Nat /\ req.chunk \in Nat /\ n <= cap
      BY <1>5, ChunksPlanned
    <3>2. cap \in Nat
      BY <3>1
    <3> QED BY <3>1, <3>2
  <2> HIDE DEF cap
  <2>2. n \in Nat /\ (n = req.kv \/ (n = WindowLeft + TileQ /\ WindowLeft < req.kv))
    BY <1>1, RequestFacts DEF Least, Most
  <2> HIDE DEF n
  <2>3. CASE n = req.kv
    BY <2>1, <2>2, <2>3, <1>1, <1>3 DEF cap
  <2>4. CASE n = WindowLeft + TileQ /\ WindowLeft < req.kv
    <3>1. req.window >= 0 /\ WindowLeft = req.window
      BY <2>4, RequestFacts DEF WindowLeft
    <3>2. s >= req.kv + First(t) - (req.qo + WindowLeft)
      BY <1>2, <1>3, RequestFacts DEF SubOrZero
    <3>3. k < s + n
      <4>1. CASE req.causal
        BY <4>1, <2>4, <3>1, <3>2, <1>1, <1>2, <1>3, RequestFacts
      <4>2. CASE req.qo <= TileQ
        BY <4>2, <2>4, <3>1, <3>2, <1>1, <1>2, <1>3, RequestFacts
      <4> QED BY <4>1, <4>2, <3>1, <1>5, RequestFacts DEF WindowReaches
    <3> QED BY <3>3, <2>1, <2>2, <1>1, <1>3 DEF cap
  <2> QED BY <2>2, <2>3, <2>4
<1> QED BY <1>1, <1>4, <1>5 DEF t, s

LEMMA ChunksCover ==
  ASSUME req \in Requests, WindowReaches, NEW p \in Rows
  PROVE  UNION {KeysIn(p, c) : c \in KvTiles} = Attended(p)
<1> DEFINE t == TileOf(p)
           s == KvStart(t)
<1>1. ASSUME NEW k \in Attended(p) PROVE \E c \in KvTiles : k \in KeysIn(p, c)
  <2>1. k \in Nat /\ k < req.kv /\ s <= k /\ s \in Nat
    BY Covered, StartIs
  <2>2. CASE ~Partitioned
    <3>1. 0 \in KvTiles
      BY <2>2 DEF KvTiles, PlannedChunks
    <3>2. ChunkStart(t, 0) <= k /\ k < ChunkEnd(t, 0)
      BY <2>1, <2>2 DEF ChunkStart, ChunkEnd
    <3> QED BY <3>1, <3>2 DEF KeysIn
  <2>3. CASE Partitioned
    <3> DEFINE c == (k - s) \div req.chunk
    <3>1. PlannedChunks \in Nat /\ req.chunk \in Nat \ {0} /\ k < s + PlannedChunks * req.chunk
      BY <2>3, ChunksPlanned, Covered
    <3>2. k - s \in Nat
      BY <2>1
    <3>3. c \in Nat /\ c * req.chunk <= k - s /\ k - s < (c + 1) * req.chunk
      BY <3>1, <3>2, DivBetween
    <3> HIDE DEF c
    <3>4. c \in KvTiles
      <4>1. c * req.chunk \in Nat /\ PlannedChunks * req.chunk \in Nat /\ PlannedChunks - 1 + 1 = PlannedChunks
        BY <3>1, <3>3
      <4>2. c * req.chunk < (PlannedChunks - 1 + 1) * req.chunk
        BY <4>1, <3>1, <3>2, <3>3, <2>1
      <4>3. c <= PlannedChunks - 1
        BY <4>2, <3>1, <3>3, MulLess
      <4> QED BY <4>3, <3>1, <3>3 DEF KvTiles
    <3>5. c \in 0..PlannedChunks /\ c + 1 \in 0..PlannedChunks
      BY <3>1, <3>3, <3>4 DEF KvTiles
    <3>6. /\ ChunkBound(t, c) = Least(c * req.chunk + s, req.kv)
          /\ ChunkBound(t, c + 1) = Least((c + 1) * req.chunk + s, req.kv)
          /\ c * req.chunk \in Nat /\ (c + 1) * req.chunk \in Nat
      BY <2>3, <3>5, BoundIs
    <3> HIDE DEF t, s
    <3>7. ChunkBound(t, c) <= k /\ k < ChunkBound(t, c + 1)
      <4>1. c * req.chunk + s <= k /\ k < (c + 1) * req.chunk + s
        BY <2>1, <3>2, <3>3, <3>6
      <4>2. req.kv \in Nat
        BY RequestFacts
      <4> QED BY <4>1, <4>2, <2>1, <3>6 DEF Least
    <3>8. k \in KeysIn(p, c)
      BY <2>3, <3>7 DEF KeysIn, ChunkStart, ChunkEnd, t
    <3> QED BY <3>4, <3>8
  <2> QED BY <2>2, <2>3
<1>2. \A c \in KvTiles : KeysIn(p, c) \subseteq Attended(p)
  BY DEF KeysIn
<1> QED BY <1>1, <1>2

LEMMA ChunksDisjoint ==
  ASSUME req \in Requests, NEW p \in Rows, NEW c \in KvTiles, NEW d \in KvTiles, c # d
  PROVE  KeysIn(p, c) \intersect KeysIn(p, d) = {}
<1> DEFINE t == TileOf(p)
<1>1. Partitioned /\ PlannedChunks \in Nat /\ req.chunk \in Nat \ {0}
  <2>1. PlannedChunks \in Nat /\ (Partitioned => req.chunk \in Nat \ {0})
    BY ChunksPlanned
  <2>2. Partitioned
    BY DEF KvTiles, PlannedChunks
  <2> QED BY <2>1, <2>2
<1>2. KvStart(t) \in Nat /\ req.kv \in Nat
  BY StartIs, RequestFacts
<1>3. ASSUME NEW a \in KvTiles, NEW b \in KvTiles, a < b
      PROVE  /\ ChunkEnd(t, a) <= ChunkStart(t, b)
             /\ ChunkEnd(t, a) \in Nat /\ ChunkStart(t, b) \in Nat
  <2>1. /\ a \in 0..PlannedChunks /\ a + 1 \in 0..PlannedChunks /\ b \in 0..PlannedChunks
        /\ a + 1 <= b
    BY <1>1, <1>3 DEF KvTiles
  <2>2. /\ ChunkBound(t, a + 1) = Least((a + 1) * req.chunk + KvStart(t), req.kv)
        /\ ChunkBound(t, b) = Least(b * req.chunk + KvStart(t), req.kv)
        /\ (a + 1) * req.chunk \in Nat /\ b * req.chunk \in Nat
        /\ ChunkBound(t, a + 1) \in Nat /\ ChunkBound(t, b) \in Nat
    BY <1>1, <2>1, BoundIs
  <2>3. (a + 1) * req.chunk <= b * req.chunk
    BY <1>1, <2>1, MulMono
  <2> HIDE DEF t
  <2>4. ChunkBound(t, a + 1) <= ChunkBound(t, b)
    BY <1>2, <2>2, <2>3 DEF Least
  <2> QED BY <1>1, <2>2, <2>4 DEF ChunkEnd, ChunkStart
<1>4. c \in Int /\ d \in Int /\ (c < d \/ d < c)
  BY DEF KvTiles
<1> SUFFICES ASSUME NEW k \in KeysIn(p, c), k \in KeysIn(p, d) PROVE FALSE
  OBVIOUS
<1>5. /\ k \in Nat
      /\ ChunkStart(t, c) <= k /\ k < ChunkEnd(t, c)
      /\ ChunkStart(t, d) <= k /\ k < ChunkEnd(t, d)
  BY Covered DEF KeysIn
<1> HIDE DEF t
<1>6. CASE c < d
  BY <1>3, <1>5, <1>6
<1>7. CASE d < c
  BY <1>3, <1>5, <1>7
<1> QED BY <1>4, <1>6, <1>7

-----------------------------------------------------------------------------
(* Slots.                                                                  *)

LEMMA SlotIs ==
  ASSUME req \in Requests, Partitioned, NEW p \in Rows, NEW c \in KvTiles
  PROVE  /\ Slot(p, c) = (Token(p) * PlannedChunks + c) * GroupSize + (p % GroupSize)
         /\ Slot(p, c) \in 0..(req.qo * PlannedChunks * GroupSize - 1)
<1>1. /\ NumKvChunks = PlannedChunks /\ PlannedChunks \in Nat \ {0} /\ GroupSize \in Nat \ {0}
      /\ req.qo \in Nat
  BY ChunksPlanned, RequestFacts
<1>2. Token(p) \in 0..(req.qo - 1) /\ p % GroupSize \in 0..(GroupSize - 1)
  BY <1>1, RowFacts
<1>3. c \in 0..(PlannedChunks - 1)
  BY DEF KvTiles
<1> DEFINE a == Token(p) * PlannedChunks + c
           m == req.qo * PlannedChunks
<1>4. a \in 0..(m - 1) /\ m \in Nat
  BY <1>1, <1>2, <1>3, RadixBound
<1> HIDE DEF a, m
<1>5. a * GroupSize + (p % GroupSize) \in 0..(m * GroupSize - 1)
  BY <1>1, <1>2, <1>4, RadixBound
<1> QED BY <1>1, <1>5 DEF a, m, Slot

LEMMA SlotsDiffer ==
  ASSUME req \in Requests, Partitioned, NEW p \in Rows, NEW c \in KvTiles,
         NEW q \in Rows, NEW d \in KvTiles, Slot(p, c) = Slot(q, d)
  PROVE  p = q /\ c = d
<1> DEFINE a == Token(p) * PlannedChunks + c
           b == Token(q) * PlannedChunks + d
           r1 == p % GroupSize
           r2 == q % GroupSize
<1>1. PlannedChunks \in Nat \ {0} /\ GroupSize \in Nat \ {0}
  BY ChunksPlanned, RequestFacts
<1>2. /\ Token(p) \in Nat /\ r1 \in 0..(GroupSize - 1) /\ p = Token(p) * GroupSize + r1
      /\ Token(q) \in Nat /\ r2 \in 0..(GroupSize - 1) /\ q = Token(q) * GroupSize + r2
  BY RowFacts
<1>3. c \in 0..(PlannedChunks - 1) /\ d \in 0..(PlannedChunks - 1)
  BY DEF KvTiles
<1>4. a * GroupSize + r1 = b * GroupSize + r2
  BY SlotIs
<1>5. a \in Nat /\ b \in Nat
  BY <1>1, <1>2, <1>3
<1> HIDE DEF r1, r2
<1>6. a = b /\ r1 = r2
  <2> HIDE DEF a, b
  <2> QED BY <1>1, <1>2, <1>4, <1>5, Radix
<1>7. Token(p) = Token(q) /\ c = d
  <2>1. Token(p) * PlannedChunks + c = Token(q) * PlannedChunks + d
    BY <1>6
  <2>2. Token(p) \in Nat /\ Token(q) \in Nat
    BY <1>2
  <2> DEFINE x == Token(p)
             y == Token(q)
  <2>3. x * PlannedChunks + c = y * PlannedChunks + d /\ x \in Nat /\ y \in Nat
    BY <2>1, <2>2
  <2> HIDE DEF x, y
  <2>4. x = y /\ c = d
    BY <1>1, <1>3, <2>3, Radix
  <2> QED BY <2>4 DEF x, y
<1> QED BY <1>2, <1>6, <1>7

-----------------------------------------------------------------------------
(* Every block that has run left its results in its own slots.             *)

SlotsOf(t, c) == {Slot(p, c) : p \in RowsOf(t)}

SplitInv ==
  /\ DOMAIN partial = UNION {SlotsOf(b[1], b[2]) : b \in ran}
  /\ \A b \in ran : \A p \in RowsOf(b[1]) : partial[Slot(p, b[2])] = BlockKeys(p, b[2])
  /\ \/ output = << >>
     \/ /\ ran = Blocks /\ DOMAIN output = Rows
        /\ \A p \in Rows : output[p] = UNION {BlockKeys(p, c) : c \in KvTiles}

WholeInv ==
  /\ partial = << >>
  /\ DOMAIN output = {p \in Rows : <<TileOf(p), 0>> \in ran}
  /\ \A p \in DOMAIN output : output[p] = BlockKeys(p, 0)

Inv ==
  /\ req \in Requests /\ ran \subseteq Blocks
  /\ Partitioned => SplitInv
  /\ ~Partitioned => WholeInv

(* The tiling depends on the request only, which no step changes. *)
LEMMA TilingFixed ==
  ASSUME req' = req
  PROVE  /\ Partitioned' = Partitioned /\ Rows' = Rows /\ KvTiles' = KvTiles /\ Blocks' = Blocks
         /\ \A t : RowsOf(t)' = RowsOf(t)
         /\ \A t, c : SlotsOf(t, c)' = SlotsOf(t, c)
         /\ \A p, c : Slot(p, c)' = Slot(p, c) /\ BlockKeys(p, c)' = BlockKeys(p, c)
<1>1. Partitioned' = Partitioned /\ WindowLeft' = WindowLeft /\ Rows' = Rows /\ QTiles' = QTiles
  BY DEF Partitioned, WindowLeft, Rows, QTiles
<1>2. PlannedChunks' = PlannedChunks /\ NumKvChunks' = NumKvChunks
  BY <1>1 DEF PlannedChunks, NumKvChunks
<1>3. KvTiles' = KvTiles /\ Blocks' = Blocks
  BY <1>1, <1>2 DEF KvTiles, Blocks
<1>4. \A t : KvStart(t)' = KvStart(t)
  BY <1>1 DEF KvStart
<1>5. \A t, c : ChunkBound(t, c)' = ChunkBound(t, c)
  BY <1>4 DEF ChunkBound
<1>6. \A t, c : ChunkStart(t, c)' = ChunkStart(t, c) /\ ChunkEnd(t, c)' = ChunkEnd(t, c)
  BY <1>1, <1>4, <1>5 DEF ChunkStart, ChunkEnd
<1>7. \A t, c : ChunkSize(t, c)' = ChunkSize(t, c)
  BY <1>6 DEF ChunkSize
<1>8. \A t, c : /\ NumIterations(t, c)' = NumIterations(t, c)
                /\ MaskIteration(t, c)' = MaskIteration(t, c)
                /\ WindowIteration(t, c)' = WindowIteration(t, c)
  BY <1>1, <1>6, <1>7 DEF NumIterations, MaskIteration, WindowIteration
<1>9. \A p, k, e : Unmasked(p, k, e)' = Unmasked(p, k, e)
  BY <1>1 DEF Unmasked
<1>10. \A t, c, i : TileKeys(t, c, i)' = TileKeys(t, c, i)
  BY <1>6 DEF TileKeys
<1>11. \A p, c, i : IterationKeys(p, c, i)' = IterationKeys(p, c, i)
  BY <1>6, <1>8, <1>9, <1>10 DEF IterationKeys
<1>12. \A p, c : BlockKeys(p, c)' = BlockKeys(p, c)
  BY <1>8, <1>11 DEF BlockKeys
<1>13. \A p, c : Slot(p, c)' = Slot(p, c)
  BY <1>2 DEF Slot
<1>14. \A t : RowsOf(t)' = RowsOf(t)
  BY <1>1 DEF RowsOf
<1>15. \A t, c : SlotsOf(t, c)' = SlotsOf(t, c)
  BY <1>13, <1>14 DEF SlotsOf
<1> QED BY <1>1, <1>3, <1>12, <1>13, <1>14, <1>15

LEMMA InitInv == Init => Inv
<1> SUFFICES ASSUME Init PROVE Inv
  OBVIOUS
<1>1. req \in Requests /\ partial = << >> /\ ran = {} /\ output = << >>
  BY DEF Init
<1>2. DOMAIN partial = {} /\ DOMAIN output = {}
  BY <1>1
<1> QED BY <1>1, <1>2 DEF Inv, SplitInv, WholeInv

LEMMA SplitStep ==
  ASSUME Inv, Partitioned, NEW t \in QTiles, NEW c \in KvTiles, RunBlock(t, c)
  PROVE  SplitInv'
<1> DEFINE slots == SlotsOf(t, c)
<1>1. /\ req \in Requests /\ ran \subseteq Blocks /\ SplitInv
      /\ <<t, c>> \notin ran /\ <<t, c>> \in Blocks
      /\ req' = req /\ ran' = ran \union {<<t, c>>} /\ output' = output
  BY DEF Inv, RunBlock, Blocks
<1>2. partial' = [s \in DOMAIN partial \union slots |->
                    IF s \in slots
                      THEN BlockKeys(CHOOSE p \in RowsOf(t) : Slot(p, c) = s, c)
                      ELSE partial[s]]
  BY DEF RunBlock, SlotsOf
<1>3. \A u : \A p \in RowsOf(u) : p \in Rows /\ TileOf(p) = u
  BY DEF RowsOf
<1>4. \A b \in Blocks : b[2] \in KvTiles /\ b = <<b[1], b[2]>>
  BY DEF Blocks
<1>5. DOMAIN partial' = UNION {SlotsOf(b[1], b[2]) : b \in ran'}
  <2>1. DOMAIN partial' = DOMAIN partial \union slots
    BY <1>2
  <2>2. DOMAIN partial = UNION {SlotsOf(b[1], b[2]) : b \in ran}
    BY <1>1 DEF SplitInv
  <2>3. SlotsOf(<<t, c>>[1], <<t, c>>[2]) = slots
    OBVIOUS
  <2> QED BY <1>1, <2>1, <2>2, <2>3
<1>6. ASSUME NEW b \in ran', NEW p \in RowsOf(b[1])
      PROVE  partial'[Slot(p, b[2])] = BlockKeys(p, b[2])
  <2> DEFINE s == Slot(p, b[2])
  <2>1. s \in DOMAIN partial \union slots
    <3>1. DOMAIN partial' = DOMAIN partial \union slots
      BY <1>2
    <3>2. s \in SlotsOf(b[1], b[2])
      BY DEF SlotsOf
    <3> QED BY <1>5, <3>1, <3>2
  <2>2. CASE b = <<t, c>>
    <3>1. b[1] = t /\ b[2] = c
      BY <2>2
    <3>2. s \in slots
      BY <3>1 DEF SlotsOf
    <3> DEFINE q == CHOOSE r \in RowsOf(t) : Slot(r, c) = s
    <3>3. q \in RowsOf(t) /\ Slot(q, c) = s
      BY <3>1
    <3> HIDE DEF q
    <3>4. q = p
      BY <1>1, <1>3, <3>1, <3>3, SlotsDiffer
    <3>5. partial'[s] = BlockKeys(q, c)
      BY <1>2, <2>1, <3>2 DEF q
    <3> QED BY <3>1, <3>4, <3>5
  <2>3. CASE b \in ran
    <3>1. s \notin slots
      <4> SUFFICES ASSUME NEW q \in RowsOf(t), Slot(q, c) = s PROVE FALSE
        BY DEF SlotsOf
      <4>1. b[2] \in KvTiles /\ b = <<b[1], b[2]>>
        BY <1>1, <1>4, <2>3
      <4>2. p = q /\ b[2] = c
        BY <1>1, <1>3, <4>1, SlotsDiffer
      <4>3. b[1] = t
        BY <1>3, <4>2
      <4> QED BY <1>1, <2>3, <4>1, <4>2, <4>3
    <3>2. partial'[s] = partial[s]
      BY <1>2, <2>1, <3>1
    <3>3. partial[s] = BlockKeys(p, b[2])
      BY <1>1, <2>3 DEF SplitInv
    <3> QED BY <3>2, <3>3
  <2> QED BY <1>1, <2>2, <2>3
<1>7. output' = << >>
  BY <1>1 DEF SplitInv
<1> QED
  <2>1. (DOMAIN partial = UNION {SlotsOf(b[1], b[2]) : b \in ran})'
    BY <1>1, <1>5, TilingFixed
  <2>2. (\A b \in ran : \A p \in RowsOf(b[1]) : partial[Slot(p, b[2])] = BlockKeys(p, b[2]))'
    BY <1>1, <1>6, TilingFixed
  <2>3. (output = << >>)'
    BY <1>7
  <2> QED BY <2>1, <2>2, <2>3 DEF SplitInv

LEMMA WholeStep ==
  ASSUME Inv, ~Partitioned, NEW t \in QTiles, NEW c \in KvTiles, RunBlock(t, c)
  PROVE  WholeInv'
<1>1. c = 0
  BY DEF KvTiles, PlannedChunks
<1>2. /\ WholeInv /\ req' = req /\ ran' = ran \union {<<t, 0>>} /\ partial' = partial
      /\ output' = [p \in DOMAIN output \union RowsOf(t) |->
                      IF p \in RowsOf(t) THEN BlockKeys(p, 0) ELSE output[p]]
  BY <1>1 DEF Inv, RunBlock
<1>3. DOMAIN output' = {p \in Rows : <<TileOf(p), 0>> \in ran'}
  BY <1>2 DEF WholeInv, RowsOf
<1>4. \A p \in DOMAIN output' : output'[p] = BlockKeys(p, 0)
  BY <1>2 DEF WholeInv
<1> QED BY <1>2, <1>3, <1>4, TilingFixed DEF WholeInv

LEMMA MergeStep ==
  ASSUME Inv, Merge
  PROVE  SplitInv'
<1>1. /\ req \in Requests /\ Partitioned /\ SplitInv /\ ran = Blocks
      /\ req' = req /\ ran' = ran /\ partial' = partial
      /\ output' = [p \in Rows |->
                      UNION {partial[s] : s \in MergedSlots(p) \intersect DOMAIN partial}]
  BY DEF Inv, Merge
<1>2. ASSUME NEW p \in Rows
      PROVE  UNION {partial[s] : s \in MergedSlots(p) \intersect DOMAIN partial}
             = UNION {BlockKeys(p, c) : c \in KvTiles}
  <2>1. ASSUME NEW c \in KvTiles
        PROVE  Slot(p, c) \in DOMAIN partial /\ partial[Slot(p, c)] = BlockKeys(p, c)
    <3> DEFINE b == <<TileOf(p), c>>
    <3>1. b \in ran /\ b[1] = TileOf(p) /\ b[2] = c
      BY <1>1, RowFacts DEF Blocks
    <3>2. p \in RowsOf(b[1])
      BY <3>1 DEF RowsOf
    <3> HIDE DEF b
    <3>3. Slot(p, c) \in SlotsOf(b[1], b[2])
      BY <3>1, <3>2 DEF SlotsOf
    <3> QED BY <1>1, <3>1, <3>2, <3>3 DEF SplitInv
  <2>2. MergedSlots(p) = {Slot(p, c) : c \in KvTiles}
    BY <1>1, SlotIs DEF MergedSlots
  <2> QED BY <2>1, <2>2
<1>3. DOMAIN output' = Rows /\ \A p \in Rows : output'[p] = UNION {BlockKeys(p, c) : c \in KvTiles}
  BY <1>1, <1>2
<1> QED
  <2>1. (DOMAIN partial = UNION {SlotsOf(b[1], b[2]) : b \in ran})'
    BY <1>1, TilingFixed DEF SplitInv
  <2>2. (\A b \in ran : \A p \in RowsOf(b[1]) : partial[Slot(p, b[2])] = BlockKeys(p, b[2]))'
    BY <1>1, TilingFixed DEF SplitInv
  <2>3. (/\ ran = Blocks /\ DOMAIN output = Rows
         /\ \A p \in Rows : output[p] = UNION {BlockKeys(p, c) : c \in KvTiles})'
    BY <1>1, <1>3, TilingFixed
  <2> QED BY <2>1, <2>2, <2>3 DEF SplitInv

LEMMA NextInv == Inv /\ [Next]_vars => Inv'
<1> SUFFICES ASSUME Inv, [Next]_vars PROVE Inv'
  OBVIOUS
<1>1. ASSUME NEW t \in QTiles, NEW c \in KvTiles, RunBlock(t, c) PROVE Inv'
  <2>1. req' = req /\ ran' \subseteq Blocks /\ req \in Requests
    BY <1>1 DEF Inv, RunBlock, Blocks
  <2>2. Partitioned => SplitInv'
    BY <1>1, SplitStep
  <2>3. ~Partitioned => WholeInv'
    BY <1>1, WholeStep
  <2> QED BY <2>1, <2>2, <2>3, TilingFixed DEF Inv
<1>2. CASE Merge
  <2>1. req' = req /\ ran' = ran /\ Partitioned
    BY <1>2 DEF Merge
  <2> QED BY <1>2, <2>1, MergeStep, TilingFixed DEF Inv
<1>3. CASE UNCHANGED vars
  <2>1. req' = req /\ partial' = partial /\ ran' = ran /\ output' = output
    BY <1>3 DEF vars
  <2>2. Partitioned => SplitInv'
    <3> SUFFICES ASSUME SplitInv PROVE SplitInv'
      BY DEF Inv
    <3>1. (DOMAIN partial = UNION {SlotsOf(b[1], b[2]) : b \in ran})'
      BY <2>1, TilingFixed DEF SplitInv
    <3>2. (\A b \in ran : \A p \in RowsOf(b[1]) : partial[Slot(p, b[2])] = BlockKeys(p, b[2]))'
      BY <2>1, TilingFixed DEF SplitInv
    <3>3. (\/ output = << >>
           \/ /\ ran = Blocks /\ DOMAIN output = Rows
              /\ \A p \in Rows : output[p] = UNION {BlockKeys(p, c) : c \in KvTiles})'
      BY <2>1, TilingFixed DEF SplitInv
    <3> QED BY <3>1, <3>2, <3>3 DEF SplitInv
  <2>3. WholeInv => WholeInv'
    BY <2>1, TilingFixed DEF WholeInv
  <2> QED BY <2>1, <2>2, <2>3, TilingFixed DEF Inv
<1> QED BY <1>1, <1>2, <1>3 DEF Next, Done

LEMMA Invariance == Spec => []Inv
<1> QED BY InitInv, NextInv, PTL DEF Spec

-----------------------------------------------------------------------------
(* Theorems.                                                               *)

LEMMA BlocksFoldKeys ==
  ASSUME req \in Requests, NEW p \in Rows, NEW c \in KvTiles
  PROVE  BlockKeys(p, c) \subseteq 0..(req.kv - 1)
BY BlockKeysAre DEF KeysIn, Attended

(* Blocks write inside the room the plan made, whatever the lengths, the   *)
(* tile and the chunk.                                                     *)
THEOREM TypeCorrect == Spec => []TypeOK
<1>1. Inv => TypeOK
  <2> SUFFICES ASSUME Inv PROVE TypeOK
    OBVIOUS
  <2>1. req \in Requests /\ ran \subseteq Blocks
    BY DEF Inv
  <2>2. CASE Partitioned
    <3>1. SplitInv
      BY <2>2 DEF Inv
    <3>2. ASSUME NEW s \in DOMAIN partial
          PROVE  /\ s \in 0..(req.qo * PlannedChunks * GroupSize - 1)
                 /\ partial[s] \subseteq 0..(req.kv - 1)
      <4>1. PICK b \in ran : s \in SlotsOf(b[1], b[2])
        BY <3>1 DEF SplitInv
      <4>2. PICK p \in RowsOf(b[1]) : s = Slot(p, b[2])
        BY <4>1 DEF SlotsOf
      <4>3. p \in Rows /\ b[2] \in KvTiles
        BY <2>1 DEF RowsOf, Blocks
      <4>4. partial[s] = BlockKeys(p, b[2])
        BY <3>1, <4>2 DEF SplitInv
      <4> QED BY <2>1, <2>2, <4>2, <4>3, <4>4, SlotIs, BlocksFoldKeys
    <3>3. DOMAIN output \subseteq Rows /\ \A p \in DOMAIN output : output[p] \subseteq 0..(req.kv - 1)
      <4>1. CASE output = << >>
        BY <4>1
      <4>2. CASE DOMAIN output = Rows /\ \A p \in Rows : output[p] = UNION {BlockKeys(p, c) : c \in KvTiles}
        BY <2>1, <4>2, BlocksFoldKeys
      <4> QED BY <3>1, <4>1, <4>2 DEF SplitInv
    <3> QED BY <2>1, <3>2, <3>3 DEF TypeOK
  <2>3. CASE ~Partitioned
    <3>1. WholeInv
      BY <2>3 DEF Inv
    <3>2. DOMAIN partial = {} /\ DOMAIN output \subseteq Rows
      BY <3>1 DEF WholeInv
    <3>3. 0 \in KvTiles
      BY <2>3 DEF KvTiles, PlannedChunks
    <3>4. \A p \in DOMAIN output : output[p] \subseteq 0..(req.kv - 1)
      BY <2>1, <3>1, <3>2, <3>3, BlocksFoldKeys DEF WholeInv
    <3> QED BY <2>1, <3>2, <3>4 DEF TypeOK
  <2> QED BY <2>2, <2>3
<1> QED BY <1>1, Invariance, PTL

(* However a request is tiled, split and skipped, and causal or not, a row *)
(* attends to exactly the keys attention is defined over, wherever the     *)
(* planned chunks reach far enough.                                        *)
THEOREM RowsAttendAll == Spec => []RowsAttendWhole
<1>1. Inv => RowsAttendWhole
  <2> SUFFICES ASSUME Inv, Finished, WindowReaches, NEW p \in Rows
               PROVE  output[p] = Attended(p)
    BY DEF RowsAttendWhole
  <2>1. req \in Requests /\ DOMAIN output = Rows
    BY DEF Inv, Finished
  <2>2. UNION {KeysIn(p, c) : c \in KvTiles} = Attended(p)
    BY <2>1, ChunksCover
  <2>3. \A c \in KvTiles : BlockKeys(p, c) = KeysIn(p, c)
    BY <2>1, BlockKeysAre
  <2>4. CASE Partitioned
    <3>1. output # << >>
      <4>1. ASSUME output = << >> PROVE FALSE
        <5>1. DOMAIN output = {}
          BY <4>1
        <5> QED BY <2>1, <5>1
      <4> QED BY <4>1
    <3>2. output[p] = UNION {BlockKeys(p, c) : c \in KvTiles}
      BY <2>4, <3>1 DEF Inv, SplitInv
    <3> QED BY <2>2, <2>3, <3>2
  <2>5. CASE ~Partitioned
    <3>1. KvTiles = {0}
      BY <2>5 DEF KvTiles, PlannedChunks
    <3>2. output[p] = BlockKeys(p, 0)
      BY <2>1, <2>5 DEF Inv, WholeInv
    <3> QED BY <2>2, <2>3, <3>1, <3>2
  <2> QED BY <2>4, <2>5
<1> QED BY <1>1, Invariance, PTL

(* No partial result is overwritten or counted twice. *)
THEOREM PartialsDisjoint == Spec => []PartialsAreDisjoint
<1>1. Inv => PartialsAreDisjoint
  <2> SUFFICES ASSUME Inv, Partitioned, NEW b \in ran, NEW p \in RowsOf(b[1])
               PROVE  LET s == (Token(p) * PlannedChunks + b[2]) * GroupSize + (p % GroupSize)
                      IN  /\ s \in DOMAIN partial /\ partial[s] = BlockKeys(p, b[2])
                          /\ \A c \in KvTiles \ {b[2]} : BlockKeys(p, c) \intersect partial[s] = {}
    BY DEF PartialsAreDisjoint
  <2>1. req \in Requests /\ p \in Rows /\ b[2] \in KvTiles /\ SplitInv
    BY DEF Inv, RowsOf, Blocks
  <2>2. Slot(p, b[2]) = (Token(p) * PlannedChunks + b[2]) * GroupSize + (p % GroupSize)
    BY <2>1, SlotIs
  <2>3. Slot(p, b[2]) \in DOMAIN partial /\ partial[Slot(p, b[2])] = BlockKeys(p, b[2])
    <3>1. Slot(p, b[2]) \in SlotsOf(b[1], b[2])
      BY DEF SlotsOf
    <3> QED BY <2>1, <3>1 DEF SplitInv
  <2>4. ASSUME NEW c \in KvTiles \ {b[2]} PROVE BlockKeys(p, c) \intersect BlockKeys(p, b[2]) = {}
    BY <2>1, BlockKeysAre, ChunksDisjoint
  <2> QED BY <2>2, <2>3, <2>4
<1> QED BY <1>1, Invariance, PTL

=============================================================================
