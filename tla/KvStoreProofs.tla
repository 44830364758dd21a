---------------------------- MODULE KvStoreProofs ----------------------------
(***************************************************************************)
(* Proofs about KvStore: under HND the bytes of the cells of the cache are *)
(* disjoint, so that every slot reads back what was last stored in it, for *)
(* every page size, head count and head size.                              *)
(***************************************************************************)
EXTENDS KvStore, TLAPS

-----------------------------------------------------------------------------
(* Mixed-radix arithmetic.                                                 *)

LEMMA MulMono ==
  ASSUME NEW n \in Nat, NEW a \in Nat, NEW b \in Nat, a <= b
  PROVE  a * n <= b * n
<1>1. PICK d \in Nat : b = a + d
  <2>1. b - a \in Nat /\ b = a + (b - a)
    OBVIOUS
  <2> QED BY <2>1
<1>2. b * n = a * n + d * n
  BY <1>1
<1>3. d * n \in Nat /\ a * n \in Nat
  OBVIOUS
<1> QED BY <1>2, <1>3

LEMMA RadixLess ==
  ASSUME NEW n \in Nat \ {0}, NEW q1 \in Nat, NEW q2 \in Nat,
         NEW r1 \in 0..(n - 1), NEW r2 \in 0..(n - 1), q1 < q2
  PROVE  q1 * n + r1 < q2 * n + r2
<1>1. (q1 + 1) * n <= q2 * n
  BY MulMono
<1>2. (q1 + 1) * n = q1 * n + n
  OBVIOUS
<1>3. q1 * n \in Nat /\ q2 * n \in Nat
  OBVIOUS
<1> QED BY <1>1, <1>2, <1>3

(* Quotient and remainder are determined by the number. *)
LEMMA Radix ==
  ASSUME NEW n \in Nat \ {0}, NEW q1 \in Nat, NEW q2 \in Nat,
         NEW r1 \in 0..(n - 1), NEW r2 \in 0..(n - 1),
         q1 * n + r1 = q2 * n + r2
  PROVE  q1 = q2 /\ r1 = r2
<1>0. q1 * n + r1 \in Int /\ q2 * n + r2 \in Int
  OBVIOUS
<1>1. ~(q1 < q2)
  BY <1>0, RadixLess
<1>2. ~(q2 < q1)
  BY <1>0, RadixLess
<1>3. q1 = q2
  BY <1>1, <1>2
<1> QED BY <1>3

LEMMA RadixBound ==
  ASSUME NEW m \in Nat, NEW n \in Nat \ {0},
         NEW q \in 0..(m - 1), NEW r \in 0..(n - 1)
  PROVE  q * n + r \in 0..(m * n - 1)
<1>1. (q + 1) * n <= m * n
  BY MulMono
<1>2. (q + 1) * n = q * n + n
  OBVIOUS
<1>3. q * n \in Nat /\ m * n \in Nat
  OBVIOUS
<1> QED BY <1>1, <1>2, <1>3

LEMMA DivMod ==
  ASSUME NEW a \in Nat, NEW n \in Nat \ {0}
  PROVE  /\ a \div n \in Nat /\ a % n \in 0..(n - 1)
         /\ a = (a \div n) * n + (a % n)
OBVIOUS

LEMMA DivBound ==
  ASSUME NEW m \in Nat, NEW n \in Nat \ {0}, NEW a \in 0..(m * n - 1)
  PROVE  a \div n \in 0..(m - 1)
<1>0. m * n \in Nat /\ a \in Nat
  OBVIOUS
<1>1. a \div n \in Nat /\ a % n \in 0..(n - 1) /\ a = (a \div n) * n + (a % n)
  BY <1>0, DivMod
<1>2. ASSUME m <= a \div n PROVE FALSE
  <2>1. m * n <= (a \div n) * n
    BY <1>1, <1>2, MulMono
  <2> QED BY <2>1, <1>0, <1>1
<1> QED BY <1>1, <1>2

-----------------------------------------------------------------------------
(* The swizzle.                                                            *)

Tokens == 0..(BlockSize - 1)

(* The swizzle stays inside the page's scales ... *)
LEMMA SwizzleRange ==
  ASSUME NEW t \in Tokens, NEW s \in Groups
  PROVE  SwizzledToken(t, s) \in Tokens /\ SwizzledScale(t, s) \in Groups
<1> DEFINE k == ScaleDim \div 4
           m == BlockSize \div 4
<1>1. k \in Nat \ {0} /\ ScaleDim = 4 * k /\ m \in Nat \ {0} /\ BlockSize = 4 * m
  BY SizeAssumption, TileAssumption
<1>2. t \in Nat /\ s \in Nat /\ s < 4 * k /\ t < 4 * m
  BY <1>1 DEF Tokens, Groups
<1>3. t \div 4 \in 0..(m - 1) /\ t % 4 \in 0..3
  BY <1>1, <1>2
<1> HIDE DEF k, m
<1>4. s \div k \in 0..3
  BY <1>1, <1>2, DivBound
<1>5. s % k \in 0..(k - 1)
  BY <1>1, <1>2
<1>6. (t \div 4) * 4 + (s \div k) \in 0..(4 * m - 1)
  BY <1>1, <1>3, <1>4
<1>7. (s % k) * 4 + (t % 4) \in 0..(4 * k - 1)
  BY <1>1, <1>3, <1>5
<1> QED BY <1>1, <1>6, <1>7 DEF SwizzledToken, SwizzledScale, Tokens, Groups, k

(* ... and gives every scale of a page a place of its own. *)
LEMMA SwizzleInjective ==
  ASSUME NEW t1 \in Tokens, NEW s1 \in Groups, NEW t2 \in Tokens, NEW s2 \in Groups,
         SwizzledToken(t1, s1) = SwizzledToken(t2, s2),
         SwizzledScale(t1, s1) = SwizzledScale(t2, s2)
  PROVE  t1 = t2 /\ s1 = s2
<1> DEFINE k == ScaleDim \div 4
<1>1. k \in Nat \ {0} /\ ScaleDim = 4 * k
  BY SizeAssumption, TileAssumption
<1>2. t1 \in Nat /\ t2 \in Nat /\ s1 \in 0..(4 * k - 1) /\ s2 \in 0..(4 * k - 1)
  BY <1>1, SizeAssumption DEF Tokens, Groups
<1> HIDE DEF k
<1>3. s1 \div k \in 0..3 /\ s2 \div k \in 0..3
  BY <1>1, <1>2, DivBound
<1>4. /\ s1 = (s1 \div k) * k + (s1 % k) /\ s1 % k \in Nat
      /\ s2 = (s2 \div k) * k + (s2 % k) /\ s2 % k \in Nat
  BY <1>1, <1>2, DivMod
<1>5. (t1 \div 4) * 4 + (s1 \div k) = (t2 \div 4) * 4 + (s2 \div k)
  BY DEF SwizzledToken, k
<1>6. (s1 % k) * 4 + (t1 % 4) = (s2 % k) * 4 + (t2 % 4)
  BY DEF SwizzledScale, k
<1>7. t1 \div 4 = t2 \div 4 /\ s1 \div k = s2 \div k
  BY <1>2, <1>3, <1>5
<1>8. s1 % k = s2 % k /\ t1 % 4 = t2 % 4
  BY <1>2, <1>4, <1>6
<1>9. s1 = s2
  BY <1>4, <1>7, <1>8
<1>10. t1 = t2
  BY <1>2, <1>7, <1>8
<1> QED BY <1>9, <1>10

-----------------------------------------------------------------------------
(* Addresses under HND: page, side and an offset inside the side, which is *)
(* the number of a data byte or DataPerKv plus the number of a scale.      *)

SideBytes == Heads * BlockSize * FullDim
Row(h, t) == h * BlockSize + t
DataOff(t, h, g, i) == (Row(h, t) * ScaleDim + g) * GroupBytes + i
ScaleOff(t, h, s) == DataPerKv + (Row(h, t) * ScaleDim + s)
Addr(page, kv, off) == (page * 2 + kv) * SideBytes + off

LEMMA Sizes ==
  /\ DataDim \in Nat \ {0} /\ FullDim \in Nat \ {0} /\ DataPerKv \in Nat \ {0}
  /\ SideBytes \in Nat \ {0} /\ PageBytes \in Nat \ {0}
  /\ Heads * BlockSize \in Nat \ {0}
  /\ PageBytes = 2 * SideBytes
  /\ DataPerKv = Heads * BlockSize * ScaleDim * GroupBytes
  /\ SideBytes = DataPerKv + Heads * BlockSize * ScaleDim
<1>1. \A a, b \in Nat \ {0} : a * b \in Nat \ {0}
  <2> SUFFICES ASSUME NEW a \in Nat \ {0}, NEW b \in Nat \ {0}
               PROVE  a * b \in Nat \ {0}
    OBVIOUS
  <2>1. 1 * b <= a * b
    BY MulMono
  <2> QED BY <2>1
<1>2. DataDim \in Nat \ {0}
  BY <1>1, SizeAssumption DEF DataDim
<1>3. FullDim \in Nat \ {0}
  BY <1>2, SizeAssumption DEF FullDim
<1> DEFINE hb == Heads * BlockSize
<1>4. hb \in Nat \ {0}
  BY <1>1, SizeAssumption
<1>5. DataPerKv = hb * DataDim /\ SideBytes = hb * FullDim
  BY DEF DataPerKv, SideBytes
<1>6. DataPerKv = hb * ScaleDim * GroupBytes
  BY <1>4, <1>5, SizeAssumption DEF DataDim
<1>7. PageBytes = 2 * SideBytes
  BY <1>3, <1>4, SizeAssumption DEF PageBytes, SideBytes
<1> HIDE DEF hb
<1>8. hb * FullDim = hb * DataDim + hb * ScaleDim
  BY <1>2, <1>4, SizeAssumption DEF FullDim
<1>9. DataPerKv \in Nat \ {0} /\ SideBytes \in Nat \ {0}
  BY <1>1, <1>2, <1>3, <1>4, <1>5
<1>10. PageBytes \in Nat \ {0}
  BY <1>7, <1>9
<1> QED BY <1>2, <1>3, <1>4, <1>5, <1>6, <1>7, <1>8, <1>9, <1>10 DEF hb

(* page and side are recovered from an address, and so is the offset *)
LEMMA AddrInjective ==
  ASSUME NEW p1 \in Nat, NEW kv1 \in Sides, NEW o1 \in 0..(SideBytes - 1),
         NEW p2 \in Nat, NEW kv2 \in Sides, NEW o2 \in 0..(SideBytes - 1),
         Addr(p1, kv1, o1) = Addr(p2, kv2, o2)
  PROVE  p1 = p2 /\ kv1 = kv2 /\ o1 = o2
<1>1. p1 * 2 + kv1 \in Nat /\ p2 * 2 + kv2 \in Nat
  BY DEF Sides
<1> DEFINE q1 == p1 * 2 + kv1
           q2 == p2 * 2 + kv2
<1>2. q1 * SideBytes + o1 = q2 * SideBytes + o2
  BY DEF Addr
<1>3. q1 \in Nat /\ q2 \in Nat
  BY <1>1
<1>4. SideBytes \in Nat \ {0}
  BY Sizes
<1> HIDE DEF q1, q2
<1>5. q1 = q2 /\ o1 = o2
  BY <1>2, <1>3, <1>4, Radix
<1> QED BY <1>5 DEF Sides, q1, q2

LEMMA AddrInBytes ==
  ASSUME NEW p \in 0..(NumPages - 1), NEW kv \in Sides, NEW o \in 0..(SideBytes - 1)
  PROVE  Addr(p, kv, o) \in Bytes
<1>1. p * 2 + kv \in 0..(NumPages * 2 - 1)
  BY SizeAssumption DEF Sides
<1>2. NumPages * 2 \in Nat
  BY SizeAssumption
<1>3. Addr(p, kv, o) \in 0..((NumPages * 2) * SideBytes - 1)
  BY <1>1, <1>2, Sizes, RadixBound DEF Addr
<1>4. (NumPages * 2) * SideBytes = NumPages * PageBytes
  BY Sizes, SizeAssumption
<1> QED BY <1>3, <1>4 DEF Bytes

LEMMA RowRange ==
  ASSUME NEW h \in HeadIds, NEW t \in Tokens, NEW g \in Groups
  PROVE  /\ Row(h, t) \in 0..(Heads * BlockSize - 1)
         /\ Row(h, t) * ScaleDim + g \in 0..(Heads * BlockSize * ScaleDim - 1)
<1>1. Row(h, t) \in 0..(Heads * BlockSize - 1)
  BY RadixBound, SizeAssumption DEF Row, HeadIds, Tokens
<1>2. Row(h, t) * ScaleDim + g \in 0..((Heads * BlockSize) * ScaleDim - 1)
  BY <1>1, RadixBound, Sizes, SizeAssumption DEF Groups
<1> QED BY <1>1, <1>2

LEMMA RowInjective ==
  ASSUME NEW h1 \in HeadIds, NEW t1 \in Tokens, NEW g1 \in Groups,
         NEW h2 \in HeadIds, NEW t2 \in Tokens, NEW g2 \in Groups,
         Row(h1, t1) * ScaleDim + g1 = Row(h2, t2) * ScaleDim + g2
  PROVE  h1 = h2 /\ t1 = t2 /\ g1 = g2
<1>1. Row(h1, t1) \in Nat /\ Row(h2, t2) \in Nat
  BY RowRange
<1>2. Row(h1, t1) = Row(h2, t2) /\ g1 = g2
  BY <1>1, Radix, SizeAssumption DEF Groups
<1>3. h1 = h2 /\ t1 = t2
  BY <1>2, Radix, SizeAssumption DEF Row, HeadIds, Tokens
<1> QED BY <1>2, <1>3

Parts == 0..(GroupBytes - 1)

LEMMA DataOffRange ==
  ASSUME NEW h \in HeadIds, NEW t \in Tokens, NEW g \in Groups, NEW i \in Parts
  PROVE  DataOff(t, h, g, i) \in 0..(DataPerKv - 1)
<1>1. Row(h, t) * ScaleDim + g \in 0..(Heads * BlockSize * ScaleDim - 1)
  BY RowRange
<1>2. Heads * BlockSize * ScaleDim \in Nat
  BY SizeAssumption
<1> QED BY <1>1, <1>2, RadixBound, Sizes, SizeAssumption DEF DataOff, Parts

LEMMA ScaleOffRange ==
  ASSUME NEW h \in HeadIds, NEW t \in Tokens, NEW g \in Groups
  PROVE  ScaleOff(t, h, g) \in DataPerKv..(SideBytes - 1)
<1>1. Row(h, t) * ScaleDim + g \in 0..(Heads * BlockSize * ScaleDim - 1)
  BY RowRange
<1>2. Heads * BlockSize * ScaleDim \in Nat
  BY SizeAssumption
<1> QED BY <1>1, <1>2, Sizes DEF ScaleOff

LEMMA DataOffInjective ==
  ASSUME NEW h1 \in HeadIds, NEW t1 \in Tokens, NEW g1 \in Groups, NEW i1 \in Parts,
         NEW h2 \in HeadIds, NEW t2 \in Tokens, NEW g2 \in Groups, NEW i2 \in Parts,
         DataOff(t1, h1, g1, i1) = DataOff(t2, h2, g2, i2)
  PROVE  h1 = h2 /\ t1 = t2 /\ g1 = g2
<1>1. Row(h1, t1) * ScaleDim + g1 \in Nat /\ Row(h2, t2) * ScaleDim + g2 \in Nat
  BY RowRange
<1>2. Row(h1, t1) * ScaleDim + g1 = Row(h2, t2) * ScaleDim + g2
  BY <1>1, Radix, SizeAssumption DEF DataOff, Parts
<1> QED BY <1>2, RowInjective

LEMMA ScaleOffInjective ==
  ASSUME NEW h1 \in HeadIds, NEW t1 \in Tokens, NEW g1 \in Groups,
         NEW h2 \in HeadIds, NEW t2 \in Tokens, NEW g2 \in Groups,
         ScaleOff(t1, h1, g1) = ScaleOff(t2, h2, g2)
  PROVE  h1 = h2 /\ t1 = t2 /\ g1 = g2
<1>1. Row(h1, t1) * ScaleDim + g1 \in Nat /\ Row(h2, t2) * ScaleDim + g2 \in Nat
  BY RowRange
<1>2. Row(h1, t1) * ScaleDim + g1 = Row(h2, t2) * ScaleDim + g2
  BY <1>1, Sizes DEF ScaleOff
<1> QED BY <1>2, RowInjective

LEMMA SlotParts ==
  ASSUME NEW slot \in Slots
  PROVE  /\ slot \div BlockSize \in 0..(NumPages - 1) /\ slot % BlockSize \in Tokens
         /\ slot = (slot \div BlockSize) * BlockSize + (slot % BlockSize)
<1>1. slot \in Nat /\ NumPages * BlockSize \in Nat
  BY SizeAssumption DEF Slots
<1>2. slot \div BlockSize \in 0..(NumPages - 1)
  BY DivBound, SizeAssumption DEF Slots
<1>3. slot % BlockSize \in Tokens
  BY <1>1, SizeAssumption, DivMod DEF Tokens
<1> QED BY <1>1, <1>2, <1>3, SizeAssumption, DivMod

-----------------------------------------------------------------------------
(* The bytes of a cell under HND.                                          *)

LEMMA PageSide ==
  ASSUME NEW p \in Nat, NEW kv \in Sides
  PROVE  p * PageBytes + kv * SideBytes = (p * 2 + kv) * SideBytes
<1>1. SideBytes \in Nat /\ PageBytes = 2 * SideBytes /\ kv \in Nat
  BY Sizes DEF Sides
<1> QED BY <1>1

LEMMA DataForm ==
  ASSUME layout = "HND", NEW slot \in Slots, NEW kv \in Sides, NEW h \in HeadIds,
         NEW g \in Groups, NEW i \in Parts
  PROVE  DataAt(slot, kv, h, g) + i
           = Addr(slot \div BlockSize, kv, DataOff(slot % BlockSize, h, g, i))
<1> DEFINE p == slot \div BlockSize
           t == slot % BlockSize
<1>1. p \in Nat /\ t \in Nat
  BY SlotParts DEF Tokens
<1>2. /\ h \in Nat /\ g \in Nat /\ i \in Nat /\ kv \in Nat /\ DataDim \in Nat
      /\ BlockSize \in Nat /\ ScaleDim \in Nat /\ GroupBytes \in Nat
      /\ PageBytes \in Nat /\ SideBytes \in Nat
  BY Sizes, SizeAssumption DEF HeadIds, Groups, Parts, Sides
<1>3. DataAt(slot, kv, h, g) + i
        = p * PageBytes + kv * SideBytes + (h * (BlockSize * DataDim) + t * DataDim)
            + g * GroupBytes + i
  BY DEF DataAt, SideOffset, SideBytes, Inside
<1> HIDE DEF p, t
<1>4. h * (BlockSize * DataDim) + t * DataDim = Row(h, t) * (ScaleDim * GroupBytes)
  BY <1>1, <1>2 DEF Row, DataDim
<1>5. Row(h, t) \in Nat
  BY <1>1, <1>2 DEF Row
<1>6. DataOff(t, h, g, i) = Row(h, t) * (ScaleDim * GroupBytes) + g * GroupBytes + i
  BY <1>2, <1>5 DEF DataOff
<1>7. p * PageBytes + kv * SideBytes = (p * 2 + kv) * SideBytes
  BY <1>1, PageSide
<1> DEFINE x == (p * 2 + kv) * SideBytes
           y == Row(h, t) * (ScaleDim * GroupBytes)
           z == g * GroupBytes
<1>8. x \in Nat /\ y \in Nat /\ z \in Nat
  BY <1>1, <1>2, <1>5
<1>9. /\ DataAt(slot, kv, h, g) + i = x + y + z + i
      /\ Addr(p, kv, DataOff(t, h, g, i)) = x + (y + z + i)
  BY <1>3, <1>4, <1>6, <1>7 DEF Addr
<1> HIDE DEF x, y, z
<1>10. DataAt(slot, kv, h, g) + i = Addr(p, kv, DataOff(t, h, g, i))
  BY <1>2, <1>8, <1>9
<1> QED BY <1>10 DEF p, t

LEMMA ScaleForm ==
  ASSUME layout = "HND", NEW slot \in Slots, NEW kv \in Sides, NEW h \in HeadIds,
         NEW t \in Tokens, NEW s \in Groups
  PROVE  ScaleAt(slot, kv, h, t, s) = Addr(slot \div BlockSize, kv, ScaleOff(t, h, s))
<1> DEFINE p == slot \div BlockSize
<1>1. p \in Nat
  BY SlotParts
<1>2. /\ h \in Nat /\ t \in Nat /\ s \in Nat /\ kv \in Nat /\ DataPerKv \in Nat
      /\ BlockSize \in Nat /\ ScaleDim \in Nat /\ PageBytes \in Nat /\ SideBytes \in Nat
  BY Sizes, SizeAssumption DEF HeadIds, Groups, Tokens, Sides
<1>3. ScaleAt(slot, kv, h, t, s)
        = p * PageBytes + kv * SideBytes + DataPerKv
            + (h * (BlockSize * ScaleDim) + t * ScaleDim) + s
  BY DEF ScaleAt, SideOffset, SideBytes, Inside
<1> HIDE DEF p
<1>4. h * (BlockSize * ScaleDim) + t * ScaleDim = Row(h, t) * ScaleDim
  BY <1>1, <1>2 DEF Row
<1>5. Row(h, t) \in Nat
  BY <1>1, <1>2 DEF Row
<1>6. p * PageBytes + kv * SideBytes = (p * 2 + kv) * SideBytes
  BY <1>1, PageSide
<1> DEFINE x == (p * 2 + kv) * SideBytes
           y == Row(h, t) * ScaleDim
<1>7. x \in Nat /\ y \in Nat
  BY <1>1, <1>2, <1>5
<1>8. /\ ScaleAt(slot, kv, h, t, s) = x + DataPerKv + y + s
      /\ Addr(p, kv, ScaleOff(t, h, s)) = x + (DataPerKv + (y + s))
  BY <1>3, <1>4, <1>6 DEF Addr, ScaleOff
<1> HIDE DEF x, y
<1>9. ScaleAt(slot, kv, h, t, s) = Addr(p, kv, ScaleOff(t, h, s))
  BY <1>2, <1>7, <1>8
<1> QED BY <1>9 DEF p

(* Where in its page the store puts the scale of a group. *)
PlaceToken(kv, t, g) == IF SwizzleOnStore(kv) THEN SwizzledToken(t, g) ELSE t
PlaceScale(kv, t, g) == IF SwizzleOnStore(kv) THEN SwizzledScale(t, g) ELSE g

LEMMA PlaceRange ==
  ASSUME NEW kv \in Sides, NEW t \in Tokens, NEW g \in Groups
  PROVE  PlaceToken(kv, t, g) \in Tokens /\ PlaceScale(kv, t, g) \in Groups
BY SwizzleRange DEF PlaceToken, PlaceScale

LEMMA PlaceInjective ==
  ASSUME NEW kv \in Sides, NEW t1 \in Tokens, NEW g1 \in Groups,
         NEW t2 \in Tokens, NEW g2 \in Groups,
         PlaceToken(kv, t1, g1) = PlaceToken(kv, t2, g2),
         PlaceScale(kv, t1, g1) = PlaceScale(kv, t2, g2)
  PROVE  t1 = t2 /\ g1 = g2
BY SwizzleInjective DEF PlaceToken, PlaceScale

LEMMA StoreScaleForm ==
  ASSUME layout = "HND", NEW slot \in Slots, NEW kv \in Sides, NEW h \in HeadIds,
         NEW g \in Groups
  PROVE  StoreScaleAt(slot, kv, h, g)
           = Addr(slot \div BlockSize, kv,
                  ScaleOff(PlaceToken(kv, slot % BlockSize, g), h,
                           PlaceScale(kv, slot % BlockSize, g)))
<1>1. slot % BlockSize \in Tokens
  BY SlotParts
<1>2. StoreScaleAt(slot, kv, h, g)
        = ScaleAt(slot, kv, h, PlaceToken(kv, slot % BlockSize, g),
                  PlaceScale(kv, slot % BlockSize, g))
  BY DEF StoreScaleAt, Swizzled, Linear, PlaceToken, PlaceScale
<1>3. /\ PlaceToken(kv, slot % BlockSize, g) \in Tokens
      /\ PlaceScale(kv, slot % BlockSize, g) \in Groups
  BY <1>1, PlaceRange
<1> QED BY <1>2, <1>3, ScaleForm

Names == [slot : Slots, launch : Nat, kv : Sides, head : HeadIds, group : Groups,
          part : {"data", "scale"}]

(* Every byte of a cell has the page and side of its slot; the offset says *)
(* the rest.                                                               *)
Offset(c, a) ==
  IF c.part = "data"
    THEN \E i \in Parts : a = DataOff(c.slot % BlockSize, c.head, c.group, i)
    ELSE a = ScaleOff(PlaceToken(c.kv, c.slot % BlockSize, c.group), c.head,
                      PlaceScale(c.kv, c.slot % BlockSize, c.group))

LEMMA SpanForm ==
  ASSUME layout = "HND", NEW c \in Names, NEW a \in Span(c)
  PROVE  \E off \in 0..(SideBytes - 1) :
           a = Addr(c.slot \div BlockSize, c.kv, off) /\ Offset(c, off)
<1>1. /\ c.slot \in Slots /\ c.kv \in Sides /\ c.head \in HeadIds /\ c.group \in Groups
      /\ c.slot % BlockSize \in Tokens
  BY SlotParts DEF Names
<1>2. DataPerKv \in Nat /\ SideBytes \in Nat /\ DataPerKv <= SideBytes
  BY Sizes, SizeAssumption
<1>3. CASE c.part = "data"
  <2>1. PICK i \in Parts : a = DataAt(c.slot, c.kv, c.head, c.group) + i
    BY <1>3 DEF Span, Parts
  <2>2. DataOff(c.slot % BlockSize, c.head, c.group, i) \in 0..(SideBytes - 1)
    BY <1>1, <1>2, DataOffRange
  <2> QED BY <1>1, <1>3, <2>1, <2>2, DataForm DEF Offset
<1>4. CASE c.part = "scale"
  <2> DEFINE t == PlaceToken(c.kv, c.slot % BlockSize, c.group)
             s == PlaceScale(c.kv, c.slot % BlockSize, c.group)
  <2>1. t \in Tokens /\ s \in Groups
    BY <1>1, PlaceRange
  <2>2. a = Addr(c.slot \div BlockSize, c.kv, ScaleOff(t, c.head, s))
    BY <1>1, <1>4, StoreScaleForm DEF Span
  <2>3. Offset(c, ScaleOff(t, c.head, s))
    BY <1>4 DEF Offset
  <2> HIDE DEF t, s
  <2>4. ScaleOff(t, c.head, s) \in 0..(SideBytes - 1)
    BY <1>1, <1>2, <2>1, ScaleOffRange
  <2> QED BY <2>2, <2>3, <2>4
<1> QED BY <1>3, <1>4 DEF Names

LEMMA SpanInBytes ==
  ASSUME layout = "HND", NEW c \in Names
  PROVE  Span(c) \subseteq Bytes
<1> SUFFICES ASSUME NEW a \in Span(c) PROVE a \in Bytes
  OBVIOUS
<1>1. PICK off \in 0..(SideBytes - 1) : a = Addr(c.slot \div BlockSize, c.kv, off)
  BY SpanForm
<1>2. c.slot \div BlockSize \in 0..(NumPages - 1) /\ c.kv \in Sides
  BY SlotParts DEF Names
<1> QED BY <1>1, <1>2, AddrInBytes

(* Two cells that share a byte are the same, but for the launch. *)
LEMMA SpanDisjoint ==
  ASSUME layout = "HND", NEW c \in Names, NEW d \in Names,
         NEW a \in Span(c), a \in Span(d)
  PROVE  /\ c.slot = d.slot /\ c.kv = d.kv /\ c.head = d.head /\ c.group = d.group
         /\ c.part = d.part
<1>1. PICK o1 \in 0..(SideBytes - 1) :
        a = Addr(c.slot \div BlockSize, c.kv, o1) /\ Offset(c, o1)
  BY SpanForm
<1>2. PICK o2 \in 0..(SideBytes - 1) :
        a = Addr(d.slot \div BlockSize, d.kv, o2) /\ Offset(d, o2)
  BY SpanForm
<1>3. /\ c.slot \in Slots /\ c.kv \in Sides /\ c.head \in HeadIds /\ c.group \in Groups
      /\ d.slot \in Slots /\ d.kv \in Sides /\ d.head \in HeadIds /\ d.group \in Groups
      /\ c.part \in {"data", "scale"} /\ d.part \in {"data", "scale"}
  BY DEF Names
<1>4. /\ c.slot % BlockSize \in Tokens /\ d.slot % BlockSize \in Tokens
      /\ c.slot \div BlockSize \in Nat /\ d.slot \div BlockSize \in Nat
      /\ c.slot = (c.slot \div BlockSize) * BlockSize + (c.slot % BlockSize)
      /\ d.slot = (d.slot \div BlockSize) * BlockSize + (d.slot % BlockSize)
  BY <1>3, SlotParts
<1>5. c.slot \div BlockSize = d.slot \div BlockSize /\ c.kv = d.kv /\ o1 = o2
  BY <1>1, <1>2, <1>3, <1>4, AddrInjective
<1> DEFINE t1 == c.slot % BlockSize
           t2 == d.slot % BlockSize
<1>6. SUFFICES t1 = t2 /\ c.head = d.head /\ c.group = d.group /\ c.part = d.part
  BY <1>4, <1>5
<1>7. t1 \in Tokens /\ t2 \in Tokens /\ DataPerKv \in Nat
  BY <1>4, Sizes
<1>8. ASSUME NEW e \in Names, NEW o \in 0..(SideBytes - 1), Offset(e, o)
      PROVE  e.part = "data" <=> o < DataPerKv
  <2>1. /\ e.head \in HeadIds /\ e.group \in Groups /\ e.kv \in Sides
        /\ e.slot % BlockSize \in Tokens /\ e.part \in {"data", "scale"}
    BY SlotParts DEF Names
  <2>2. CASE e.part = "data"
    <3>1. o \in 0..(DataPerKv - 1)
      BY <1>8, <2>1, <2>2, DataOffRange DEF Offset
    <3> QED BY <2>2, <3>1, <1>7
  <2>3. CASE e.part = "scale"
    <3>1. o \in DataPerKv..(SideBytes - 1)
      BY <1>8, <2>1, <2>3, ScaleOffRange, PlaceRange DEF Offset
    <3> QED BY <2>3, <3>1, <1>7
  <2> QED BY <2>1, <2>2, <2>3
<1>9. c.part = d.part
  BY <1>1, <1>2, <1>3, <1>5, <1>8
<1> HIDE DEF t1, t2
<1>10. CASE c.part = "data"
  <2>1. PICK i \in Parts : o1 = DataOff(t1, c.head, c.group, i)
    BY <1>1, <1>10 DEF Offset, t1
  <2>2. PICK j \in Parts : o1 = DataOff(t2, d.head, d.group, j)
    BY <1>2, <1>5, <1>9, <1>10 DEF Offset, t2
  <2>3. DataOff(t1, c.head, c.group, i) = DataOff(t2, d.head, d.group, j)
    BY <2>1, <2>2
  <2>4. c.head = d.head /\ t1 = t2 /\ c.group = d.group
    BY <1>3, <1>7, <2>3, DataOffInjective
  <2> QED BY <1>9, <2>4
<1>11. CASE c.part = "scale"
  <2>1. o1 = ScaleOff(PlaceToken(c.kv, t1, c.group), c.head, PlaceScale(c.kv, t1, c.group))
    BY <1>1, <1>11 DEF Offset, t1
  <2>2. o1 = ScaleOff(PlaceToken(c.kv, t2, d.group), d.head, PlaceScale(c.kv, t2, d.group))
    BY <1>2, <1>5, <1>9, <1>11 DEF Offset, t2
  <2>3. /\ PlaceToken(c.kv, t1, c.group) \in Tokens /\ PlaceScale(c.kv, t1, c.group) \in Groups
        /\ PlaceToken(c.kv, t2, d.group) \in Tokens /\ PlaceScale(c.kv, t2, d.group) \in Groups
    BY <1>3, <1>7, PlaceRange
  <2>a. ScaleOff(PlaceToken(c.kv, t1, c.group), c.head, PlaceScale(c.kv, t1, c.group))
          = ScaleOff(PlaceToken(c.kv, t2, d.group), d.head, PlaceScale(c.kv, t2, d.group))
    BY <2>1, <2>2
  <2>4. /\ c.head = d.head /\ PlaceToken(c.kv, t1, c.group) = PlaceToken(c.kv, t2, d.group)
        /\ PlaceScale(c.kv, t1, c.group) = PlaceScale(c.kv, t2, d.group)
    BY <1>3, <2>3, <2>a, ScaleOffInjective
  <2>5. t1 = t2 /\ c.group = d.group
    BY <1>3, <1>7, <2>4, PlaceInjective
  <2> QED BY <1>9, <2>4, <2>5
<1> QED BY <1>3, <1>10, <1>11

-----------------------------------------------------------------------------
(* The invariant: an engine that serves has HND and, unless the import of  *)
(* the overlay may fail, the overlay; only slots of the latest launch are  *)
(* pending; and the bytes of every stored cell hold it.                    *)

EngineInv ==
  /\ engine = "serving" => layout = "HND" /\ overlay # "no"
  /\ launches > 0 => engine = "serving"
  /\ \A p \in pending : launches > 0
  /\ \A slot \in Slots : owner[slot] > 0 => launches > 0
  /\ \A slot \in Slots, kv \in Sides :
       <<slot, kv>> \in pending => owner[slot] = launches

StoreInv ==
  \A slot \in Slots, kv \in Sides : Stored(slot, kv) =>
    \A h \in HeadIds, g \in Groups, part \in {"data", "scale"} :
      LET c == Cell(slot, kv, h, g, part)
      IN  \A a \in Span(c) : mem[a] = c

Inv == TypeOK /\ EngineInv /\ StoreInv

(* An overlay that cannot fail is active when the engine serves. *)
OverlayInv == ~OverlayMayFail => overlay # "failed"

LEMMA InitInv == Init => Inv /\ OverlayInv
<1> SUFFICES ASSUME Init PROVE Inv /\ OverlayInv
  OBVIOUS
<1> USE DEF Init
<1>1. Unwritten \in Cells
  <2>1. 0 \in Slots
    <3>1. 1 * BlockSize <= NumPages * BlockSize
      BY SizeAssumption, MulMono
    <3> QED BY <3>1, SizeAssumption DEF Slots
  <2>2. 0 \in 0..MaxLaunches /\ 0 \in Sides /\ 0 \in HeadIds /\ 0 \in Groups
    BY SizeAssumption, BoundAssumption DEF Sides, HeadIds, Groups
  <2> QED BY <2>1, <2>2 DEF Unwritten, Cells
<1>2. mem \in [Bytes -> Cells]
  BY <1>1
<1>3. TypeOK
  BY <1>2, BoundAssumption DEF TypeOK
<1>4. EngineInv
  BY DEF EngineInv
<1>5. StoreInv
  BY DEF StoreInv, Stored
<1> QED BY <1>3, <1>4, <1>5 DEF Inv, OverlayInv

(* The cells of a slot are names, and those it stores are its own. *)
LEMMA CellNames ==
  ASSUME TypeOK, NEW slot \in Slots, NEW kv \in Sides, NEW h \in HeadIds, NEW g \in Groups,
         NEW part \in {"data", "scale"}
  PROVE  Cell(slot, kv, h, g, part) \in Names
BY BoundAssumption DEF Cell, Names, TypeOK

(* What the stores of one block do to memory: the cells stored appear, the *)
(* bytes of the others stay.                                               *)
LEMMA StoreEffect ==
  ASSUME TypeOK, layout = "HND", NEW slot \in Slots, NEW kv \in Sides, StoreSide(slot, kv)
  PROVE  /\ mem' \in [Bytes -> Cells]
         /\ \A c \in Stores(slot, kv) : \A a \in Span(c) : mem'[a] = c
         /\ \A d \in Names : \A a \in Span(d) :
              <<d.slot, d.kv>> # <<slot, kv>> => mem'[a] = mem[a]
<1> DEFINE stores == Stores(slot, kv)
           written == UNION {Span(c) : c \in stores}
<1>0. launches \in Nat /\ mem \in [Bytes -> Cells] /\ launches \in 0..MaxLaunches
  BY BoundAssumption DEF TypeOK
<1>1. stores \subseteq Names /\ stores \subseteq Cells
  BY <1>0 DEF Stores, Names, Cells
<1>2. written \subseteq Bytes
  BY <1>1, SpanInBytes
<1>3. Bytes \union written = Bytes
  BY <1>2
<1>4. mem' = [a \in Bytes |->
               IF a \in written THEN CHOOSE c \in stores : a \in Span(c) ELSE mem[a]]
  BY <1>3 DEF StoreSide
<1>5. \A c, d \in stores : \A a : a \in Span(c) /\ a \in Span(d) => c = d
  <2> SUFFICES ASSUME NEW c \in stores, NEW d \in stores, NEW a,
                      a \in Span(c), a \in Span(d)
               PROVE  c = d
    OBVIOUS
  <2>1. c \in Names /\ d \in Names
    BY <1>1
  <2>2. c.head = d.head /\ c.group = d.group /\ c.part = d.part
    BY <2>1, SpanDisjoint
  <2> QED BY <2>2 DEF Stores
<1>6. \A c \in stores : \A a \in Span(c) : mem'[a] = c
  <2> SUFFICES ASSUME NEW c \in stores, NEW a \in Span(c) PROVE mem'[a] = c
    OBVIOUS
  <2>1. a \in written /\ a \in Bytes
    BY <1>2
  <2>2. mem'[a] = CHOOSE d \in stores : a \in Span(d)
    BY <1>4, <2>1
  <2>3. (CHOOSE d \in stores : a \in Span(d)) \in stores
        /\ a \in Span(CHOOSE d \in stores : a \in Span(d))
    OBVIOUS
  <2> HIDE DEF stores
  <2> QED BY <1>5, <2>2, <2>3
<1>7. ASSUME NEW d \in Names, NEW a \in Span(d), <<d.slot, d.kv>> # <<slot, kv>>
      PROVE  mem'[a] = mem[a]
  <2>1. a \in Bytes
    BY SpanInBytes
  <2>2. a \notin written
    <3> SUFFICES ASSUME NEW c \in stores, a \in Span(c) PROVE FALSE
      OBVIOUS
    <3>1. c.slot = d.slot /\ c.kv = d.kv
      BY <1>1, SpanDisjoint
    <3>2. c.slot = slot /\ c.kv = kv
      BY DEF Stores
    <3> QED BY <3>1, <3>2, <1>7
  <2> QED BY <1>4, <2>1, <2>2
<1>8. mem' \in [Bytes -> Cells]
  <2> SUFFICES ASSUME NEW a \in Bytes
               PROVE  (IF a \in written THEN CHOOSE c \in stores : a \in Span(c)
                       ELSE mem[a]) \in Cells
    BY <1>4
  <2>1. CASE a \in written
    <3>1. \E c \in stores : a \in Span(c)
      BY <2>1
    <3>2. (CHOOSE c \in stores : a \in Span(c)) \in stores
      BY <3>1
    <3> QED BY <1>1, <2>1, <3>2
  <2>2. CASE a \notin written
    BY <1>0, <2>2
  <2> QED BY <2>1, <2>2
<1> QED BY <1>6, <1>7, <1>8

LEMMA SpanStable ==
  ASSUME UNCHANGED <<layout, overlay, major>>,
         NEW slot, NEW kv, NEW h, NEW g, NEW part, UNCHANGED owner[slot]
  PROVE  /\ Cell(slot, kv, h, g, part)' = Cell(slot, kv, h, g, part)
         /\ Span(Cell(slot, kv, h, g, part))' = Span(Cell(slot, kv, h, g, part))
BY DEF Span, Cell, DataAt, StoreScaleAt, SwizzleOnStore, Overlaid, Swizzled, Linear, ScaleAt,
       Inside, SideOffset

(* Nothing stored is disturbed by a step that keeps memory and ownership. *)
LEMMA StoreInvKept ==
  ASSUME StoreInv, UNCHANGED <<layout, overlay, major, mem, owner, pending>>
  PROVE  StoreInv'
<1> SUFFICES ASSUME NEW slot \in Slots, NEW kv \in Sides, Stored(slot, kv)',
                    NEW h \in HeadIds, NEW g \in Groups, NEW part \in {"data", "scale"},
                    NEW a \in Span(Cell(slot, kv, h, g, part))'
             PROVE  mem'[a] = Cell(slot, kv, h, g, part)'
  BY DEF StoreInv
<1>1. Stored(slot, kv) /\ Cell(slot, kv, h, g, part)' = Cell(slot, kv, h, g, part)
  BY DEF Stored, Cell
<1>2. a \in Span(Cell(slot, kv, h, g, part))
  BY <1>1, SpanStable
<1> QED BY <1>1, <1>2 DEF StoreInv

LEMMA NextInv == Inv /\ [Next]_vars => Inv'
<1> SUFFICES ASSUME Inv, [Next]_vars PROVE Inv'
  OBVIOUS
<1>0. TypeOK /\ EngineInv /\ StoreInv
  BY DEF Inv
<1>1. CASE ImportOverlay
  <2>1. TypeOK'
    BY <1>0, <1>1, MajorAssumption DEF TypeOK, ImportOverlay
  <2>2. EngineInv'
    BY <1>0, <1>1 DEF EngineInv, ImportOverlay
  <2>3. StoreInv'
    <3>1. \A slot \in Slots : ~(owner[slot] > 0)
      BY <1>0, <1>1, BoundAssumption DEF EngineInv, ImportOverlay, TypeOK
    <3>2. \A slot \in Slots : owner[slot] = 0
      BY <1>0, <3>1, BoundAssumption DEF TypeOK
    <3>3. \A slot \in Slots, kv \in Sides : ~Stored(slot, kv)'
      BY <1>1, <3>2 DEF Stored, ImportOverlay
    <3> QED BY <3>3 DEF StoreInv
  <2> QED BY <2>1, <2>2, <2>3 DEF Inv
<1>2. CASE StartEngine
  <2>1. TypeOK'
    BY <1>0, <1>2 DEF TypeOK, StartEngine
  <2>2. EngineInv'
    BY <1>0, <1>2 DEF EngineInv, StartEngine, LayoutAccepted
  <2>3. StoreInv'
    BY <1>0, <1>2, StoreInvKept DEF StartEngine
  <2> QED BY <2>1, <2>2, <2>3 DEF Inv
<1>3. ASSUME NEW slots \in SUBSET UsedSlots, LaunchStore(slots) PROVE Inv'
  <2>0. slots \subseteq Slots
    BY <1>3, BoundAssumption DEF Slots
  <2>a. launches \in Nat /\ MaxLaunches \in Nat /\ launches + 1 \in 0..MaxLaunches
        /\ launches + 1 > 0
    BY <1>0, <1>3, BoundAssumption DEF TypeOK, LaunchStore
  <2>b. owner \in [Slots -> 0..MaxLaunches]
        /\ owner' = [s \in Slots |-> IF s \in slots THEN launches + 1 ELSE owner[s]]
        /\ pending' = slots \X Sides /\ launches' = launches + 1
    BY <1>0, <1>3 DEF TypeOK, LaunchStore
  <2>1. TypeOK'
    <3>1. owner' \in [Slots -> 0..MaxLaunches]
      BY <2>a, <2>b
    <3>2. pending' \subseteq Slots \X Sides
      BY <2>0, <2>b
    <3> QED BY <1>0, <1>3, <2>a, <3>1, <3>2 DEF TypeOK, LaunchStore
  <2>2. EngineInv'
    <3>1. engine = "serving" /\ engine' = "serving" /\ layout' = layout /\ overlay' = overlay
      BY <1>3 DEF LaunchStore
    <3>2. \A slot \in Slots, kv \in Sides :
            <<slot, kv>> \in pending' => owner'[slot] = launches'
      BY <2>b
    <3> QED BY <1>0, <2>a, <2>b, <3>1, <3>2 DEF EngineInv
  <2>3. StoreInv'
    <3> SUFFICES ASSUME NEW slot \in Slots, NEW kv \in Sides, Stored(slot, kv)',
                        NEW h \in HeadIds, NEW g \in Groups, NEW part \in {"data", "scale"},
                        NEW a \in Span(Cell(slot, kv, h, g, part))'
                 PROVE  mem'[a] = Cell(slot, kv, h, g, part)'
      BY DEF StoreInv
    <3>1. slot \notin slots
      BY <2>b DEF Stored
    <3>2. owner'[slot] = owner[slot]
      BY <2>b, <3>1
    <3>3. Stored(slot, kv)
      BY <1>3, <3>2 DEF Stored, LaunchStore
    <3>4. Cell(slot, kv, h, g, part)' = Cell(slot, kv, h, g, part)
      BY <3>2 DEF Cell
    <3>5. a \in Span(Cell(slot, kv, h, g, part))
      BY <1>3, <3>2, SpanStable DEF LaunchStore
    <3>6. mem' = mem
      BY <1>3 DEF LaunchStore
    <3> QED BY <1>0, <3>3, <3>4, <3>5, <3>6 DEF StoreInv
  <2> QED BY <2>1, <2>2, <2>3 DEF Inv
<1>4. ASSUME NEW slot \in Slots, NEW kv \in Sides, StoreSide(slot, kv) PROVE Inv'
  <2>0. /\ <<slot, kv>> \in pending /\ pending' = pending \ {<<slot, kv>>}
        /\ UNCHANGED <<major, layout, overlay, engine, launches, owner>>
    BY <1>4 DEF StoreSide
  <2>a. layout = "HND" /\ owner[slot] = launches /\ launches > 0
    BY <1>0, <2>0 DEF EngineInv
  <2>b. /\ mem' \in [Bytes -> Cells]
        /\ \A c \in Stores(slot, kv) : \A a \in Span(c) : mem'[a] = c
        /\ \A d \in Names : \A a \in Span(d) :
             <<d.slot, d.kv>> # <<slot, kv>> => mem'[a] = mem[a]
    BY <1>0, <1>4, <2>a, StoreEffect
  <2>1. TypeOK'
    BY <1>0, <2>0, <2>b DEF TypeOK
  <2>2. EngineInv'
    BY <1>0, <2>0 DEF EngineInv
  <2>3. StoreInv'
    <3> SUFFICES ASSUME NEW s \in Slots, NEW v \in Sides, Stored(s, v)',
                        NEW h \in HeadIds, NEW g \in Groups, NEW part \in {"data", "scale"},
                        NEW a \in Span(Cell(s, v, h, g, part))'
                 PROVE  mem'[a] = Cell(s, v, h, g, part)'
      BY DEF StoreInv
    <3> DEFINE c == Cell(s, v, h, g, part)
    <3>1. Cell(s, v, h, g, part)' = c
      BY <2>0 DEF Cell
    <3>2. a \in Span(c)
      BY <2>0, SpanStable
    <3>3. c \in Names
      BY <1>0, CellNames
    <3>4. c.slot = s /\ c.kv = v
      BY DEF Cell
    <3>5. CASE <<s, v>> = <<slot, kv>>
      <4>1. c \in Stores(slot, kv)
        BY <2>a, <3>5 DEF Cell, Stores
      <4> QED BY <2>b, <3>1, <3>2, <4>1
    <3>6. CASE <<s, v>> # <<slot, kv>>
      <4>1. mem'[a] = mem[a]
        BY <2>b, <3>2, <3>3, <3>4, <3>6
      <4>2. Stored(s, v)
        BY <2>0, <3>6 DEF Stored
      <4>3. mem[a] = c
        BY <1>0, <3>2, <4>2 DEF StoreInv
      <4> QED BY <3>1, <4>1, <4>3
    <3> QED BY <3>5, <3>6
  <2> QED BY <2>1, <2>2, <2>3 DEF Inv
<1>5. CASE UNCHANGED vars
  <2>1. TypeOK' /\ EngineInv'
    BY <1>0, <1>5 DEF vars, TypeOK, EngineInv
  <2>2. StoreInv'
    BY <1>0, <1>5, StoreInvKept DEF vars
  <2> QED BY <2>1, <2>2 DEF Inv
<1> QED BY <1>1, <1>2, <1>3, <1>4, <1>5 DEF Next, Done

LEMMA NextOverlay == OverlayInv /\ [Next]_vars => OverlayInv'
BY DEF OverlayInv, Next, vars, ImportOverlay, StartEngine, LaunchStore, StoreSide, Done

-----------------------------------------------------------------------------
(* What a slot holds is served. *)
LEMMA StoredServed ==
  ASSUME Inv, NEW slot \in Slots, NEW kv \in Sides, Stored(slot, kv)
  PROVE  engine = "serving" /\ layout = "HND" /\ overlay # "no"
<1>1. owner[slot] > 0
  BY BoundAssumption DEF Inv, TypeOK, Stored
<1> QED BY <1>1 DEF Inv, EngineInv

LEMMA InvReadsData == Inv => DataReadBack
<1> SUFFICES ASSUME Inv, NEW slot \in Slots, NEW kv \in Sides, Stored(slot, kv),
                    NEW h \in HeadIds, NEW g \in Groups, NEW i \in 0..(GroupBytes - 1)
             PROVE  mem[DataAt(slot, kv, h, g) + i] = Cell(slot, kv, h, g, "data")
  BY DEF DataReadBack
<1>1. DataAt(slot, kv, h, g) + i \in Span(Cell(slot, kv, h, g, "data"))
  BY DEF Span, Cell
<1> QED BY <1>1 DEF Inv, StoreInv

LEMMA InvReadsScales == Inv /\ OverlayInv /\ ~OverlayMayFail => ScalesReadBack
<1> SUFFICES ASSUME Inv, OverlayInv, ~OverlayMayFail,
                    NEW slot \in Slots, NEW kv \in Sides, Stored(slot, kv),
                    NEW h \in HeadIds, NEW g \in Groups
             PROVE  mem[ReadScaleAt(slot, kv, h, g)] = Cell(slot, kv, h, g, "scale")
  BY DEF ScalesReadBack
<1>1. overlay = "active" /\ major \in {10, 12}
  BY StoredServed, MajorAssumption DEF Inv, TypeOK, OverlayInv
<1>2. SwizzleOnStore(kv) <=> (kv = 1 /\ major = 10)
  BY <1>1 DEF SwizzleOnStore, Overlaid
<1>3. ReadScaleAt(slot, kv, h, g) = StoreScaleAt(slot, kv, h, g)
  BY <1>2 DEF ReadScaleAt, StoreScaleAt
<1>4. StoreScaleAt(slot, kv, h, g) \in Span(Cell(slot, kv, h, g, "scale"))
  BY DEF Span, Cell
<1> QED BY <1>3, <1>4 DEF Inv, StoreInv

LEMMA AlwaysInv == Spec => [](Inv /\ OverlayInv)
<1>1. Inv /\ OverlayInv /\ [Next]_vars => (Inv /\ OverlayInv)'
  BY NextInv, NextOverlay
<1> QED BY InitInv, <1>1, PTL DEF Spec

(* Type correctness for every size, with every store inside the cache      *)
(* (reshape_and_cache_nvfp4_kernel).                                       *)
THEOREM TypeCorrect == Spec => []TypeOK
<1>1. Inv => TypeOK
  BY DEF Inv
<1> QED BY AlwaysInv, <1>1, PTL

(* The data a slot was given last is read back, for every number of pages, *)
(* tokens, heads and groups, in both device lanes and whether or not the   *)
(* overlay was built (reshape_and_cache_nvfp4_dispatch).                   *)
THEOREM DataIsReadBack == Spec => []DataReadBack
BY AlwaysInv, InvReadsData, PTL

(* The scales are read back where the import of the overlay cannot fail    *)
(* (swizzle_v_sf in the dispatch, the routing in vllm_gb10_nvfp4kv).       *)
THEOREM ScalesAreReadBack ==
  ASSUME ~OverlayMayFail
  PROVE  Spec => []ScalesReadBack
<1>1. Inv /\ OverlayInv => ScalesReadBack
  BY InvReadsScales
<1> QED BY AlwaysInv, <1>1, PTL
=============================================================================
