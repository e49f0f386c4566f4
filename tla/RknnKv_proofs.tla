---------------------------- MODULE RknnKv_proofs ----------------------------
(***************************************************************************)
(* For every number of heads, dimensions, layers and buckets: the rows a   *)
(* runner keeps and the tensor its NPU reads are the context, in their own *)
(* layouts, as long as no update stopped half way.                         *)
(***************************************************************************)
EXTENDS RknnKv, SequenceTheorems, NaturalsInduction, WellFoundedInduction, TLAPS

-----------------------------------------------------------------------------
(* Numbers with two digits.                                                *)

LEMMA TimesGrows ==
  ASSUME NEW a \in Nat, NEW c \in Nat, NEW b \in Nat, a <= c
  PROVE  a * b \in Nat /\ c * b \in Nat /\ a * b <= c * b
<1>1. PICK e \in Nat : c = a + e
  <2>1. c - a \in Nat /\ c = a + (c - a)
    OBVIOUS
  <2> QED BY <2>1
<1>2. c * b = a * b + e * b /\ e * b \in Nat /\ a * b \in Nat
  BY <1>1
<1> QED BY <1>2

LEMMA Split ==
  ASSUME NEW j \in Nat, NEW b \in Nat \ {0}
  PROVE  /\ j \div b \in Nat /\ j % b \in 0 .. b - 1 /\ j = (j \div b) * b + (j % b)
         /\ \A a \in Nat : j < a * b => j \div b \in 0 .. a - 1
<1>1. /\ j \div b \in Nat /\ j % b \in 0 .. b - 1 /\ j = (j \div b) * b + (j % b)
  OBVIOUS
<1>2. ASSUME NEW a \in Nat, j < a * b, a <= j \div b
      PROVE  FALSE
  <2>1. a * b <= (j \div b) * b
    BY <1>1, <1>2, TimesGrows
  <2>2. a * b \in Nat /\ (j \div b) * b \in Nat
    BY <1>1
  <2> QED BY <1>1, <1>2, <2>1, <2>2
<1> QED BY <1>1, <1>2

LEMMA Joined ==
  ASSUME NEW q \in Nat, NEW b \in Nat \ {0}, NEW r \in 0 .. b - 1
  PROVE  /\ q * b + r \in Nat /\ (q * b + r) \div b = q /\ (q * b + r) % b = r
         /\ \A a \in Nat : q < a => q * b + r < a * b
<1> DEFINE j == q * b + r  p == j \div b  m == j % b
<1>1. j \in Nat /\ q * b \in Nat
  OBVIOUS
<1>2. p \in Nat /\ m \in 0 .. b - 1 /\ j = p * b + m /\ p * b \in Nat
  <2>1. \A i \in Nat : i \div b \in Nat /\ i % b \in 0 .. b - 1 /\ i = (i \div b) * b + (i % b)
    BY Split
  <2>2. j \div b \in Nat /\ j % b \in 0 .. b - 1 /\ j = (j \div b) * b + (j % b)
    BY <1>1, <2>1
  <2>3. p * b \in Nat
    <3> HIDE DEF j, m
    <3> QED BY <2>2, TimesGrows
  <2> HIDE DEF j
  <2> QED BY <2>2, <2>3
<1>3. ~(p < q)
  <2> SUFFICES ASSUME p < q PROVE FALSE
    OBVIOUS
  <2>1. (p + 1) * b <= q * b
    BY <1>2, TimesGrows
  <2>2. (p + 1) * b = p * b + b
    BY <1>2
  <2> HIDE DEF p, m
  <2> QED BY <1>1, <1>2, <2>1, <2>2
<1>4. ~(q < p)
  <2> SUFFICES ASSUME q < p PROVE FALSE
    OBVIOUS
  <2>1. (q + 1) * b <= p * b
    BY <1>2, TimesGrows
  <2>2. (q + 1) * b = q * b + b
    OBVIOUS
  <2> HIDE DEF p, m
  <2> QED BY <1>1, <1>2, <2>1, <2>2
<1>5. p = q
  BY <1>2, <1>3, <1>4
<1>6. m = r
  <2> HIDE DEF p, m
  <2> QED BY <1>1, <1>2, <1>5
<1>7. ASSUME NEW a \in Nat, q < a
      PROVE  j < a * b
  <2>1. (q + 1) * b <= a * b /\ a * b \in Nat
    BY <1>7, TimesGrows
  <2>2. (q + 1) * b = q * b + b
    OBVIOUS
  <2> QED BY <1>1, <2>1, <2>2
<1> QED BY <1>1, <1>5, <1>6, <1>7

LEMMA Smallest ==
  ASSUME NEW S \in SUBSET Nat, S # {}
  PROVE  \E b \in S : \A c \in S : b <= c
<1> DEFINE R == {p \in Nat \X Nat : p[1] < p[2]}
<1>1. IsWellFoundedOn(R, Nat)
  <2>1. R = OpToRel(<, Nat)
    BY Zenon DEF OpToRel
  <2> QED BY <2>1, NatLessThanWellFounded, Zenon
<1>2. PICK b \in S : \A c \in S : ~ (<<c, b>> \in R)
  <2> HIDE DEF R
  <2> QED BY <1>1, WFMin
<1>3. ASSUME NEW c \in S
      PROVE  b <= c
  <2>1. <<c, b>> \in Nat \X Nat /\ <<c, b>>[1] = c /\ <<c, b>>[2] = b /\ b \in Nat /\ c \in Nat
    OBVIOUS
  <2>2. ~ (c < b)
    BY <1>2, <2>1, Zenon
  <2> QED BY <2>1, <2>2
<1> QED BY <1>3

-----------------------------------------------------------------------------
(* Where a cell lies in a buffer of n rows per head.                       *)

Size(n) == Heads * n * Dim
KvHead == 0 .. Heads - 1
Coord == 0 .. Dim - 1

Value == (Nat \X Nat \X Nat) \cup {Zero}
Buffer(n) == [1 .. Size(n) -> Value]

LEMMA Shapes ==
  /\ Heads \in Nat \ {0} /\ Dim \in Nat \ {0} /\ Heads # Dim /\ Layers \in Nat \ {0}
  /\ Buckets \in SUBSET Nat /\ MaxLen \in Nat
  /\ \A n \in Nat : /\ Heads * n \in Nat /\ n * Dim \in Nat /\ Size(n) \in Nat
                    /\ Size(n) = (Heads * n) * Dim /\ Size(n) = (n * Dim) * Heads
BY ShapeAssumption DEF Size

(* Every place of a buffer in cache layout is that of one cell ...         *)
LEMMA CachePlaces ==
  ASSUME NEW n \in Nat, NEW i \in 1 .. Size(n)
  PROVE  /\ HeadOf(i, n) \in KvHead /\ PosOf(i, n) \in 0 .. n - 1 /\ DimOf(i) \in Coord
         /\ CacheIdx(HeadOf(i, n), PosOf(i, n), DimOf(i), n) = i
<1> DEFINE j == i - 1  q == j \div Dim  d == j % Dim
<1>1. j \in Nat /\ j < (Heads * n) * Dim /\ Heads * n \in Nat /\ i = j + 1
  BY Shapes
<1>2. q \in 0 .. (Heads * n) - 1 /\ d \in Coord /\ j = q * Dim + d
  <2> HIDE DEF j
  <2> QED BY <1>1, Shapes, Split DEF Coord
<1>3. n \in Nat \ {0}
  <2>1. n = 0 => Heads * n = 0
    BY Shapes
  <2> HIDE DEF q
  <2> QED BY <1>2, <2>1
<1>4. /\ q \div n \in KvHead /\ q % n \in 0 .. n - 1 /\ q = (q \div n) * n + (q % n)
  <2>1. q \in Nat /\ q < Heads * n /\ Heads \in Nat
    <3> HIDE DEF q
    <3> QED BY <1>1, <1>2, Shapes
  <2> HIDE DEF q
  <2>2. /\ q \div n \in 0 .. Heads - 1 /\ q % n \in 0 .. n - 1 /\ q = (q \div n) * n + (q % n)
    BY <1>3, <2>1, Split, Zenon
  <2> QED BY <2>2 DEF KvHead
<1>5. HeadOf(i, n) = q \div n /\ PosOf(i, n) = q % n /\ DimOf(i) = d
  BY DEF HeadOf, PosOf, DimOf
<1>6. CacheIdx(q \div n, q % n, d, n) = q * Dim + d + 1
  <2> HIDE DEF q, d
  <2> QED BY <1>4 DEF CacheIdx
<1> HIDE DEF j, q, d
<1> QED BY <1>1, <1>2, <1>4, <1>5, <1>6

(* ... and every cell has its place, there ...                             *)
LEMMA CacheCells ==
  ASSUME NEW n \in Nat, NEW h \in KvHead, NEW s \in 0 .. n - 1, NEW d \in Coord
  PROVE  /\ CacheIdx(h, s, d, n) \in 1 .. Size(n)
         /\ HeadOf(CacheIdx(h, s, d, n), n) = h /\ PosOf(CacheIdx(h, s, d, n), n) = s
         /\ DimOf(CacheIdx(h, s, d, n)) = d
<1> DEFINE q == h * n + s  j == q * Dim + d
<1>1. /\ n \in Nat \ {0} /\ h \in Nat /\ h < Heads /\ s \in 0 .. n - 1 /\ d \in 0 .. Dim - 1
      /\ Heads \in Nat /\ Heads * n \in Nat /\ Dim \in Nat \ {0}
  BY Shapes DEF KvHead, Coord
<1>2. q \in Nat /\ q \div n = h /\ q % n = s /\ q < Heads * n
  BY <1>1, Joined, Zenon
<1>3. j \in Nat /\ j \div Dim = q /\ j % Dim = d /\ j < (Heads * n) * Dim
  <2> HIDE DEF q
  <2> QED BY <1>1, <1>2, Joined, ZenonT(40)
<1>4. CacheIdx(h, s, d, n) = j + 1
  BY DEF CacheIdx
<1>5. (j + 1) - 1 = j
  <2> HIDE DEF j
  <2> QED BY <1>3
<1>6. j + 1 \in 1 .. Size(n)
  <2> HIDE DEF j
  <2> QED BY <1>3, Shapes
<1> HIDE DEF q, j
<1> QED BY <1>2, <1>3, <1>4, <1>5, <1>6 DEF HeadOf, PosOf, DimOf

(* ... and in the layout of the NPU.                                       *)
NativeIdx(fmt, h, s, d, n) == IF fmt = "NHWC" THEN NhwcIdx(h, s, d) ELSE CacheIdx(h, s, d, n)

NhwcHead(i) == (i - 1) % Heads
NhwcPos(i) == ((i - 1) \div Heads) \div Dim
NhwcDim(i) == ((i - 1) \div Heads) % Dim

LEMMA NhwcCells ==
  ASSUME NEW n \in Nat, NEW h \in KvHead, NEW s \in 0 .. n - 1, NEW d \in Coord
  PROVE  /\ NhwcIdx(h, s, d) \in 1 .. Size(n)
         /\ NhwcHead(NhwcIdx(h, s, d)) = h /\ NhwcPos(NhwcIdx(h, s, d)) = s
         /\ NhwcDim(NhwcIdx(h, s, d)) = d
<1> DEFINE q == s * Dim + d  j == q * Heads + h
<1>1. /\ s \in Nat /\ s < n /\ d \in 0 .. Dim - 1 /\ h \in 0 .. Heads - 1
      /\ Heads \in Nat \ {0} /\ Dim \in Nat \ {0} /\ n * Dim \in Nat
  BY Shapes DEF KvHead, Coord
<1>2. q \in Nat /\ q \div Dim = s /\ q % Dim = d /\ q < n * Dim
  BY <1>1, Joined, Zenon
<1>3. j \in Nat /\ j \div Heads = q /\ j % Heads = h /\ j < (n * Dim) * Heads
  <2> HIDE DEF q
  <2> QED BY <1>1, <1>2, Joined, ZenonT(40)
<1>4. NhwcIdx(h, s, d) = j + 1
  BY DEF NhwcIdx
<1>5. (j + 1) - 1 = j
  <2> HIDE DEF j
  <2> QED BY <1>3
<1>6. j + 1 \in 1 .. Size(n)
  <2> HIDE DEF j
  <2> QED BY <1>3, Shapes
<1> HIDE DEF q, j
<1> QED BY <1>2, <1>3, <1>4, <1>5, <1>6 DEF NhwcHead, NhwcPos, NhwcDim

LEMMA NhwcPlaces ==
  ASSUME NEW n \in Nat, NEW i \in 1 .. Size(n)
  PROVE  NhwcHead(i) \in KvHead /\ NhwcPos(i) \in 0 .. n - 1 /\ NhwcDim(i) \in Coord
<1> DEFINE j == i - 1  q == j \div Heads
<1>1. j \in Nat /\ j < (n * Dim) * Heads /\ n * Dim \in Nat
  BY Shapes
<1>2. q \in 0 .. (n * Dim) - 1 /\ j % Heads \in KvHead
  <2> HIDE DEF j
  <2> QED BY <1>1, Shapes, Split DEF KvHead
<1>3. q \div Dim \in 0 .. n - 1 /\ q % Dim \in Coord
  <2> HIDE DEF q
  <2>1. q \in Nat /\ q < n * Dim /\ Dim \in Nat \ {0}
    BY <1>1, <1>2, Shapes
  <2> QED BY <2>1, Split, Zenon DEF Coord
<1> QED BY <1>2, <1>3 DEF NhwcHead, NhwcPos, NhwcDim

LEMMA NativeCells ==
  ASSUME NEW n \in Nat, NEW h \in KvHead, NEW s \in 0 .. n - 1, NEW d \in Coord, NEW fmt
  PROVE  NativeIdx(fmt, h, s, d, n) \in 1 .. Size(n)
BY CacheCells, NhwcCells DEF NativeIdx

(* Buffers that agree in every cell are the same.                          *)
LEMMA SameBuffer ==
  ASSUME NEW n \in Nat, NEW a \in Buffer(n), NEW b \in Buffer(n),
         \A h \in KvHead, s \in 0 .. n - 1, d \in Coord :
           a[CacheIdx(h, s, d, n)] = b[CacheIdx(h, s, d, n)]
  PROVE  a = b
<1>1. ASSUME NEW i \in 1 .. Size(n)
      PROVE  a[i] = b[i]
  <2>1. /\ HeadOf(i, n) \in KvHead /\ PosOf(i, n) \in 0 .. n - 1 /\ DimOf(i) \in Coord
        /\ CacheIdx(HeadOf(i, n), PosOf(i, n), DimOf(i), n) = i
    BY CachePlaces
  <2> QED BY <2>1, Zenon
<1>2. \A i \in 1 .. Size(n) : a[i] = b[i]
  BY <1>1
<1>3. a = [i \in 1 .. Size(n) |-> a[i]] /\ b = [i \in 1 .. Size(n) |-> b[i]]
  BY DEF Buffer
<1> QED BY <1>2, <1>3, Zenon

LEMMA BufferLen ==
  ASSUME NEW n \in Nat, NEW b \in Buffer(n)
  PROVE  b \in Seq(Value) /\ Len(b) = Size(n) /\ (b = <<>> => n = 0)
<1>1. b \in Seq(Value) /\ Len(b) = Size(n)
  <2>1. Size(n) \in Nat /\ b \in [1 .. Size(n) -> Value]
    BY Shapes DEF Buffer
  <2> HIDE DEF Value
  <2> QED BY <2>1
<1>2. Size(n) = 0 => n = 0
  <2>1. n # 0 => 1 <= n
    OBVIOUS
  <2>2. n # 0 => 1 * Heads <= n * Heads /\ 1 * Dim <= (Heads * n) * Dim
    <3>1. n # 0 => 1 <= Heads * n
      BY <2>1, Shapes, TimesGrows
    <3> QED BY <2>1, <3>1, Shapes, TimesGrows
  <2> QED BY <2>2, Shapes
<1>3. b = <<>> => Len(b) = 0
  OBVIOUS
<1> QED BY <1>1, <1>2, <1>3

-----------------------------------------------------------------------------
(* What the conversions do to each cell.                                   *)

LEMMA RowsCells ==
  ASSUME NEW first \in Nat, NEW n \in Nat
  PROVE  /\ Rows(first, n) \in Buffer(n)
         /\ \A h \in KvHead, s \in 0 .. n - 1, d \in Coord :
              Rows(first, n)[CacheIdx(h, s, d, n)] = Cell(h, first + s, d)
<1>1. ASSUME NEW i \in 1 .. Size(n)
      PROVE  Cell(HeadOf(i, n), first + PosOf(i, n), DimOf(i)) \in Value
  <2>1. HeadOf(i, n) \in KvHead /\ PosOf(i, n) \in 0 .. n - 1 /\ DimOf(i) \in Coord
    BY CachePlaces
  <2>2. HeadOf(i, n) \in Nat /\ first + PosOf(i, n) \in Nat /\ DimOf(i) \in Nat
    BY <2>1, Shapes DEF KvHead, Coord
  <2> QED BY <2>2, Zenon DEF Cell, Value
<1>2. Rows(first, n) \in Buffer(n)
  BY <1>1 DEF Rows, Buffer, Size
<1> QED BY <1>2, CacheCells DEF Rows, Size

LEMMA PadCells ==
  ASSUME NEW past \in Nat, NEW bucket \in Nat, past <= bucket, NEW k \in Buffer(past)
  PROVE  /\ Pad(k, past, bucket) \in Buffer(bucket)
         /\ \A h \in KvHead, s \in 0 .. bucket - 1, d \in Coord :
              Pad(k, past, bucket)[CacheIdx(h, s, d, bucket)] =
                IF s < past THEN k[CacheIdx(h, s, d, past)] ELSE Zero
<1>1. CASE bucket = past
  BY <1>1 DEF Pad
<1>2. CASE bucket # past
  <2> DEFINE cell(i) == IF PosOf(i, bucket) < past
                        THEN k[CacheIdx(HeadOf(i, bucket), PosOf(i, bucket), DimOf(i), past)]
                        ELSE Zero
  <2>1. Pad(k, past, bucket) = [i \in 1 .. Size(bucket) |-> cell(i)]
    BY <1>2 DEF Pad, Size
  <2>2. ASSUME NEW i \in 1 .. Size(bucket)
        PROVE  cell(i) \in Value
    <3>1. /\ HeadOf(i, bucket) \in KvHead /\ PosOf(i, bucket) \in 0 .. bucket - 1
          /\ DimOf(i) \in Coord
      BY CachePlaces
    <3>2. CASE PosOf(i, bucket) < past
      <4>1. PosOf(i, bucket) \in 0 .. past - 1
        BY <3>1, <3>2
      <4>2. CacheIdx(HeadOf(i, bucket), PosOf(i, bucket), DimOf(i), past) \in 1 .. Size(past)
        BY <3>1, <4>1, CacheCells
      <4> QED BY <3>2, <4>2, Zenon DEF Buffer
    <3>3. CASE ~(PosOf(i, bucket) < past)
      BY <3>3, Zenon DEF Value
    <3> QED BY <3>2, <3>3
  <2>3. Pad(k, past, bucket) \in Buffer(bucket)
    <3> HIDE DEF cell
    <3> QED BY <2>1, <2>2, Zenon DEF Buffer
  <2>4. ASSUME NEW h \in KvHead, NEW s \in 0 .. bucket - 1, NEW d \in Coord
        PROVE  Pad(k, past, bucket)[CacheIdx(h, s, d, bucket)] =
                 IF s < past THEN k[CacheIdx(h, s, d, past)] ELSE Zero
    <3> DEFINE i == CacheIdx(h, s, d, bucket)
    <3>1. i \in 1 .. Size(bucket) /\ HeadOf(i, bucket) = h /\ PosOf(i, bucket) = s /\ DimOf(i) = d
      BY CacheCells
    <3>2. Pad(k, past, bucket)[i] = cell(i)
      <4> HIDE DEF cell, i
      <4> QED BY <2>1, <3>1
    <3>3. Pad(k, past, bucket)[i] = IF s < past THEN k[CacheIdx(h, s, d, past)] ELSE Zero
      <4> HIDE DEF i
      <4> QED BY <3>1, <3>2, Zenon
    <3> QED BY <3>3
  <2> QED BY <2>3, <2>4
<1> QED BY <1>1, <1>2

LEMMA ToNativeCells ==
  ASSUME NEW n \in Nat, NEW data \in Buffer(n), NEW fmt
  PROVE  /\ ToNative(data, n, fmt) \in Buffer(n)
         /\ \A h \in KvHead, s \in 0 .. n - 1, d \in Coord :
              ToNative(data, n, fmt)[NativeIdx(fmt, h, s, d, n)] = data[CacheIdx(h, s, d, n)]
<1>1. CASE fmt # "NHWC"
  BY <1>1 DEF ToNative, NativeIdx
<1>2. CASE fmt = "NHWC"
  <2> DEFINE cell(i) == data[CacheIdx(NhwcHead(i), NhwcPos(i), NhwcDim(i), n)]
  <2>1. ToNative(data, n, fmt) = [i \in 1 .. Size(n) |-> cell(i)]
    BY <1>2, BufferLen DEF ToNative, NhwcHead, NhwcPos, NhwcDim
  <2>2. ASSUME NEW i \in 1 .. Size(n)
        PROVE  cell(i) \in Value
    <3>1. NhwcHead(i) \in KvHead /\ NhwcPos(i) \in 0 .. n - 1 /\ NhwcDim(i) \in Coord
      BY NhwcPlaces
    <3>2. CacheIdx(NhwcHead(i), NhwcPos(i), NhwcDim(i), n) \in 1 .. Size(n)
      BY <3>1, CacheCells
    <3> QED BY <3>2, Zenon DEF Buffer
  <2>3. ToNative(data, n, fmt) \in Buffer(n)
    <3> HIDE DEF cell
    <3> QED BY <2>1, <2>2, Zenon DEF Buffer
  <2>4. ASSUME NEW h \in KvHead, NEW s \in 0 .. n - 1, NEW d \in Coord
        PROVE  ToNative(data, n, fmt)[NhwcIdx(h, s, d)] = data[CacheIdx(h, s, d, n)]
    <3> DEFINE i == NhwcIdx(h, s, d)
    <3>1. i \in 1 .. Size(n) /\ NhwcHead(i) = h /\ NhwcPos(i) = s /\ NhwcDim(i) = d
      BY NhwcCells
    <3>2. ToNative(data, n, fmt)[i] = cell(i)
      <4> HIDE DEF cell, i
      <4> QED BY <2>1, <3>1
    <3>3. ToNative(data, n, fmt)[i] = data[CacheIdx(h, s, d, n)]
      <4> HIDE DEF i
      <4> QED BY <3>1, <3>2, Zenon
    <3> QED BY <3>3
  <2> QED BY <1>2, <2>3, <2>4 DEF NativeIdx
<1> QED BY <1>1, <1>2

(* Reading a native tensor back gives the rows it was made from, whichever *)
(* the format: its shape tells it.                                         *)
LEMMA ReadBack ==
  ASSUME NEW n \in Nat, NEW data \in Buffer(n), NEW fmt \in Formats
  PROVE  TakenOver(ToNative(data, n, fmt), n, fmt) = data
<1> DEFINE t == ToNative(data, n, fmt)
<1>1. OutputLayout(Shape(n, fmt), fmt) = fmt
  <2>1. fmt \in {"NHWC", "NCHW"} /\ Heads # Dim
    BY ShapeAssumption
  <2>2. fmt = "NHWC" => Shape(n, fmt)[2] = Dim /\ Shape(n, fmt)[3] = Heads
    BY DEF Shape
  <2>3. fmt = "NCHW" => Shape(n, fmt)[3] = Dim /\ Shape(n, fmt)[1] = Heads
    BY DEF Shape
  <2> QED BY <2>1, <2>2, <2>3, Zenon DEF OutputLayout
<1>2. TakenOver(t, n, fmt) = FromNative(t, n, fmt)
  <2> HIDE DEF t
  <2> QED BY <1>1 DEF TakenOver
<1>3. CASE fmt # "NHWC"
  BY <1>2, <1>3 DEF FromNative, ToNative
<1>4. CASE fmt = "NHWC"
  <2>1. t \in Buffer(n) /\ Len(t) = Size(n)
    <3>1. t \in Buffer(n)
      BY ToNativeCells
    <3> HIDE DEF t
    <3> QED BY <3>1, BufferLen
  <2>2. FromNative(t, n, fmt) =
          [i \in 1 .. Size(n) |-> t[NhwcIdx(HeadOf(i, n), PosOf(i, n), DimOf(i))]]
    <3> HIDE DEF t
    <3> QED BY <1>4, <2>1 DEF FromNative
  <2>3. ASSUME NEW i \in 1 .. Size(n)
        PROVE  t[NhwcIdx(HeadOf(i, n), PosOf(i, n), DimOf(i))] = data[i]
    <3>1. /\ HeadOf(i, n) \in KvHead /\ PosOf(i, n) \in 0 .. n - 1 /\ DimOf(i) \in Coord
          /\ CacheIdx(HeadOf(i, n), PosOf(i, n), DimOf(i), n) = i
      BY CachePlaces
    <3>2. t[NativeIdx(fmt, HeadOf(i, n), PosOf(i, n), DimOf(i), n)] =
            data[CacheIdx(HeadOf(i, n), PosOf(i, n), DimOf(i), n)]
      BY <3>1, ToNativeCells
    <3> HIDE DEF t
    <3> QED BY <1>4, <3>1, <3>2 DEF NativeIdx
  <2>4. data = [i \in 1 .. Size(n) |-> data[i]]
    BY DEF Buffer
  <2>5. FromNative(t, n, fmt) = data
    <3> HIDE DEF t
    <3> QED BY <2>2, <2>3, <2>4, Zenon
  <2> QED BY <1>2, <2>5
<1> QED BY <1>3, <1>4

LEMMA AppendCells ==
  ASSUME NEW past \in Nat, NEW k \in Buffer(past), NEW row \in Buffer(1)
  PROVE  /\ AppendRow(k, past, row) \in Buffer(past + 1)
         /\ \A h \in KvHead, s \in 0 .. past, d \in Coord :
              AppendRow(k, past, row)[CacheIdx(h, s, d, past + 1)] =
                IF s < past THEN k[CacheIdx(h, s, d, past)] ELSE row[CacheIdx(h, 0, d, 1)]
<1> DEFINE n == past + 1
           cell(i) == IF PosOf(i, n) < past
                      THEN k[CacheIdx(HeadOf(i, n), PosOf(i, n), DimOf(i), past)]
                      ELSE row[HeadOf(i, n) * Dim + DimOf(i) + 1]
<1>1. AppendRow(k, past, row) = [i \in 1 .. Size(n) |-> cell(i)]
  BY DEF AppendRow, Size
<1>2. \A h \in KvHead, d \in Coord : h * Dim + d + 1 = CacheIdx(h, 0, d, 1)
  <2>1. \A h \in KvHead : h * 1 + 0 = h
    BY Shapes DEF KvHead
  <2> QED BY <2>1 DEF CacheIdx
<1>3. n \in Nat /\ 1 \in Nat
  OBVIOUS
<1>4. ASSUME NEW i \in 1 .. Size(n)
      PROVE  cell(i) \in Value
  <2>1. HeadOf(i, n) \in KvHead /\ PosOf(i, n) \in 0 .. n - 1 /\ DimOf(i) \in Coord
    <3> HIDE DEF n
    <3> QED BY <1>3, CachePlaces
  <2>2. CASE PosOf(i, n) < past
    <3>1. PosOf(i, n) \in 0 .. past - 1
      BY <2>1, <2>2
    <3>2. CacheIdx(HeadOf(i, n), PosOf(i, n), DimOf(i), past) \in 1 .. Size(past)
      <4> HIDE DEF n
      <4> QED BY <2>1, <3>1, CacheCells
    <3> HIDE DEF n
    <3> QED BY <2>2, <3>2, Zenon DEF Buffer
  <2>3. CASE ~(PosOf(i, n) < past)
    <3> HIDE DEF n
    <3>1. CacheIdx(HeadOf(i, n), 0, DimOf(i), 1) \in 1 .. Size(1)
      BY <2>1, CacheCells
    <3>2. row[HeadOf(i, n) * Dim + DimOf(i) + 1] \in Value
      BY <1>2, <2>1, <3>1, Zenon DEF Buffer
    <3> QED BY <2>3, <3>2, Zenon
  <2> HIDE DEF cell
  <2> QED BY <2>2, <2>3
<1>5. AppendRow(k, past, row) \in Buffer(n)
  <2> HIDE DEF cell, n
  <2> QED BY <1>1, <1>4, Zenon DEF Buffer
<1>6. ASSUME NEW h \in KvHead, NEW s \in 0 .. past, NEW d \in Coord
      PROVE  AppendRow(k, past, row)[CacheIdx(h, s, d, n)] =
               IF s < past THEN k[CacheIdx(h, s, d, past)] ELSE row[CacheIdx(h, 0, d, 1)]
  <2> DEFINE i == CacheIdx(h, s, d, n)
  <2>1. s \in 0 .. n - 1
    OBVIOUS
  <2>2. i \in 1 .. Size(n) /\ HeadOf(i, n) = h /\ PosOf(i, n) = s /\ DimOf(i) = d
    <3> HIDE DEF n
    <3> QED BY <1>3, <2>1, CacheCells
  <2>3. AppendRow(k, past, row)[i] = cell(i)
    <3> HIDE DEF cell, i, n
    <3> QED BY <1>1, <2>2
  <2>4. AppendRow(k, past, row)[i] =
          IF s < past THEN k[CacheIdx(h, s, d, past)] ELSE row[CacheIdx(h, 0, d, 1)]
    <3>1. h * Dim + d + 1 = CacheIdx(h, 0, d, 1)
      BY <1>2
    <3> HIDE DEF i, n
    <3> QED BY <2>2, <2>3, <3>1, Zenon
  <2> QED BY <2>4
<1> QED BY <1>5, <1>6

LEMMA WriteCells ==
  ASSUME NEW n \in Nat, NEW buf \in Buffer(n), NEW row \in Buffer(1), NEW pos \in 0 .. n - 1, NEW fmt
  PROVE  /\ WriteRow(buf, row, pos, n, fmt) \in Buffer(n)
         /\ \A h \in KvHead, s \in 0 .. n - 1, d \in Coord :
              WriteRow(buf, row, pos, n, fmt)[NativeIdx(fmt, h, s, d, n)] =
                IF s = pos THEN row[CacheIdx(h, 0, d, 1)] ELSE buf[NativeIdx(fmt, h, s, d, n)]
<1> DEFINE written == WriteRow(buf, row, pos, n, fmt)
           nhwc(i) == IF NhwcPos(i) = pos THEN row[NhwcHead(i) * Dim + NhwcDim(i) + 1] ELSE buf[i]
           cache(i) == IF PosOf(i, n) = pos THEN row[HeadOf(i, n) * Dim + DimOf(i) + 1] ELSE buf[i]
<1>1. \A h \in KvHead, d \in Coord : h * Dim + d + 1 = CacheIdx(h, 0, d, 1)
  <2>1. \A h \in KvHead : h * 1 + 0 = h
    BY Shapes DEF KvHead
  <2> QED BY <2>1 DEF CacheIdx
<1>2. \A h \in KvHead, d \in Coord : row[h * Dim + d + 1] \in Value
  <2> SUFFICES ASSUME NEW h \in KvHead, NEW d \in Coord PROVE row[h * Dim + d + 1] \in Value
    OBVIOUS
  <2>1. CacheIdx(h, 0, d, 1) \in 1 .. Size(1)
    BY CacheCells
  <2> QED BY <1>1, <2>1, Zenon DEF Buffer
<1>3. \A i \in 1 .. Size(n) : buf[i] \in Value
  BY Zenon DEF Buffer
<1>4. CASE fmt = "NHWC"
  <2>1. written = [i \in 1 .. Size(n) |-> nhwc(i)]
    BY <1>4, BufferLen DEF WriteRow, NhwcHead, NhwcPos, NhwcDim
  <2>2. ASSUME NEW i \in 1 .. Size(n)
        PROVE  nhwc(i) \in Value
    <3>1. NhwcHead(i) \in KvHead /\ NhwcDim(i) \in Coord
      BY NhwcPlaces
    <3> QED BY <1>2, <1>3, <3>1, Zenon
  <2>3. written \in Buffer(n)
    <3> HIDE DEF nhwc, written
    <3> QED BY <2>1, <2>2, Zenon DEF Buffer
  <2>4. ASSUME NEW h \in KvHead, NEW s \in 0 .. n - 1, NEW d \in Coord
        PROVE  written[NhwcIdx(h, s, d)] =
                 IF s = pos THEN row[CacheIdx(h, 0, d, 1)] ELSE buf[NhwcIdx(h, s, d)]
    <3> DEFINE i == NhwcIdx(h, s, d)
    <3>1. i \in 1 .. Size(n) /\ NhwcHead(i) = h /\ NhwcPos(i) = s /\ NhwcDim(i) = d
      BY NhwcCells
    <3>2. written[i] = nhwc(i)
      <4> HIDE DEF nhwc, i, written
      <4> QED BY <2>1, <3>1
    <3>3. written[i] = IF s = pos THEN row[CacheIdx(h, 0, d, 1)] ELSE buf[i]
      <4>1. h * Dim + d + 1 = CacheIdx(h, 0, d, 1)
        BY <1>1
      <4> HIDE DEF i, written
      <4> QED BY <3>1, <3>2, <4>1, Zenon
    <3> QED BY <3>3
  <2> QED BY <1>4, <2>3, <2>4 DEF NativeIdx
<1>5. CASE fmt # "NHWC"
  <2>1. written = [i \in 1 .. Size(n) |-> cache(i)]
    BY <1>5, BufferLen DEF WriteRow
  <2>2. ASSUME NEW i \in 1 .. Size(n)
        PROVE  cache(i) \in Value
    <3>1. HeadOf(i, n) \in KvHead /\ DimOf(i) \in Coord
      BY CachePlaces
    <3> QED BY <1>2, <1>3, <3>1, Zenon
  <2>3. written \in Buffer(n)
    <3> HIDE DEF cache, written
    <3> QED BY <2>1, <2>2, Zenon DEF Buffer
  <2>4. ASSUME NEW h \in KvHead, NEW s \in 0 .. n - 1, NEW d \in Coord
        PROVE  written[CacheIdx(h, s, d, n)] =
                 IF s = pos THEN row[CacheIdx(h, 0, d, 1)] ELSE buf[CacheIdx(h, s, d, n)]
    <3> DEFINE i == CacheIdx(h, s, d, n)
    <3>1. i \in 1 .. Size(n) /\ HeadOf(i, n) = h /\ PosOf(i, n) = s /\ DimOf(i) = d
      BY CacheCells
    <3>2. written[i] = cache(i)
      <4> HIDE DEF cache, i, written
      <4> QED BY <2>1, <3>1
    <3>3. written[i] = IF s = pos THEN row[CacheIdx(h, 0, d, 1)] ELSE buf[i]
      <4>1. h * Dim + d + 1 = CacheIdx(h, 0, d, 1)
        BY <1>1
      <4> HIDE DEF i, written
      <4> QED BY <3>1, <3>2, <4>1, Zenon
    <3> QED BY <3>3
  <2> QED BY <1>5, <2>3, <2>4 DEF NativeIdx
<1> QED BY <1>4, <1>5

LEMMA TruncatedCells ==
  ASSUME NEW seq \in Nat, NEW n \in 0 .. seq, NEW data \in Buffer(seq)
  PROVE  /\ Truncated(data, seq, n) \in Buffer(n)
         /\ \A h \in KvHead, s \in 0 .. n - 1, d \in Coord :
              Truncated(data, seq, n)[CacheIdx(h, s, d, n)] = data[CacheIdx(h, s, d, seq)]
<1> DEFINE cell(i) == data[CacheIdx(HeadOf(i, n), PosOf(i, n), DimOf(i), seq)]
<1>1. Truncated(data, seq, n) = [i \in 1 .. Size(n) |-> cell(i)]
  BY DEF Truncated, Size
<1>2. n \in Nat /\ \A s \in 0 .. n - 1 : s \in 0 .. seq - 1
  OBVIOUS
<1>3. ASSUME NEW i \in 1 .. Size(n)
      PROVE  cell(i) \in Value
  <2>1. HeadOf(i, n) \in KvHead /\ PosOf(i, n) \in 0 .. n - 1 /\ DimOf(i) \in Coord
    BY <1>2, CachePlaces
  <2>2. CacheIdx(HeadOf(i, n), PosOf(i, n), DimOf(i), seq) \in 1 .. Size(seq)
    BY <1>2, <2>1, CacheCells
  <2> QED BY <2>2, Zenon DEF Buffer
<1>4. Truncated(data, seq, n) \in Buffer(n)
  <2> HIDE DEF cell
  <2> QED BY <1>1, <1>3, Zenon DEF Buffer
<1>5. ASSUME NEW h \in KvHead, NEW s \in 0 .. n - 1, NEW d \in Coord
      PROVE  Truncated(data, seq, n)[CacheIdx(h, s, d, n)] = data[CacheIdx(h, s, d, seq)]
  <2> DEFINE i == CacheIdx(h, s, d, n)
  <2>1. i \in 1 .. Size(n) /\ HeadOf(i, n) = h /\ PosOf(i, n) = s /\ DimOf(i) = d
    BY <1>2, CacheCells
  <2>2. Truncated(data, seq, n)[i] = cell(i)
    <3> HIDE DEF cell, i
    <3> QED BY <1>1, <2>1
  <2>3. Truncated(data, seq, n)[i] = data[CacheIdx(h, s, d, seq)]
    <3> HIDE DEF i
    <3> QED BY <2>1, <2>2, Zenon
  <2> QED BY <2>3
<1> QED BY <1>4, <1>5

-----------------------------------------------------------------------------
(* One more row.                                                           *)

LEMMA RowsGrow ==
  ASSUME NEW n \in Nat
  PROVE  AppendRow(Rows(0, n), n, Rows(n, 1)) = Rows(0, n + 1)
<1> DEFINE grown == AppendRow(Rows(0, n), n, Rows(n, 1))
<1>1. Rows(0, n) \in Buffer(n) /\ Rows(n, 1) \in Buffer(1) /\ Rows(0, n + 1) \in Buffer(n + 1)
  BY RowsCells
<1>2. grown \in Buffer(n + 1)
  BY <1>1, AppendCells
<1>3. ASSUME NEW h \in KvHead, NEW s \in 0 .. n, NEW d \in Coord
      PROVE  grown[CacheIdx(h, s, d, n + 1)] = Rows(0, n + 1)[CacheIdx(h, s, d, n + 1)]
  <2>1. Rows(0, n + 1)[CacheIdx(h, s, d, n + 1)] = Cell(h, 0 + s, d)
    BY RowsCells
  <2>2. grown[CacheIdx(h, s, d, n + 1)] =
          IF s < n THEN Rows(0, n)[CacheIdx(h, s, d, n)] ELSE Rows(n, 1)[CacheIdx(h, 0, d, 1)]
    BY <1>1, AppendCells
  <2>3. s < n => Rows(0, n)[CacheIdx(h, s, d, n)] = Cell(h, 0 + s, d)
    BY RowsCells
  <2>4. ~(s < n) => s = n
    OBVIOUS
  <2>5. Rows(n, 1)[CacheIdx(h, 0, d, 1)] = Cell(h, n + 0, d)
    BY RowsCells
  <2> HIDE DEF grown
  <2> QED BY <2>1, <2>2, <2>3, <2>4, <2>5 DEF Cell
<1>4. n + 1 \in Nat /\ 0 .. (n + 1) - 1 = 0 .. n
  OBVIOUS
<1> HIDE DEF grown
<1>5. \A h \in KvHead, s \in 0 .. (n + 1) - 1, d \in Coord :
        grown[CacheIdx(h, s, d, n + 1)] = Rows(0, n + 1)[CacheIdx(h, s, d, n + 1)]
  BY <1>3, <1>4
<1>6. grown = Rows(0, n + 1)
  BY <1>1, <1>2, <1>4, <1>5, SameBuffer
<1> QED BY <1>6 DEF grown

LEMMA NoRows == Rows(0, 0) = <<>> /\ <<>> \in Buffer(0)
<1>1. Rows(0, 0) \in Buffer(0)
  BY RowsCells
<1>2. Rows(0, 0) \in Seq(Value) /\ Len(Rows(0, 0)) = Size(0)
  BY <1>1, BufferLen
<1>3. Size(0) = 0
  BY Shapes DEF Size
<1>4. Rows(0, 0) = <<>>
  <2> HIDE DEF Value
  <2> QED BY <1>2, <1>3, EmptySeq
<1> QED BY <1>1, <1>4

LEMMA FlatPrefix ==
  ASSUME NEW seq \in Nat, NEW n \in 0 .. seq, NEW data \in Buffer(seq)
  PROVE  /\ SubSeq(data, 1, Size(n)) \in Buffer(n)
         /\ n = seq => SubSeq(data, 1, Size(n)) = data
<1>1. Size(n) \in Nat /\ Size(seq) \in Nat /\ Size(n) <= Size(seq)
  <2>1. n \in Nat /\ n <= seq
    OBVIOUS
  <2>2. n * Dim <= seq * Dim /\ n * Dim \in Nat /\ seq * Dim \in Nat
    BY <2>1, Shapes, TimesGrows
  <2>3. (n * Dim) * Heads <= (seq * Dim) * Heads
    BY <2>2, Shapes, TimesGrows
  <2> QED BY <2>1, <2>3, Shapes
<1>2. data \in [1 .. Size(seq) -> Value] /\ data \in Seq(Value) /\ Len(data) = Size(seq)
  BY BufferLen DEF Buffer
<1> HIDE DEF Value, Size
<1>3. SubSeq(data, 1, Size(n)) = [i \in 1 .. Size(n) |-> data[i]]
  BY <1>1, <1>2
<1>4. [i \in 1 .. Size(n) |-> data[i]] \in [1 .. Size(n) -> Value]
  BY <1>1, <1>2
<1> QED BY <1>2, <1>3, <1>4 DEF Buffer

(* The tensor of a bucket: the first rows of the context, then zeros.      *)
IsContext(buf, past, bucket) ==
  \A h \in KvHead, s \in 0 .. bucket - 1, d \in Coord :
    buf[NativeIdx(format, h, s, d, bucket)] = IF s < past THEN Cell(h, s, d) ELSE Zero

(* Built from the rows ...                                                 *)
LEMMA ContextBuilt ==
  ASSUME NEW n \in Nat, NEW bucket \in Nat, n <= bucket
  PROVE  IsContext(ToNative(Pad(Rows(0, n), n, bucket), bucket, format), n, bucket)
<1>1. /\ Rows(0, n) \in Buffer(n)
      /\ \A h \in KvHead, s \in 0 .. n - 1, d \in Coord :
           Rows(0, n)[CacheIdx(h, s, d, n)] = Cell(h, 0 + s, d)
  BY RowsCells
<1> DEFINE padded == Pad(Rows(0, n), n, bucket)
<1>2. padded \in Buffer(bucket)
  BY <1>1, PadCells
<1> SUFFICES ASSUME NEW h \in KvHead, NEW s \in 0 .. bucket - 1, NEW d \in Coord
             PROVE  ToNative(padded, bucket, format)[NativeIdx(format, h, s, d, bucket)] =
                      IF s < n THEN Cell(h, s, d) ELSE Zero
  BY DEF IsContext
<1>3. ToNative(padded, bucket, format)[NativeIdx(format, h, s, d, bucket)] =
        padded[CacheIdx(h, s, d, bucket)]
  <2> HIDE DEF padded
  <2> QED BY <1>2, ToNativeCells
<1>4. padded[CacheIdx(h, s, d, bucket)] =
        IF s < n THEN Rows(0, n)[CacheIdx(h, s, d, n)] ELSE Zero
  BY <1>1, PadCells
<1>5. s < n => Rows(0, n)[CacheIdx(h, s, d, n)] = Cell(h, 0 + s, d)
  BY <1>1
<1>6. 0 + s = s
  OBVIOUS
<1> HIDE DEF padded
<1> QED BY <1>3, <1>4, <1>5, <1>6

(* ... or by the next row.                                                 *)
LEMMA ContextGrows ==
  ASSUME NEW n \in Nat, NEW bucket \in Nat, n < bucket, NEW buf \in Buffer(bucket),
         IsContext(buf, n, bucket)
  PROVE  IsContext(WriteRow(buf, Rows(n, 1), n, bucket, format), n + 1, bucket)
<1>1. /\ Rows(n, 1) \in Buffer(1)
      /\ \A h \in KvHead, s \in 0 .. 1 - 1, d \in Coord :
           Rows(n, 1)[CacheIdx(h, s, d, 1)] = Cell(h, n + s, d)
  BY RowsCells
<1> DEFINE written == WriteRow(buf, Rows(n, 1), n, bucket, format)
<1> SUFFICES ASSUME NEW h \in KvHead, NEW s \in 0 .. bucket - 1, NEW d \in Coord
             PROVE  written[NativeIdx(format, h, s, d, bucket)] =
                      IF s < n + 1 THEN Cell(h, s, d) ELSE Zero
  BY DEF IsContext
<1>2. n \in 0 .. bucket - 1
  OBVIOUS
<1>3. written[NativeIdx(format, h, s, d, bucket)] =
        IF s = n THEN Rows(n, 1)[CacheIdx(h, 0, d, 1)] ELSE buf[NativeIdx(format, h, s, d, bucket)]
  BY <1>1, <1>2, WriteCells
<1>4. Rows(n, 1)[CacheIdx(h, 0, d, 1)] = Cell(h, n, d)
  <2>1. 0 \in 0 .. 1 - 1 /\ n + 0 = n
    OBVIOUS
  <2> QED BY <1>1, <2>1
<1>5. buf[NativeIdx(format, h, s, d, bucket)] = IF s < n THEN Cell(h, s, d) ELSE Zero
  BY DEF IsContext
<1>6. (s < n + 1 <=> s < n \/ s = n) /\ ~(s < n /\ s = n)
  OBVIOUS
<1> HIDE DEF written
<1> QED BY <1>3, <1>4, <1>5, <1>6

-----------------------------------------------------------------------------
(* The entry of one layer.                                                 *)

Entry ==
  {e \in [past : Nat, k : Seq(Value), bucket : Nat, native : Seq(Value)] :
     /\ e.k \in Buffer(e.past)
     /\ e.native # <<>> => e.native \in Buffer(e.bucket) /\ e.past <= e.bucket}

(* Both copies of the rows are the context.                                *)
Exact(e) ==
  /\ e.k = Rows(0, e.past)
  /\ e.native # <<>> => IsContext(e.native, e.past, e.bucket)

LEMMA EntryFields ==
  ASSUME NEW e \in Entry
  PROVE  /\ e.past \in Nat /\ e.k \in Buffer(e.past) /\ e.bucket \in Nat
         /\ e = [past |-> e.past, k |-> e.k, bucket |-> e.bucket, native |-> e.native]
         /\ e.native # <<>> => e.native \in Buffer(e.bucket) /\ e.past <= e.bucket
BY DEF Entry

(* A record with some fields changed, spelt out.                           *)
Spelt(past, k, bucket, native) == [past |-> past, k |-> k, bucket |-> bucket, native |-> native]
Only(past, k, bucket, native) == [past : {past}, k : {k}, bucket : {bucket}, native : {native}]

LEMMA OnlyOne ==
  ASSUME NEW past, NEW k, NEW bucket, NEW native
  PROVE  /\ Spelt(past, k, bucket, native) \in Only(past, k, bucket, native)
         /\ \A r \in Only(past, k, bucket, native) : r = Spelt(past, k, bucket, native)
BY DEF Only, Spelt

WithRows(e, past, k) == [e EXCEPT !.past = past, !.k = k]
WithTensor(e, bucket, native) == [e EXCEPT !.bucket = bucket, !.native = native]
WithNative(e, native) == [e EXCEPT !.native = native]
WithBoth(e, past, k, native) == [e EXCEPT !.past = past, !.k = k, !.native = native]

LEMMA Changed ==
  ASSUME NEW P, NEW K, NEW B, NEW N, NEW e \in [past : P, k : K, bucket : B, native : N],
         NEW past, NEW k, NEW bucket, NEW native
  PROVE  /\ WithRows(e, past, k) = Spelt(past, k, e.bucket, e.native)
         /\ WithTensor(e, bucket, native) = Spelt(e.past, e.k, bucket, native)
         /\ WithNative(e, native) = Spelt(e.past, e.k, e.bucket, native)
         /\ WithBoth(e, past, k, native) = Spelt(past, k, e.bucket, native)
<1>1. /\ WithRows(e, past, k) \in Only(past, k, e.bucket, e.native)
      /\ WithTensor(e, bucket, native) \in Only(e.past, e.k, bucket, native)
      /\ WithNative(e, native) \in Only(e.past, e.k, e.bucket, native)
      /\ WithBoth(e, past, k, native) \in Only(past, k, e.bucket, native)
  BY DEF Only, WithRows, WithTensor, WithNative, WithBoth
<1> QED BY <1>1, OnlyOne

LEMMA ChangedEntry ==
  ASSUME NEW e \in Entry, NEW past, NEW k, NEW bucket, NEW native
  PROVE  /\ WithRows(e, past, k) = Spelt(past, k, e.bucket, e.native)
         /\ WithTensor(e, bucket, native) = Spelt(e.past, e.k, bucket, native)
         /\ WithNative(WithRows(e, past, k), native) = Spelt(past, k, e.bucket, native)
         /\ WithTensor(WithRows(e, past, k), bucket, native) = Spelt(past, k, bucket, native)
         /\ WithBoth(e, past, k, native) = Spelt(past, k, e.bucket, native)
<1>1. e \in [past : Nat, k : Seq(Value), bucket : Nat, native : Seq(Value)]
  BY DEF Entry
<1>2. /\ WithRows(e, past, k) = Spelt(past, k, e.bucket, e.native)
      /\ WithTensor(e, bucket, native) = Spelt(e.past, e.k, bucket, native)
      /\ WithBoth(e, past, k, native) = Spelt(past, k, e.bucket, native)
  BY <1>1, Changed
<1> DEFINE grown == Spelt(past, k, e.bucket, e.native)
<1>3. PICK P, K, B, N : grown \in [past : P, k : K, bucket : B, native : N]
  <2>1. grown \in [past : {past}, k : {k}, bucket : {e.bucket}, native : {e.native}]
    BY OnlyOne DEF Only
  <2> HIDE DEF grown
  <2> WITNESS {past}, {k}, {e.bucket}, {e.native}
  <2> QED BY <2>1
<1>4. grown.past = past /\ grown.k = k /\ grown.bucket = e.bucket
  BY DEF Spelt
<1> HIDE DEF grown
<1>5. /\ WithNative(grown, native) = Spelt(grown.past, grown.k, grown.bucket, native)
      /\ WithTensor(grown, bucket, native) = Spelt(grown.past, grown.k, bucket, native)
  BY <1>3, Changed
<1>6. WithRows(e, past, k) = grown
  BY <1>2 DEF grown
<1> QED BY <1>2, <1>4, <1>5, <1>6, Zenon

LEMMA EntryMade ==
  ASSUME NEW past \in Nat, NEW k \in Buffer(past), NEW bucket \in Nat, NEW native,
         native = <<>> \/ (native \in Buffer(bucket) /\ past <= bucket)
  PROVE  /\ Spelt(past, k, bucket, native) \in Entry
         /\ Spelt(past, k, bucket, native).past = past /\ Spelt(past, k, bucket, native).k = k
         /\ Spelt(past, k, bucket, native).bucket = bucket
         /\ Spelt(past, k, bucket, native).native = native
<1>1. k \in Seq(Value)
  BY BufferLen
<1>2. native \in Seq(Value)
  <2>1. CASE native = <<>>
    BY <2>1
  <2>2. CASE native \in Buffer(bucket)
    BY <2>2, BufferLen
  <2> QED BY <2>1, <2>2
<1> QED BY <1>1, <1>2 DEF Entry, Spelt

LEMMA FilledEntry ==
  ASSUME NEW n \in Nat, NEW k \in Buffer(n)
  PROVE  /\ Filled(n, k) \in Entry /\ Filled(n, k).past = n /\ Filled(n, k).k = k
         /\ k = Rows(0, n) => Exact(Filled(n, k))
<1>1. Filled(n, k) \in Entry
  BY EntryMade DEF Filled, Spelt
<1> QED BY <1>1 DEF Filled, Exact

LEMMA EnsuredEntry ==
  ASSUME NEW e \in Entry, NEW bucket \in Nat, e.past <= bucket
  PROVE  LET g == EnsureNative(e, bucket) IN
         /\ g \in Entry /\ g.past = e.past /\ g.k = e.k /\ g.bucket = bucket
         /\ Exact(e) => Exact(g) /\ IsContext(g.native, e.past, bucket)
<1> DEFINE g == EnsureNative(e, bucket)
           native == ToNative(Pad(e.k, e.past, bucket), bucket, format)
<1>1. CASE e.native # <<>> /\ e.bucket = bucket
  BY <1>1 DEF EnsureNative, Exact
<1>2. CASE ~(e.native # <<>> /\ e.bucket = bucket)
  <2>1. g = Spelt(e.past, e.k, bucket, native)
    <3> HIDE DEF native
    <3>1. g = WithTensor(e, bucket, native)
      BY <1>2 DEF EnsureNative, native, WithTensor
    <3> QED BY <3>1, ChangedEntry
  <2>2. native \in Buffer(bucket)
    <3>1. Pad(e.k, e.past, bucket) \in Buffer(bucket)
      BY EntryFields, PadCells
    <3> QED BY <3>1, ToNativeCells
  <2>3. ASSUME Exact(e)
        PROVE  IsContext(native, e.past, bucket)
    <3>1. e.k = Rows(0, e.past) /\ e.past \in Nat
      BY <2>3, EntryFields DEF Exact
    <3> QED BY <3>1, ContextBuilt
  <2>4. g \in Entry
    <3> HIDE DEF g, native
    <3> QED BY <2>1, <2>2, EntryFields, EntryMade
  <2> HIDE DEF g, native
  <2>5. g.past = e.past /\ g.k = e.k /\ g.bucket = bucket /\ g.native = native
    BY <2>1 DEF Spelt
  <2>6. Exact(e) => Exact(g) /\ IsContext(g.native, e.past, bucket)
    BY <2>3, <2>5 DEF Exact
  <2> QED BY <2>4, <2>5, <2>6 DEF g
<1> QED BY <1>1, <1>2

LEMMA AppendedEntry ==
  ASSUME NEW e \in Entry, NEW row \in Buffer(1)
  PROVE  /\ Appended(e, row) \in Entry /\ Appended(e, row).past = e.past + 1
         /\ Exact(e) /\ row = Rows(e.past, 1) => Exact(Appended(e, row))
<1> DEFINE a == Appended(e, row)
           k == AppendRow(e.k, e.past, row)
           native == IF e.native = <<>> \/ ~(e.past < e.bucket) THEN <<>>
                     ELSE WriteRow(e.native, row, e.past, e.bucket, format)
           bucket == IF e.native # <<>> /\ ~(e.past < e.bucket) THEN 0 ELSE e.bucket
<1>1. a = Spelt(e.past + 1, k, bucket, native)
  <2> DEFINE grown == WithRows(e, e.past + 1, k)
  <2>1. a = IF e.native = <<>> THEN grown
            ELSE IF e.past < e.bucket
            THEN WithNative(grown, WriteRow(e.native, row, e.past, e.bucket, format))
            ELSE WithTensor(grown, 0, <<>>)
    BY DEF Appended, WithRows, WithNative, WithTensor
  <2>2. grown = Spelt(e.past + 1, k, e.bucket, e.native)
    <3> HIDE DEF k
    <3> QED BY ChangedEntry
  <2>3. \A w : WithNative(grown, w) = Spelt(e.past + 1, k, e.bucket, w)
    <3> HIDE DEF k
    <3> QED BY ChangedEntry
  <2>4. \A b, w : WithTensor(grown, b, w) = Spelt(e.past + 1, k, b, w)
    <3> HIDE DEF k
    <3> QED BY ChangedEntry
  <2> HIDE DEF a, grown, k
  <2>5. CASE e.native = <<>>
    BY <2>1, <2>2, <2>5
  <2>6. CASE e.native # <<>> /\ e.past < e.bucket
    BY <2>1, <2>3, <2>6
  <2>7. CASE e.native # <<>> /\ ~(e.past < e.bucket)
    BY <2>1, <2>4, <2>7
  <2> QED BY <2>5, <2>6, <2>7
<1>2. e.past + 1 \in Nat /\ bucket \in Nat /\ k \in Buffer(e.past + 1)
  BY EntryFields, AppendCells
<1>3. native = <<>> \/ (native \in Buffer(bucket) /\ e.past + 1 <= bucket)
  <2> SUFFICES ASSUME e.native # <<>>, e.past < e.bucket
               PROVE  /\ WriteRow(e.native, row, e.past, e.bucket, format) \in Buffer(e.bucket)
                      /\ e.past + 1 <= e.bucket
    OBVIOUS
  <2>1. e.past \in 0 .. e.bucket - 1 /\ e.bucket \in Nat /\ e.native \in Buffer(e.bucket)
    BY EntryFields
  <2> QED BY <2>1, WriteCells
<1>4. ASSUME Exact(e), row = Rows(e.past, 1)
      PROVE  k = Rows(0, e.past + 1) /\ (native # <<>> => IsContext(native, e.past + 1, bucket))
  <2>1. k = Rows(0, e.past + 1)
    BY <1>4, EntryFields, RowsGrow DEF Exact
  <2>2. ASSUME e.native # <<>>, e.past < e.bucket
        PROVE  IsContext(WriteRow(e.native, row, e.past, e.bucket, format), e.past + 1, e.bucket)
    BY <1>4, <2>2, EntryFields, ContextGrows DEF Exact
  <2> QED BY <2>1, <2>2
<1> HIDE DEF a, k, native, bucket
<1>5. a \in Entry
  BY <1>1, <1>2, <1>3, EntryMade
<1>6. a.past = e.past + 1 /\ a.k = k /\ a.bucket = bucket /\ a.native = native
  BY <1>1 DEF Spelt
<1>7. Exact(e) /\ row = Rows(e.past, 1) => Exact(a)
  BY <1>4, <1>6 DEF Exact
<1> QED BY <1>5, <1>6, <1>7 DEF a

LEMMA ReplacedEntry ==
  ASSUME NEW e \in Entry, NEW seq \in Nat, NEW present \in Buffer(seq), NEW n \in 1 .. seq
  PROVE  /\ Replaced(e, present, n) \in Entry /\ Replaced(e, present, n).past = n
         /\ SubSeq(present, 1, Size(n)) = Rows(0, n) => Exact(Replaced(e, present, n))
<1> DEFINE r == Replaced(e, present, n)
           k == SubSeq(present, 1, Size(n))
           native == ToNative(Pad(k, n, e.bucket), e.bucket, format)
<1>1. n \in Nat /\ n \in 0 .. seq
  OBVIOUS
<1>2. k \in Buffer(n)
  BY <1>1, FlatPrefix
<1>3. CASE e.native = <<>> \/ n > e.bucket
  <2>1. r = Filled(n, k)
    BY <1>3 DEF Replaced, Size
  <2> HIDE DEF r, k
  <2>2. r \in Entry /\ r.past = n /\ (k = Rows(0, n) => Exact(r))
    BY <1>1, <1>2, <2>1, FilledEntry
  <2> QED BY <2>2 DEF r, k
<1>4. CASE ~(e.native = <<>> \/ n > e.bucket)
  <2>1. e.bucket \in Nat /\ n <= e.bucket
    BY <1>1, <1>4, EntryFields
  <2>2. native \in Buffer(e.bucket)
    <3> HIDE DEF k
    <3>1. Pad(k, n, e.bucket) \in Buffer(e.bucket)
      BY <1>1, <1>2, <2>1, PadCells
    <3> QED BY <2>1, <3>1, ToNativeCells
  <2>3. r = Spelt(n, k, e.bucket, native)
    <3>1. r = WithBoth(e, n, k, native)
      BY <1>4 DEF Replaced, Size, WithBoth
    <3> HIDE DEF r, k, native
    <3> QED BY <3>1, ChangedEntry
  <2>4. k = Rows(0, n) => IsContext(native, n, e.bucket)
    BY <1>1, <2>1, ContextBuilt
  <2> HIDE DEF r, k, native
  <2>5. r \in Entry
    BY <1>1, <1>2, <2>1, <2>2, <2>3, EntryMade
  <2>6. r.past = n /\ r.k = k /\ r.bucket = e.bucket /\ r.native = native
    BY <2>3 DEF Spelt
  <2>7. k = Rows(0, n) => Exact(r)
    BY <2>4, <2>6 DEF Exact
  <2> QED BY <2>5, <2>6, <2>7 DEF r, k
<1> QED BY <1>3, <1>4

(* A prefix of the flat buffer keeps the first rows of every head where    *)
(* the chunk returned no other rows, or there is but one head.             *)
LEMMA PrefixRows ==
  ASSUME NEW n \in Nat, NEW seq \in Nat, n <= seq, n = seq \/ Heads = 1, NEW k \in Buffer(n)
  PROVE  SubSeq(Pad(k, n, seq), 1, Size(n)) = k
<1> DEFINE padded == Pad(k, n, seq)
           prefix == SubSeq(padded, 1, Size(n))
<1>1. n \in 0 .. seq
  OBVIOUS
<1>2. /\ padded \in Buffer(seq)
      /\ \A h \in KvHead, s \in 0 .. seq - 1, d \in Coord :
           padded[CacheIdx(h, s, d, seq)] = IF s < n THEN k[CacheIdx(h, s, d, n)] ELSE Zero
  BY PadCells
<1>3. CASE n = seq
  <2>1. padded = k
    BY <1>3 DEF Pad
  <2> HIDE DEF padded
  <2> QED BY <1>1, <1>2, <1>3, <2>1, FlatPrefix DEF padded
<1>4. CASE Heads = 1
  <2>1. prefix \in Buffer(n) /\ \A i \in 1 .. Size(n) : prefix[i] = padded[i]
    <3> HIDE DEF padded
    <3>1. prefix \in Buffer(n) /\ Size(n) \in Nat
      BY <1>1, <1>2, FlatPrefix, Shapes
    <3>2. padded \in Seq(Value)
      BY <1>2, BufferLen
    <3>3. Len(prefix) = Size(n)
      BY <3>1, BufferLen
    <3> HIDE DEF Value, Size
    <3>4. \A i \in 1 .. Len(prefix) : prefix[i] = padded[i]
      BY <3>1, <3>2, <3>3
    <3> QED BY <3>1, <3>3, <3>4
  <2>2. ASSUME NEW h \in KvHead, NEW s \in 0 .. n - 1, NEW d \in Coord
        PROVE  prefix[CacheIdx(h, s, d, n)] = k[CacheIdx(h, s, d, n)]
    <3>1. h = 0 /\ s \in 0 .. seq - 1 /\ s < n
      BY <1>4 DEF KvHead
    <3>2. CacheIdx(h, s, d, n) = CacheIdx(h, s, d, seq)
      BY <3>1 DEF CacheIdx
    <3>3. CacheIdx(h, s, d, n) \in 1 .. Size(n)
      BY CacheCells
    <3> HIDE DEF prefix, padded
    <3> QED BY <1>2, <2>1, <3>1, <3>2, <3>3
  <2> HIDE DEF prefix
  <2>3. prefix = k
    BY <2>1, <2>2, SameBuffer
  <2> QED BY <2>3 DEF prefix
<1> QED BY <1>3, <1>4

(* One layer is run: the row of the new token, alone or behind all others. *)
LEMMA UpdatedEntry ==
  ASSUME NEW e \in Entry, RunPast \in Nat, e.past <= RunPast,
         NEW kind \in {"delta", "full"}, NEW seq \in Nat, NEW fmt \in Formats,
         kind = "delta" => seq = 1, kind = "full" => seq >= RunPast + 1
  PROVE  /\ Updated(e, kind, seq, fmt) \in Entry /\ Updated(e, kind, seq, fmt).past = e.past + 1
         /\ Exact(e) /\ e.past = RunPast /\ (kind = "full" => seq = RunPast + 1 \/ Heads = 1)
              => Exact(Updated(e, kind, seq, fmt))
<1> DEFINE row == Rows(RunPast, 1)
           k == AppendRow(e.k, e.past, row)
<1>1. row \in Buffer(1)
  BY RowsCells
<1>2. CASE kind = "delta"
  <2>1. TakenOver(PresentRow(fmt), 1, fmt) = row
    BY <1>1, ReadBack DEF PresentRow
  <2>2. Updated(e, kind, seq, fmt) = Appended(e, row)
    BY <1>2, <2>1 DEF Updated
  <2> HIDE DEF row
  <2>3. /\ Appended(e, row) \in Entry /\ Appended(e, row).past = e.past + 1
        /\ Exact(e) /\ row = Rows(e.past, 1) => Exact(Appended(e, row))
    BY <1>1, AppendedEntry
  <2> QED BY <2>2, <2>3 DEF row
<1>3. CASE kind = "full"
  <2> DEFINE n == e.past + 1
             padded == Pad(k, n, seq)
  <2>1. n \in 1 .. seq /\ n \in Nat /\ n <= seq /\ e.past \in Nat
    BY <1>3, EntryFields
  <2>2. k \in Buffer(n)
    <3> HIDE DEF row
    <3> QED BY <1>1, EntryFields, AppendCells
  <2>3. padded \in Buffer(seq)
    <3> HIDE DEF k, n
    <3> QED BY <2>1, <2>2, PadCells
  <2>4. TakenOver(PresentFull(e, seq, fmt), seq, fmt) = padded
    <3>1. PresentFull(e, seq, fmt) = ToNative(padded, seq, fmt)
      BY DEF PresentFull
    <3> HIDE DEF padded
    <3> QED BY <2>3, <3>1, ReadBack
  <2>5. Updated(e, kind, seq, fmt) = Replaced(e, padded, n)
    <3> HIDE DEF padded
    <3> QED BY <1>3, <2>4 DEF Updated
  <2>6. /\ Replaced(e, padded, n) \in Entry /\ Replaced(e, padded, n).past = n
        /\ SubSeq(padded, 1, Size(n)) = Rows(0, n) => Exact(Replaced(e, padded, n))
    <3> HIDE DEF padded, n
    <3> QED BY <2>1, <2>3, ReplacedEntry
  <2>7. ASSUME Exact(e), e.past = RunPast, seq = RunPast + 1 \/ Heads = 1
        PROVE  SubSeq(padded, 1, Size(n)) = Rows(0, n)
    <3>1. k = Rows(0, n)
      BY <2>1, <2>7, RowsGrow DEF Exact
    <3>2. n = seq \/ Heads = 1
      BY <2>7
    <3> HIDE DEF k, n
    <3>3. SubSeq(padded, 1, Size(n)) = k
      BY <2>1, <2>2, <3>2, PrefixRows
    <3> QED BY <3>1, <3>3
  <2> HIDE DEF padded
  <2> QED BY <1>3, <2>5, <2>6, <2>7
<1> QED BY <1>2, <1>3

LEMMA Selected ==
  ASSUME NEW past \in Nat
  PROVE  SelectBucket(past) \in Nat
<1> DEFINE required == IF past > 1 THEN past ELSE 1
           fit == {b \in Buckets : b >= required}
<1>1. required \in Nat /\ Buckets \in SUBSET Nat
  BY Shapes
<1>2. CASE Buckets = {}
  BY <1>1, <1>2 DEF SelectBucket
<1>3. CASE fit # {}
  <2>1. Buckets # {} /\ fit \in SUBSET Nat
    BY <1>1, <1>3
  <2>2. SelectBucket(past) = Min(fit)
    BY <1>3, <2>1 DEF SelectBucket
  <2> HIDE DEF fit
  <2>3. \E b \in fit : \A c \in fit : b <= c
    BY <1>3, <2>1, Smallest
  <2>4. Min(fit) \in fit
    BY <2>3 DEF Min
  <2> QED BY <2>1, <2>2, <2>4
<1>4. CASE Buckets # {} /\ fit = {}
  <2>1. SelectBucket(past) = Max(Buckets)
    BY <1>4 DEF SelectBucket
  <2>2. \A b \in Buckets : b \in Nat /\ b < required
    BY <1>1, <1>4
  <2>3. \E b \in Buckets : \A c \in Buckets : b >= c
    <3> HIDE DEF required, fit
    <3> DEFINE gap(b) == required - b
               Gaps == {gap(b) : b \in Buckets}
    <3>1. \A b \in Buckets : gap(b) \in Nat
      BY <1>1, <2>2
    <3>2. Gaps \in SUBSET Nat /\ Gaps # {}
      <4> HIDE DEF gap
      <4> QED BY <1>4, <3>1
    <3>3. PICK g \in Gaps : \A h \in Gaps : g <= h
      <4> HIDE DEF Gaps
      <4> QED BY <3>2, Smallest
    <3>4. PICK b \in Buckets : g = gap(b)
      BY <3>3
    <3>5. \A c \in Buckets : gap(b) <= gap(c)
      BY <3>3, <3>4
    <3> QED BY <1>1, <2>2, <3>4, <3>5
  <2>4. Max(Buckets) \in Buckets
    BY <2>3 DEF Max
  <2> QED BY <1>1, <2>1, <2>4
<1> QED BY <1>2, <1>3, <1>4

-----------------------------------------------------------------------------
(* What every step keeps.                                                  *)

Fed == [past : Nat, bucket : Nat, buf : Seq(Value)]

(* No layer is ahead of the first one, whose rows pick the bucket.         *)
Types ==
  /\ format \in Formats /\ ok \in BOOLEAN
  /\ kv \in [1 .. Layers -> Entry]
  /\ \A l \in 1 .. Layers : kv[l].past <= RunPast
  /\ RunPast <= MaxLen

AllExact == ok => \A l \in 1 .. Layers : Exact(kv[l])
AllFed == ok => \A l \in 1 .. Layers : IsContext(fed[l].buf, fed[l].past, fed[l].bucket)

(* The rows of a head can be told from those of the next: the chunk        *)
(* returns as many rows as there are, or there is but one head.            *)
OwnRows == LongPresents => Heads = 1

First == 1 \in 1 .. Layers

LEMMA FirstLayer == First
BY Shapes DEF First

LEMMA PastType ==
  ASSUME Types
  PROVE  /\ RunPast \in 0 .. MaxLen /\ \A l \in 1 .. Layers : kv[l] \in Entry /\ kv[l].past \in 0 .. RunPast
<1>1. \A l \in 1 .. Layers : kv[l] \in Entry /\ kv[l].past \in Nat
  BY EntryFields DEF Types
<1>2. RunPast \in Nat /\ RunPast <= MaxLen /\ MaxLen \in Nat
  BY <1>1, FirstLayer, Shapes DEF Types, RunPast, First
<1>3. \A l \in 1 .. Layers : kv[l].past <= RunPast
  BY DEF Types
<1> HIDE DEF RunPast
<1> QED BY <1>1, <1>2, <1>3

(* The conditions, of the state after a step.                              *)
LEMMA ExactNext ==
  ASSUME format' = format, NEW l \in 1 .. Layers, Exact(kv'[l])
  PROVE  Exact(kv[l])'
BY DEF Exact, IsContext, NativeIdx

LEMMA FedNext ==
  ASSUME format' = format, NEW l \in 1 .. Layers,
         IsContext(fed'[l].buf, fed'[l].past, fed'[l].bucket)
  PROVE  IsContext(fed[l].buf, fed[l].past, fed[l].bucket)'
BY DEF IsContext, NativeIdx

LEMMA NothingFed ==
  ASSUME fed' = NotRun, format' = format
  PROVE  AllFed'
<1>1. ASSUME NEW l \in 1 .. Layers
      PROVE  IsContext(fed'[l].buf, fed'[l].past, fed'[l].bucket)
  <2>1. fed'[l].bucket = 0
    BY DEF NotRun
  <2>2. 0 .. 0 - 1 = {}
    OBVIOUS
  <2> QED BY <2>1, <2>2 DEF IsContext
<1> QED BY <1>1, FedNext DEF AllFed

(* The entries are filled anew.                                            *)
LEMMA FillInv ==
  ASSUME format \in Formats, NEW n \in 0 .. MaxLen, NEW k \in Buffer(n), k = Rows(0, n),
         kv' = [l \in 1 .. Layers |-> Filled(n, k)], ok' = TRUE, fed' = NotRun, format' = format
  PROVE  Types' /\ LayersInStep' /\ AllExact' /\ AllFed'
<1>1. n \in Nat /\ n <= MaxLen
  BY Shapes
<1>2. /\ Filled(n, k) \in Entry /\ Filled(n, k).past = n /\ Exact(Filled(n, k))
  BY <1>1, FilledEntry
<1>3. \A l \in 1 .. Layers : kv'[l] = Filled(n, k)
  OBVIOUS
<1>4. RunPast' = n
  BY <1>2, <1>3, FirstLayer DEF RunPast, First
<1>5. Types'
  BY <1>1, <1>2, <1>3, <1>4 DEF Types
<1>6. LayersInStep'
  BY <1>2, <1>3, <1>4 DEF LayersInStep
<1>7. AllExact'
  BY <1>2, <1>3, ExactNext DEF AllExact
<1> QED BY <1>5, <1>6, <1>7, NothingFed

LEMMA SyncInv ==
  ASSUME Types, NEW n \in 1 .. MaxLen, SyncFromCache(n)
  PROVE  Types' /\ LayersInStep' /\ AllExact' /\ AllFed'
<1>1. n \in 0 .. MaxLen /\ n \in Nat /\ Rows(0, n) \in Buffer(n)
  BY Shapes, RowsCells
<1> QED BY <1>1, FillInv DEF Types, SyncFromCache, FillFrom

(* The rows a prefill returns, cut to the prompt, are those of the prompt. *)
LEMMA PrefillRows ==
  ASSUME NEW n \in Nat, NEW seq \in Nat, n <= seq, NEW fmt \in Formats
  PROVE  Truncated(TakenOver(ToNative(Pad(Rows(0, n), n, seq), seq, fmt), seq, fmt), seq, n) = Rows(0, n)
<1> DEFINE padded == Pad(Rows(0, n), n, seq)
<1>1. Rows(0, n) \in Buffer(n)
  BY RowsCells
<1>2. /\ padded \in Buffer(seq)
      /\ \A h \in KvHead, s \in 0 .. seq - 1, d \in Coord :
           padded[CacheIdx(h, s, d, seq)] = IF s < n THEN Rows(0, n)[CacheIdx(h, s, d, n)] ELSE Zero
  BY <1>1, PadCells
<1> HIDE DEF padded
<1>3. TakenOver(ToNative(padded, seq, fmt), seq, fmt) = padded
  BY <1>2, ReadBack
<1>4. n \in 0 .. seq
  OBVIOUS
<1>5. /\ Truncated(padded, seq, n) \in Buffer(n)
      /\ \A h \in KvHead, s \in 0 .. n - 1, d \in Coord :
           Truncated(padded, seq, n)[CacheIdx(h, s, d, n)] = padded[CacheIdx(h, s, d, seq)]
  BY <1>2, <1>4, TruncatedCells
<1>6. \A s \in 0 .. n - 1 : s \in 0 .. seq - 1 /\ s < n
  OBVIOUS
<1>7. \A h \in KvHead, s \in 0 .. n - 1, d \in Coord :
        Truncated(padded, seq, n)[CacheIdx(h, s, d, n)] = Rows(0, n)[CacheIdx(h, s, d, n)]
  BY <1>2, <1>5, <1>6
<1>8. Truncated(padded, seq, n) = Rows(0, n)
  BY <1>1, <1>5, <1>7, SameBuffer
<1> QED BY <1>3, <1>8 DEF padded

LEMMA PrefillInv ==
  ASSUME Types, NEW n \in 1 .. MaxLen, NEW seq \in n .. MaxLen, NEW fmt \in Formats, Prefill(n, seq, fmt)
  PROVE  Types' /\ LayersInStep' /\ AllExact' /\ AllFed'
<1>1. n \in 0 .. MaxLen /\ n \in Nat /\ seq \in Nat /\ n <= seq /\ Rows(0, n) \in Buffer(n)
  BY Shapes, RowsCells
<1>2. Truncated(TakenOver(ToNative(Pad(Rows(0, n), n, seq), seq, fmt), seq, fmt), seq, n) = Rows(0, n)
  BY <1>1, PrefillRows
<1>3. kv' = [l \in 1 .. Layers |-> Filled(n, Rows(0, n))] /\ ok' = TRUE /\ fed' = NotRun /\ format' = format
  BY <1>2, Zenon DEF Prefill, FillFrom
<1>4. format \in Formats
  BY DEF Types
<1> QED BY <1>1, <1>3, <1>4, FillInv

LEMMA NoneFilled == None = Filled(0, <<>>) /\ <<>> \in Buffer(0) /\ <<>> = Rows(0, 0) /\ 0 \in 0 .. MaxLen
BY NoRows, Shapes DEF None, Filled

LEMMA ClearInv ==
  ASSUME Types, Clear
  PROVE  Types' /\ LayersInStep' /\ AllExact' /\ AllFed'
<1>1. kv' = [l \in 1 .. Layers |-> Filled(0, <<>>)] /\ ok' = TRUE /\ fed' = NotRun /\ format' = format
  BY NoneFilled, Zenon DEF Clear
<1> QED BY <1>1, NoneFilled, FillInv DEF Types

(* The native copies are made ready, and nothing else moves.               *)
LEMMA PreparedLayers ==
  ASSUME Types, NEW bucket \in Nat, bucket >= RunPast, NEW l \in 1 .. Layers
  PROVE  LET g == Prepared(bucket)[l] IN
         /\ g \in Entry /\ g.past = kv[l].past /\ g.bucket = bucket
         /\ Exact(kv[l]) => Exact(g) /\ IsContext(g.native, kv[l].past, bucket)
<1>1. Prepared(bucket)[l] = EnsureNative(kv[l], bucket)
  BY DEF Prepared
<1>2. kv[l] \in Entry /\ kv[l].past <= bucket
  <2>1. RunPast \in Nat /\ kv[l] \in Entry /\ kv[l].past \in 0 .. RunPast
    BY PastType, Shapes
  <2> QED BY <2>1
<1> QED BY <1>1, <1>2, EnsuredEntry

LEMMA RunFailsInv ==
  ASSUME Types, RunFails
  PROVE  /\ Types' /\ (LayersInStep => LayersInStep')
         /\ (AllExact => AllExact') /\ (AllFed => AllFed')
<1> DEFINE bucket == SelectBucket(RunPast)
<1>1. /\ kv' = IF bucket < RunPast THEN kv ELSE Prepared(bucket)
      /\ ok' = ok /\ fed' = fed /\ format' = format
  BY DEF RunFails
<1>2. bucket \in Nat /\ RunPast \in Nat
  BY PastType, Selected, Shapes
<1>3. ASSUME NEW l \in 1 .. Layers
      PROVE  kv'[l] \in Entry /\ kv'[l].past = kv[l].past /\ (Exact(kv[l]) => Exact(kv'[l]))
  <2>1. CASE bucket < RunPast
    BY <1>1, <2>1, PastType
  <2>2. CASE ~(bucket < RunPast)
    <3> HIDE DEF bucket
    <3>1. kv'[l] = Prepared(bucket)[l] /\ bucket >= RunPast
      BY <1>1, <1>2, <2>2
    <3> QED BY <1>2, <3>1, PreparedLayers
  <2> QED BY <2>1, <2>2
<1>4. RunPast' = RunPast
  BY <1>3, FirstLayer DEF RunPast, First
<1>5. kv' \in [1 .. Layers -> Entry]
  <2>1. kv' = [l \in 1 .. Layers |-> kv'[l]]
    BY <1>1 DEF Types, Prepared
  <2> QED BY <1>3, <2>1
<1>6. Types'
  BY <1>1, <1>3, <1>4, <1>5 DEF Types
<1>7. LayersInStep => LayersInStep'
  BY <1>1, <1>3, <1>4 DEF LayersInStep
<1>8. AllExact => AllExact'
  BY <1>1, <1>3, ExactNext DEF AllExact
<1>9. AllFed => AllFed'
  BY <1>1, FedNext DEF AllFed
<1> QED BY <1>6, <1>7, <1>8, <1>9

(* A run that stops after "done" layers leaves those one row ahead.        *)
LEMMA RunChunkInv ==
  ASSUME Types, NEW kind \in {"delta", "full"}, NEW seq \in 1 .. MaxLen + 1, NEW fmt \in Formats,
         NEW done \in 0 .. Layers, RunChunk(kind, seq, fmt, done)
  PROVE  /\ Types' /\ (LayersInStep => LayersInStep')
         /\ OwnRows /\ LayersInStep /\ AllExact => AllExact' /\ AllFed'
<1> DEFINE bucket == SelectBucket(RunPast)
           given == Prepared(bucket)
           updated(l) == Updated(given[l], kind, seq, fmt)
<1>1. /\ RunPast < MaxLen /\ bucket >= RunPast
      /\ kind = "delta" => seq = 1
      /\ kind = "full" => seq >= RunPast + 1 /\ (seq = RunPast + 1 \/ LongPresents)
      /\ kv' = [l \in 1 .. Layers |-> IF l <= done THEN updated(l) ELSE given[l]]
      /\ fed' = [l \in 1 .. Layers |-> [past |-> RunPast, bucket |-> bucket, buf |-> given[l].native]]
      /\ ok' = (ok /\ done = Layers) /\ format' = format
  BY DEF RunChunk
<1>2. /\ bucket \in Nat /\ RunPast \in Nat /\ seq \in Nat /\ MaxLen \in Nat
      /\ \A l \in 1 .. Layers : kv[l].past \in 0 .. RunPast
  BY PastType, Selected, Shapes
<1> HIDE DEF bucket
<1>3. ASSUME NEW l \in 1 .. Layers
      PROVE  /\ given[l] \in Entry /\ given[l].past = kv[l].past
             /\ Exact(kv[l]) => Exact(given[l]) /\ IsContext(given[l].native, kv[l].past, bucket)
  BY <1>1, <1>2, PreparedLayers
<1> HIDE DEF given
<1>4. ASSUME NEW l \in 1 .. Layers
      PROVE  /\ updated(l) \in Entry /\ updated(l).past = kv[l].past + 1
             /\ Exact(kv[l]) /\ kv[l].past = RunPast /\ OwnRows => Exact(updated(l))
  <2>1. given[l] \in Entry /\ given[l].past = kv[l].past /\ given[l].past <= RunPast
    BY <1>2, <1>3
  <2>2. /\ updated(l) \in Entry /\ updated(l).past = given[l].past + 1
        /\ Exact(given[l]) /\ given[l].past = RunPast /\ (kind = "full" => seq = RunPast + 1 \/ Heads = 1)
             => Exact(updated(l))
    BY <1>1, <1>2, <2>1, UpdatedEntry
  <2> HIDE DEF updated
  <2> QED BY <1>1, <1>3, <2>1, <2>2 DEF OwnRows
<1> HIDE DEF updated
<1>5. ASSUME NEW l \in 1 .. Layers
      PROVE  /\ kv'[l] \in Entry /\ kv'[l].past = IF l <= done THEN kv[l].past + 1 ELSE kv[l].past
             /\ l <= done => kv'[l] = updated(l)
  BY <1>1, <1>3, <1>4
<1>6. RunPast' = IF done >= 1 THEN RunPast + 1 ELSE RunPast
  BY <1>5, FirstLayer DEF RunPast, First
<1>7. Types'
  <2>1. kv' \in [1 .. Layers -> Entry]
    <3>1. kv' = [l \in 1 .. Layers |-> kv'[l]]
      BY <1>1
    <3> QED BY <1>5, <3>1
  <2>2. \A l \in 1 .. Layers : kv'[l].past <= RunPast'
    <3> SUFFICES ASSUME NEW l \in 1 .. Layers
                 PROVE  kv'[l].past <= RunPast'
      OBVIOUS
    <3>1. kv[l].past \in 0 .. RunPast /\ kv'[l].past = IF l <= done THEN kv[l].past + 1 ELSE kv[l].past
      BY <1>2, <1>5
    <3>2. l <= done => done >= 1
      BY Shapes
    <3> QED BY <1>2, <1>6, <3>1, <3>2
  <2>3. RunPast' <= MaxLen
    BY <1>1, <1>2, <1>6
  <2>4. format' \in Formats /\ ok' \in BOOLEAN
    BY <1>1 DEF Types
  <2> QED BY <2>1, <2>2, <2>3, <2>4 DEF Types
<1>8. ASSUME ok', NEW l \in 1 .. Layers
      PROVE  ok /\ l <= done /\ done >= 1
  <2>1. ok /\ done = Layers
    BY <1>1, <1>8, Zenon
  <2> QED BY <2>1, Shapes
<1>9. ASSUME LayersInStep
      PROVE  LayersInStep'
  <2> SUFFICES ASSUME ok', NEW l \in 1 .. Layers
               PROVE  kv'[l].past = RunPast'
    BY DEF LayersInStep
  <2>1. kv[l].past = RunPast /\ l <= done /\ done >= 1
    BY <1>8, <1>9 DEF LayersInStep
  <2> QED BY <1>5, <1>6, <2>1
<1>10. ASSUME OwnRows, LayersInStep, AllExact
       PROVE  AllExact' /\ AllFed'
  <2>1. ASSUME ok', NEW l \in 1 .. Layers
        PROVE  kv[l].past = RunPast /\ Exact(kv[l]) /\ kv'[l] = updated(l)
    BY <1>5, <1>8, <1>10, <2>1 DEF LayersInStep, AllExact
  <2>2. ASSUME ok', NEW l \in 1 .. Layers
        PROVE  Exact(kv[l])'
    <3>1. Exact(kv'[l])
      BY <1>4, <1>10, <2>1, <2>2
    <3> QED BY <1>1, <3>1, ExactNext
  <2>3. ASSUME ok', NEW l \in 1 .. Layers
        PROVE  IsContext(fed[l].buf, fed[l].past, fed[l].bucket)'
    <3>1. fed'[l].past = RunPast /\ fed'[l].bucket = bucket /\ fed'[l].buf = given[l].native
      BY <1>1
    <3>2. IsContext(given[l].native, RunPast, bucket)
      BY <1>3, <2>1, <2>3
    <3> QED BY <1>1, <3>1, <3>2, FedNext
  <2> QED BY <2>2, <2>3 DEF AllExact, AllFed
<1> QED BY <1>7, <1>9, <1>10

Steps == Types /\ LayersInStep
Inv == Steps /\ (OwnRows => AllExact /\ AllFed)

LEMMA InitInv ==
  ASSUME Init
  PROVE  Inv
<1>1. kv = [l \in 1 .. Layers |-> Filled(0, <<>>)] /\ ok = TRUE /\ fed = NotRun /\ format \in Formats
  BY NoneFilled, Zenon DEF Init
<1>2. /\ Filled(0, <<>>) \in Entry /\ Filled(0, <<>>).past = 0 /\ Exact(Filled(0, <<>>))
  BY NoneFilled, FilledEntry
<1>3. \A l \in 1 .. Layers : kv[l] = Filled(0, <<>>)
  BY <1>1
<1>4. RunPast = 0
  BY <1>2, <1>3, FirstLayer DEF RunPast, First
<1>5. Types
  <2>1. kv \in [1 .. Layers -> Entry]
    BY <1>1, <1>2
  <2>2. \A l \in 1 .. Layers : kv[l].past <= RunPast
    BY <1>2, <1>3, <1>4
  <2>3. RunPast <= MaxLen
    BY <1>4, Shapes
  <2>4. format \in Formats /\ ok \in BOOLEAN
    BY <1>1
  <2> QED BY <2>1, <2>2, <2>3, <2>4 DEF Types
<1>6. AllExact
  BY <1>2, <1>3 DEF AllExact
<1>7. LayersInStep
  BY <1>2, <1>3, <1>4 DEF LayersInStep
<1>8. AllFed
  <2>1. ASSUME NEW l \in 1 .. Layers
        PROVE  fed[l].bucket = 0
    BY <1>1 DEF NotRun
  <2>2. 0 .. 0 - 1 = {}
    OBVIOUS
  <2> QED BY <2>1, <2>2 DEF AllFed, IsContext
<1> QED BY <1>5, <1>6, <1>7, <1>8 DEF Inv, Steps

LEMMA NextInv ==
  ASSUME Inv, [Next]_vars
  PROVE  Inv'
<1>1. ASSUME NEW kind \in {"delta", "full"}, NEW seq \in 1 .. MaxLen + 1, NEW fmt \in Formats,
             NEW done \in 0 .. Layers, RunChunk(kind, seq, fmt, done)
      PROVE  Inv'
  BY <1>1, RunChunkInv DEF Inv, Steps
<1>2. CASE RunFails
  BY <1>2, RunFailsInv DEF Inv, Steps
<1>3. ASSUME NEW n \in 1 .. MaxLen, SyncFromCache(n)
      PROVE  Inv'
  BY <1>3, SyncInv DEF Inv, Steps
<1>4. ASSUME NEW n \in 1 .. MaxLen, NEW seq \in n .. MaxLen, NEW fmt \in Formats, Prefill(n, seq, fmt)
      PROVE  Inv'
  BY <1>4, PrefillInv DEF Inv, Steps
<1>5. CASE Clear
  BY <1>5, ClearInv DEF Inv, Steps
<1>6. CASE UNCHANGED vars
  BY <1>6 DEF vars, Inv, Steps, Types, LayersInStep, AllExact, AllFed, RunPast, Exact, IsContext, NativeIdx
<1> QED BY <1>1, <1>2, <1>3, <1>4, <1>5, <1>6 DEF Next

LEMMA InvHolds == Spec => []Inv
BY InitInv, NextInv, PTL DEF Spec

-----------------------------------------------------------------------------
(* Every layer has as many cells as it says it has rows, whatever formats, *)
(* buckets and lengths the chunk has and wherever a run stopped.           *)
THEOREM TypesKept == Spec => []TypeOK
<1>1. Inv => TypeOK
  <2> SUFFICES ASSUME Inv PROVE TypeOK
    OBVIOUS
  <2>1. ASSUME NEW l \in 1 .. Layers
        PROVE  /\ kv[l].past \in 0 .. MaxLen
               /\ Len(kv[l].k) = Heads * kv[l].past * Dim
               /\ kv[l].native # <<>> => Len(kv[l].native) = Heads * kv[l].bucket * Dim
    <3>1. kv[l] \in Entry /\ kv[l].past \in 0 .. RunPast /\ RunPast \in 0 .. MaxLen
      BY PastType DEF Inv, Steps
    <3>2. /\ Len(kv[l].k) = Size(kv[l].past)
          /\ kv[l].native # <<>> => Len(kv[l].native) = Size(kv[l].bucket)
      BY <3>1, EntryFields, BufferLen
    <3>3. kv[l].past \in 0 .. MaxLen
      BY <3>1, Shapes
    <3> QED BY <3>2, <3>3 DEF Size
  <2> QED BY <2>1 DEF Inv, Steps, Types, TypeOK
<1> QED BY <1>1, InvHolds, PTL

(* run_chunk may take past_len of the first layer for all of them: unless  *)
(* an update stopped half way, they are the same.                          *)
THEOREM InStep == Spec => []LayersInStep
<1>1. Inv => LayersInStep
  BY DEF Inv, Steps
<1> QED BY <1>1, InvHolds, PTL

(* What sync_to_cache hands back are the rows of the context, and so is    *)
(* what the next native copy is built from: for every chunk that returns   *)
(* the rows of the context and of the new token alone, and for every one   *)
(* of a model with one key head.                                           *)
THEOREM RowsKept ==
  ASSUME OwnRows
  PROVE  Spec => []RowsExact
<1>1. Inv => RowsExact
  BY DEF Inv, AllExact, Exact, RowsExact
<1> QED BY <1>1, InvHolds, PTL

(* ... and the tensor the NPU reads holds each cell of the context at its  *)
(* place in the NPU's layout, with zeros behind.                           *)
THEOREM FedKept ==
  ASSUME OwnRows
  PROVE  Spec => []FedExact
<1>1. Inv => FedExact
  BY DEF Inv, AllFed, IsContext, FedExact, NativeIdx, KvHead, Coord
<1> QED BY <1>1, InvHolds, PTL
=============================================================================
