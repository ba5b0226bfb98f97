----------------------------- MODULE MapProofs -----------------------------
(***************************************************************************)
(* Proofs about Map for every size of the board and every sequence of      *)
(* calls.  The index formulas first: different places, corners and sides   *)
(* of the board have different slots, and the only index that is negative  *)
(* belongs to the first side of the place at 0, 0.  Then what the six      *)
(* calls of addVillage and addStreet do to the vectors, and the invariant  *)
(* that relates the vectors to the history of calls.                       *)
(***************************************************************************)
EXTENDS Map, SequenceTheorems, NaturalsInduction, WellFoundedInduction, TLAPS

\* A row-by-row index identifies row and column as long as columns stay below
\* the width of a row.
LEMMA RowMajor ==
    ASSUME NEW w \in Nat, NEW x \in Nat, NEW y \in Nat, NEW a \in Nat, NEW b \in Nat,
           y < w, b < w, x * w + y = a * w + b
    PROVE  x = a /\ y = b
<1>1. ASSUME NEW p \in Nat, NEW q \in Nat, p < q PROVE p * w + w <= q * w
    <2>1. PICK d \in Nat : q = p + 1 + d
        <3>1. q - p - 1 \in Nat /\ q = p + 1 + (q - p - 1)
            BY <1>1
        <3> QED
            BY <3>1
    <2>2. (p + 1 + d) * w = p * w + w + d * w /\ d * w \in Nat /\ p * w \in Nat
        OBVIOUS
    <2> QED
        BY <2>1, <2>2
<1>2. x * w \in Nat /\ a * w \in Nat
    OBVIOUS
<1>3. ~(x < a)
    <2> SUFFICES ASSUME x < a PROVE FALSE
        OBVIOUS
    <2>1. x * w + w <= a * w
        BY <1>1
    <2> QED
        BY <2>1, <1>2
<1>4. ~(a < x)
    <2> SUFFICES ASSUME a < x PROVE FALSE
        OBVIOUS
    <2>1. a * w + w <= x * w
        BY <1>1
    <2> QED
        BY <2>1, <1>2
<1>5. x = a
    BY <1>3, <1>4
<1> QED
    BY <1>2, <1>5

Size == [x : Nat \ {0}, y : Nat \ {0}]
Coordinates == [x : Nat, y : Nat]

\* Where places, corners of places and sides of places of a board can be
Places(size) == {c \in Coordinates : c.x < size.x /\ c.y < size.y}
CornersOf(size) == {c \in Coordinates : c.x <= 2 * size.x /\ c.y <= size.y}
SidesOf(size) == {c \in [x : Nat, y : Int] :
                     c.x <= size.x /\ -1 <= c.y /\ c.y < 2 * size.y}

\* No two places of setTile share an element of allTilePlaces.
THEOREM PlacesDistinct ==
    ASSUME NEW size \in Size, NEW c \in Places(size), NEW d \in Places(size),
           PlaceIndex(size, c) = PlaceIndex(size, d)
    PROVE  c = d
<1>1. /\ size.y \in Nat /\ c.x \in Nat /\ c.y \in Nat /\ d.x \in Nat /\ d.y \in Nat
      /\ c.y < size.y /\ d.y < size.y
      /\ c.x * size.y + c.y = d.x * size.y + d.y
    BY DEF Size, Places, Coordinates, PlaceIndex
<1>2. c.x = d.x /\ c.y = d.y
    BY ONLY <1>1, RowMajor
<1> QED
    BY <1>2 DEF Places, Coordinates

\* Corners that neighbouring places share have one village, others have two.
THEOREM VillagesDistinct ==
    ASSUME NEW size \in Size, NEW c \in CornersOf(size), NEW d \in CornersOf(size),
           VillageIndex(size, c) = VillageIndex(size, d)
    PROVE  c = d
<1> DEFINE w == size.x * 2 + 2
<1>1. /\ w \in Nat /\ c.x \in Nat /\ c.y \in Nat /\ d.x \in Nat /\ d.y \in Nat
      /\ c.x < w /\ d.x < w
      /\ c.y * w + c.x = d.y * w + d.x
    BY DEF Size, CornersOf, Coordinates, VillageIndex
<1> HIDE DEF w
<1>2. c.y = d.y /\ c.x = d.x
    BY ONLY <1>1, RowMajor
<1> QED
    BY <1>2 DEF CornersOf, Coordinates

\* Sides of the board that differ have different streets; the row -1 of the
\* topmost sides is the last element of the column before it.
THEOREM StreetsDistinct ==
    ASSUME NEW size \in Size, NEW c \in SidesOf(size), NEW d \in SidesOf(size),
           StreetIndex(size, c) = StreetIndex(size, d)
    PROVE  c = d
<1> DEFINE w == size.y * 2 + 2
           r == c.y + 1
           s == d.y + 1
<1>1. w \in Nat /\ c.x \in Nat /\ d.x \in Nat /\ c.y \in Int /\ d.y \in Int
    BY DEF Size, SidesOf
<1>2. r \in Nat /\ s \in Nat /\ r < w /\ s < w
    BY DEF Size, SidesOf
<1>3. c.x * w + c.y = d.x * w + d.y
    BY DEF StreetIndex
<1>4. c.x * w \in Int /\ d.x * w \in Int
    BY <1>1
<1>5. c.x * w + r = d.x * w + s
    BY <1>1, <1>3, <1>4
<1> HIDE DEF w, r, s
<1>6. /\ w \in Nat /\ c.x \in Nat /\ d.x \in Nat /\ r \in Nat /\ s \in Nat
      /\ r < w /\ s < w
      /\ c.x * w + r = d.x * w + s
    BY <1>1, <1>2, <1>5
<1>7. c.x = d.x /\ r = s
    <2>1. ASSUME NEW x \in Nat, NEW a \in Nat, x * w + r = a * w + s
          PROVE  x = a /\ r = s
        BY ONLY <1>6, <2>1, RowMajor
    <2> QED
        BY ONLY <1>6, <2>1
<1>8. c.y = d.y
    BY <1>1, <1>7 DEF r, s
<1>9. c \in [x : Nat, y : Int] /\ d \in [x : Nat, y : Int]
    BY DEF SidesOf
<1> QED
    BY ONLY <1>7, <1>8, <1>9

-----------------------------------------------------------------------------

\* Rows of width w start at 0, w, ...: only an element before the first row has
\* a negative index.
LEMMA NegativeIsFirst ==
    ASSUME NEW w \in Nat, NEW x \in Nat, NEW y \in Int, -1 <= y, 0 < w,
           x * w + y < 0
    PROVE  x = 0 /\ y = -1
<1>1. x * w \in Nat
    OBVIOUS
<1>2. y = -1 /\ x * w = 0
    BY <1>1
<1>3. ASSUME x # 0 PROVE FALSE
    <2>1. x - 1 \in Nat /\ (x - 1) * w \in Nat /\ x * w = (x - 1) * w + w
        BY <1>3
    <2> QED
        BY <1>2, <2>1
<1> QED
    BY <1>2, <1>3

\* place::afterSet asks for a street at a negative index only at 0, 0.
LEMMA SidesNotNegative ==
    ASSUME NEW size \in Size, NEW c \in Coordinates, NEW n \in 1 .. 6,
           StreetIndex(size, Sides(c)[n]) < 0
    PROVE  c = At(0, 0)
<1> DEFINE w == size.y * 2 + 2
           side == Sides(c)[n]
<1>1. c.x \in Nat /\ c.y \in Nat /\ c = At(c.x, c.y)
    BY DEF Coordinates, At
<1>2. w \in Nat /\ 0 < w
    BY DEF Size
<1>3. /\ side.x \in {c.x, c.x + 1}
      /\ side.y \in {c.y * 2 - 1, c.y * 2, c.y * 2 + 1}
    BY <1>1 DEF Sides, At
<1>4. side.x \in Nat /\ side.y \in Int /\ -1 <= side.y
    BY <1>1, <1>3
<1>5. side.x * w + side.y < 0
    BY DEF StreetIndex
<1> HIDE DEF w, side
<1>6. side.x = 0 /\ side.y = -1
    BY ONLY <1>2, <1>4, <1>5, NegativeIsFirst
<1>7. c.x = 0 /\ c.y = 0
    BY <1>1, <1>3, <1>6
<1> QED
    BY <1>1, <1>7

-----------------------------------------------------------------------------
(* Vectors *)

\* A set of numbers that is not empty has a smallest element.
LEMMA MinIsMember ==
    ASSUME NEW S \in SUBSET Nat, S # {}
    PROVE  Min(S) \in S
<1> DEFINE Less == {ss \in Nat \X Nat : ss[1] < ss[2]}
<1>1. IsWellFoundedOn(Less, Nat)
    BY NatLessThanWellFounded DEF OpToRel
<1> HIDE DEF Less
<1>2. PICK x \in S : \A y \in S : ~(<<y, x>> \in Less)
    BY <1>1, WFMin
<1>3. \A y \in S : x <= y
    <2> SUFFICES ASSUME NEW y \in S PROVE ~(y < x)
        OBVIOUS
    <2> QED
        BY <1>2 DEF Less
<1> QED
    BY <1>3 DEF Min

\* find: the position of a list of items that allTiles has
LEMMA Found ==
    ASSUME NEW S, NEW s \in Seq(S), NEW x \in Range(s)
    PROVE  LET k == SelectInSeq(s, LAMBDA t : t = x) IN k \in 1 .. Len(s) /\ s[k] = x
<1> DEFINE There == {i \in 1 .. Len(s) : s[i] = x}
           k == SelectInSeq(s, LAMBDA t : t = x)
<1>1. PICK i \in 1 .. Len(s) : s[i] = x
    BY LenProperties DEF Range
<1>2. k = IF There # {} THEN Min(There) ELSE 0
    BY DEF SelectInSeq
<1>3. There # {} /\ There \in SUBSET Nat
    BY <1>1
<1>4. Min(There) \in There
    BY <1>3, MinIsMember
<1>5. k \in There
    BY <1>2, <1>3, <1>4
<1> QED
    BY <1>5

\* push_back
LEMMA Pushed ==
    ASSUME NEW S, NEW s \in Seq(S), NEW x \in S
    PROVE  /\ Append(s, x) \in Seq(S) /\ Len(Append(s, x)) = Len(s) + 1
           /\ Append(s, x)[Len(s) + 1] = x
           /\ \A i \in 1 .. Len(s) : Append(s, x)[i] = s[i]
           /\ DOMAIN s = 1 .. Len(s) /\ DOMAIN Append(s, x) = 1 .. Len(s) + 1
           /\ Len(s) \in Nat /\ Range(Append(s, x)) = Range(s) \cup {x}
<1> DEFINE t == Append(s, x)
           n == Len(s)
<1>1. /\ t \in Seq(S) /\ Len(t) = n + 1 /\ t[n + 1] = x
      /\ \A i \in 1 .. n : t[i] = s[i]
    BY AppendProperties
<1>2. n \in Nat /\ DOMAIN s = 1 .. n /\ DOMAIN t = 1 .. n + 1
    BY <1>1, LenProperties
<1> HIDE DEF t, n
<1>3. ASSUME NEW y \in Range(t) PROVE y \in Range(s) \cup {x}
    <2>1. PICK i \in 1 .. n + 1 : t[i] = y
        BY <1>2 DEF Range
    <2>2. CASE i = n + 1
        BY <1>1, <2>1, <2>2
    <2>3. CASE i # n + 1
        <3>1. i \in 1 .. n
            BY <1>2, <2>3
        <3>2. y = s[i]
            BY <1>1, <2>1, <3>1
        <3> QED
            BY <1>2, <3>1, <3>2 DEF Range
    <2> QED
        BY <2>2, <2>3
<1>4. ASSUME NEW y \in Range(s) PROVE y \in Range(t)
    <2>1. PICK i \in 1 .. n : s[i] = y
        BY <1>2 DEF Range
    <2>2. i \in 1 .. n + 1 /\ t[i] = y
        BY <1>1, <1>2, <2>1
    <2> QED
        BY <1>2, <2>2 DEF Range
<1>5. x \in Range(t)
    <2>1. n + 1 \in 1 .. n + 1
        BY <1>2
    <2> QED
        BY <1>1, <1>2, <2>1 DEF Range
<1>6. Range(t) = Range(s) \cup {x}
    BY <1>3, <1>4, <1>5
<1> QED
    BY <1>1, <1>2, <1>6 DEF t, n

-----------------------------------------------------------------------------
(* The villages: six calls of addVillage *)

Pointers == [block : Nat, at : Nat]
Village == [isInitialized : {TRUE}, at : {Unset}, connectingTiles : Seq(Pointers)]
Villages == UNION {[D -> Village] : D \in SUBSET Nat}

\* What a village lists; nothing where the vector ends before it
Tiles(vector, i) == IF i \in DOMAIN vector THEN vector[i].connectingTiles ELSE <<>>

\* addVillage appends the tile to one corner and resizes the vector when the
\* corner is new.
LEMMA AddVillage ==
    ASSUME NEW vector \in Villages, NEW v, VillageIndex(maxSize, v) \in Nat,
           NEW tile \in Pointers
    PROVE  /\ addVillage(vector, v, tile) \in Villages
           /\ \A i : Tiles(addVillage(vector, v, tile), i) =
                         IF i = VillageIndex(maxSize, v) THEN Append(Tiles(vector, i), tile)
                         ELSE Tiles(vector, i)
           /\ VillageIndex(maxSize, v) \in DOMAIN addVillage(vector, v, tile)
<1> DEFINE index == VillageIndex(maxSize, v)
           all == Resized(vector, index, NewVillage)
           D == DOMAIN vector \cup 0 .. index
           new == [all EXCEPT ![index] =
                      [all[index] EXCEPT !.connectingTiles = Append(@, tile)]]
<1>1. DOMAIN vector \in SUBSET Nat /\ vector \in [DOMAIN vector -> Village]
    BY DEF Villages
<1>2. index \in Nat
    OBVIOUS
<1>3. NewVillage \in Village /\ NewVillage.connectingTiles = <<>>
    <2>1. <<>> \in Seq(Pointers)
        OBVIOUS
    <2> QED
        BY <2>1 DEF NewVillage, Village
<1> HIDE DEF index
<1>4. all = [i \in D |-> IF i \in DOMAIN vector THEN vector[i] ELSE NewVillage]
    BY DEF Resized
<1>5. D \in SUBSET Nat /\ index \in D
    BY <1>1, <1>2
<1> HIDE DEF D
<1>6. all \in [D -> Village]
    BY <1>1, <1>3, <1>4
<1>7. \A i : Tiles(all, i) = Tiles(vector, i)
    <2>1. \A i \in DOMAIN vector : i \in D
        BY DEF D
    <2> QED
        BY <1>3, <1>4, <2>1 DEF Tiles
<1> HIDE DEF all
<1>8. all[index] \in Village /\ all[index].connectingTiles \in Seq(Pointers)
    BY <1>5, <1>6 DEF Village
<1>9. addVillage(vector, v, tile) = new
    <2>1. all[index].isInitialized
        BY <1>8 DEF Village
    <2> QED
        BY <2>1 DEF addVillage, all, index
<1> DEFINE village == [all[index] EXCEPT !.connectingTiles = Append(@, tile)]
<1>10. /\ village \in Village
       /\ village.connectingTiles = Append(all[index].connectingTiles, tile)
    <2>1. Append(all[index].connectingTiles, tile) \in Seq(Pointers)
        BY <1>8
    <2> QED
        BY <1>8, <2>1 DEF Village
<1>11. new = [all EXCEPT ![index] = village]
    OBVIOUS
<1> HIDE DEF new, village
<1>12. new \in [D -> Village] /\ new[index] = village
       /\ \A i \in D : i # index => new[i] = all[i]
    BY <1>5, <1>6, <1>10, <1>11
<1>13. new \in Villages
    BY <1>5, <1>12 DEF Villages
<1>14. ASSUME NEW i
       PROVE  Tiles(new, i) = IF i = index THEN Append(Tiles(all, i), tile) ELSE Tiles(all, i)
    <2>1. DOMAIN new = D /\ DOMAIN all = D
        BY <1>6, <1>12
    <2>2. CASE i = index
        BY <1>5, <1>10, <1>12, <2>1, <2>2 DEF Tiles
    <2>3. CASE i # index
        BY <1>12, <2>1, <2>3 DEF Tiles
    <2> QED
        BY <2>2, <2>3
<1>15. index \in DOMAIN new
    BY <1>5, <1>12
<1> QED
    BY <1>7, <1>9, <1>13, <1>14, <1>15 DEF index

\* The corners of a place are six corners of the board.
LEMMA SixCorners ==
    ASSUME NEW size \in Size, NEW c \in Places(size)
    PROVE  /\ DOMAIN Corners(c) = 1 .. 6
           /\ \A n \in 1 .. 6 : /\ Corners(c)[n] \in CornersOf(size)
                                /\ VillageIndex(size, Corners(c)[n]) \in Nat
           /\ \A m, n \in 1 .. 6 : Corners(c)[m] = Corners(c)[n] => m = n
<1>1. /\ c.x \in Nat /\ c.y \in Nat /\ c.x < size.x /\ c.y < size.y
      /\ size.x \in Nat /\ size.y \in Nat
    BY DEF Places, Coordinates, Size
<1>2. DOMAIN Corners(c) = 1 .. 6
    BY DEF Corners
<1>3. \A x, y : At(x, y).x = x /\ At(x, y).y = y
    BY DEF At
<1>4. \A n \in 1 .. 6 : /\ Corners(c)[n] \in Coordinates
                        /\ Corners(c)[n].x \in {c.x * 2, c.x * 2 + 1, c.x * 2 + 2}
                        /\ Corners(c)[n].y \in {c.y, c.y + 1}
    BY <1>1 DEF Corners, At, Coordinates
<1>5. \A n \in 1 .. 6 : Corners(c)[n] \in CornersOf(size)
    <2> SUFFICES ASSUME NEW n \in 1 .. 6 PROVE Corners(c)[n] \in CornersOf(size)
        OBVIOUS
    <2> DEFINE v == Corners(c)[n]
    <2>1. /\ v \in Coordinates /\ v.x \in {c.x * 2, c.x * 2 + 1, c.x * 2 + 2}
          /\ v.y \in {c.y, c.y + 1}
        BY <1>4
    <2> HIDE DEF v
    <2>2. v.x <= 2 * size.x /\ v.y <= size.y
        BY <1>1, <2>1
    <2> QED
        BY <2>1, <2>2 DEF CornersOf, v
<1>6. \A v \in CornersOf(size) : VillageIndex(size, v) \in Nat
    <2> SUFFICES ASSUME NEW v \in CornersOf(size) PROVE VillageIndex(size, v) \in Nat
        OBVIOUS
    <2>1. v.x \in Nat /\ v.y \in Nat /\ size.x * 2 + 2 \in Nat
        BY <1>1 DEF CornersOf, Coordinates
    <2>2. v.y * (size.x * 2 + 2) \in Nat
        BY <2>1
    <2> QED
        BY <2>1, <2>2 DEF VillageIndex
<1>7. ASSUME NEW m \in 1 .. 6, NEW n \in 1 .. 6, Corners(c)[m] = Corners(c)[n] PROVE m = n
    <2>1. /\ Corners(c)[1] = At(c.x * 2, c.y) /\ Corners(c)[2] = At(c.x * 2 + 1, c.y)
          /\ Corners(c)[3] = At(c.x * 2 + 2, c.y) /\ Corners(c)[4] = At(c.x * 2, c.y + 1)
          /\ Corners(c)[5] = At(c.x * 2 + 1, c.y + 1)
          /\ Corners(c)[6] = At(c.x * 2 + 2, c.y + 1)
        BY DEF Corners
    <2> DEFINE number(v) == (v.x - c.x * 2) + 3 * (v.y - c.y) + 1
    <2>2. \A k \in 1 .. 6 : number(Corners(c)[k]) = k
        BY <1>1, <1>3, <2>1
    <2> HIDE DEF number
    <2> QED
        BY <1>7, <2>2
<1> QED
    BY <1>2, <1>5, <1>6, <1>7

\* place::afterSet adds the tile to its six corners and to no other village.
LEMMA SixVillages ==
    ASSUME maxSize \in Size, villages \in Villages, NEW c \in Places(maxSize),
           NEW tile \in Pointers
    PROVE  /\ VillagesWith(c, tile) \in Villages
           /\ \A v \in CornersOf(maxSize) :
                  Tiles(VillagesWith(c, tile), VillageIndex(maxSize, v)) =
                      IF v \in Range(Corners(c))
                      THEN Append(Tiles(villages, VillageIndex(maxSize, v)), tile)
                      ELSE Tiles(villages, VillageIndex(maxSize, v))
<1> DEFINE at(n) == VillageIndex(maxSize, Corners(c)[n])
           v1 == addVillage(villages, Corners(c)[1], tile)
           v2 == addVillage(v1, Corners(c)[2], tile)
           v3 == addVillage(v2, Corners(c)[3], tile)
           v4 == addVillage(v3, Corners(c)[4], tile)
           v5 == addVillage(v4, Corners(c)[5], tile)
           v6 == addVillage(v5, Corners(c)[6], tile)
           next(old, new, n) ==
               /\ new \in Villages
               /\ \A i : Tiles(new, i) = IF i = at(n) THEN Append(Tiles(old, i), tile)
                                         ELSE Tiles(old, i)
<1>1. VillagesWith(c, tile) = v6
    BY DEF VillagesWith
<1>2. /\ DOMAIN Corners(c) = 1 .. 6
      /\ \A n \in 1 .. 6 : Corners(c)[n] \in CornersOf(maxSize) /\ at(n) \in Nat
      /\ \A m, n \in 1 .. 6 : Corners(c)[m] = Corners(c)[n] => m = n
    BY SixCorners
<1>3. \A n \in 1 .. 6, v \in CornersOf(maxSize) :
          VillageIndex(maxSize, v) = at(n) => v = Corners(c)[n]
    BY <1>2, VillagesDistinct
<1>4. ASSUME NEW n \in 1 .. 6, NEW old \in Villages
      PROVE  next(old, addVillage(old, Corners(c)[n], tile), n)
    <2> DEFINE v == Corners(c)[n]
    <2>1. VillageIndex(maxSize, v) \in Nat
        BY <1>2
    <2> HIDE DEF v
    <2>2. /\ addVillage(old, v, tile) \in Villages
          /\ \A i : Tiles(addVillage(old, v, tile), i) =
                        IF i = VillageIndex(maxSize, v) THEN Append(Tiles(old, i), tile)
                        ELSE Tiles(old, i)
        BY <2>1, AddVillage
    <2> QED
        BY <2>2 DEF v
<1>5. next(villages, v1, 1)
    BY <1>4
<1> HIDE DEF v1
<1>6. next(v1, v2, 2)
    BY <1>4, <1>5
<1> HIDE DEF v2
<1>7. next(v2, v3, 3)
    BY <1>4, <1>6
<1> HIDE DEF v3
<1>8. next(v3, v4, 4)
    BY <1>4, <1>7
<1> HIDE DEF v4
<1>9. next(v4, v5, 5)
    BY <1>4, <1>8
<1> HIDE DEF v5
<1>10. next(v5, v6, 6)
    BY <1>4, <1>9
<1> HIDE DEF v6
<1>11. ASSUME NEW v \in CornersOf(maxSize)
       PROVE  Tiles(v6, VillageIndex(maxSize, v)) =
                  IF v \in Range(Corners(c))
                  THEN Append(Tiles(villages, VillageIndex(maxSize, v)), tile)
                  ELSE Tiles(villages, VillageIndex(maxSize, v))
    <2> DEFINE i == VillageIndex(maxSize, v)
    <2>1. /\ Tiles(v1, i) = IF i = at(1) THEN Append(Tiles(villages, i), tile) ELSE Tiles(villages, i)
          /\ Tiles(v2, i) = IF i = at(2) THEN Append(Tiles(v1, i), tile) ELSE Tiles(v1, i)
          /\ Tiles(v3, i) = IF i = at(3) THEN Append(Tiles(v2, i), tile) ELSE Tiles(v2, i)
          /\ Tiles(v4, i) = IF i = at(4) THEN Append(Tiles(v3, i), tile) ELSE Tiles(v3, i)
          /\ Tiles(v5, i) = IF i = at(5) THEN Append(Tiles(v4, i), tile) ELSE Tiles(v4, i)
          /\ Tiles(v6, i) = IF i = at(6) THEN Append(Tiles(v5, i), tile) ELSE Tiles(v5, i)
        BY <1>5, <1>6, <1>7, <1>8, <1>9, <1>10
    <2>2. \A n \in 1 .. 6 : i = at(n) <=> v = Corners(c)[n]
        BY <1>3
    <2>3. v \in Range(Corners(c)) <=> \E n \in 1 .. 6 : v = Corners(c)[n]
        BY <1>2 DEF Range
    <2> HIDE DEF i, at
    <2>4. CASE \E n \in 1 .. 6 : v = Corners(c)[n]
        <3>1. PICK n \in 1 .. 6 : v = Corners(c)[n]
            BY <2>4
        <3>2. \A m \in 1 .. 6 : i = at(m) <=> m = n
            BY <1>2, <2>2, <3>1
        <3>3. Tiles(v6, i) = Append(Tiles(villages, i), tile)
            BY <2>1, <3>2
        <3> QED
            BY <2>3, <2>4, <3>3 DEF i
    <2>5. CASE ~ \E n \in 1 .. 6 : v = Corners(c)[n]
        <3>1. \A m \in 1 .. 6 : i # at(m)
            BY <2>2, <2>5
        <3>2. Tiles(v6, i) = Tiles(villages, i)
            BY <2>1, <3>1
        <3> QED
            BY <2>3, <2>5, <3>2 DEF i
    <2> QED
        BY <2>4, <2>5
<1> QED
    BY <1>1, <1>10, <1>11

-----------------------------------------------------------------------------
(* The streets: six calls of addStreet *)

Street == [isInitialized : BOOLEAN, at : [x : Int, y : Int]]
Streets == UNION {[D -> Street] : D \in SUBSET Nat}

\* Streets stand in the slots of their coordinates.
Ordered(vector) ==
    \A i \in DOMAIN vector :
        vector[i].isInitialized =>
            vector[i].at \in SidesOf(maxSize) /\ StreetIndex(maxSize, vector[i].at) = i

StreetsIn(vector) ==
    {vector[i].at : i \in {i \in DOMAIN vector : vector[i].isInitialized}}

\* addStreet stores one side at its index and leaves the others where they
\* are.
LEMMA AddStreet ==
    ASSUME maxSize \in Size, NEW vector \in Streets, Ordered(vector),
           NEW s \in SidesOf(maxSize), StreetIndex(maxSize, s) \in Nat
    PROVE  /\ addStreet(vector, s) \in Streets /\ Ordered(addStreet(vector, s))
           /\ StreetsIn(addStreet(vector, s)) = StreetsIn(vector) \cup {s}
<1> DEFINE index == StreetIndex(maxSize, s)
           D == DOMAIN vector \cup 0 .. index
           all == Resized(vector, index, NewStreet)
           here == [isInitialized |-> TRUE, at |-> s]
           new == [all EXCEPT ![index] = here]
<1>1. DOMAIN vector \in SUBSET Nat /\ vector \in [DOMAIN vector -> Street]
    BY DEF Streets
<1>2. index \in Nat /\ s \in [x : Int, y : Int]
    BY DEF SidesOf
<1>3. NewStreet \in Street /\ ~NewStreet.isInitialized
    BY DEF NewStreet, Street, Unset, At
<1>4. here \in Street /\ here.isInitialized /\ here.at = s
    BY <1>2 DEF Street
<1> HIDE DEF index, here
<1>5. all = [i \in D |-> IF i \in DOMAIN vector THEN vector[i] ELSE NewStreet]
    BY DEF Resized
<1>6. D \in SUBSET Nat /\ index \in D /\ DOMAIN vector \subseteq D
    BY <1>1, <1>2
<1> HIDE DEF D
<1>7. all \in [D -> Street]
    BY <1>1, <1>3, <1>5
<1>8. all \in Streets
    BY <1>6, <1>7 DEF Streets
<1>9. \A i \in D : all[i].isInitialized => i \in DOMAIN vector /\ all[i] = vector[i]
    BY <1>3, <1>5
<1>10. \A i \in DOMAIN vector : all[i] = vector[i]
    BY <1>5, <1>6
<1>11. DOMAIN all = D
    BY <1>7
<1> HIDE DEF all
<1>12. Ordered(all)
    BY <1>9, <1>11 DEF Ordered
<1>13. StreetsIn(all) = StreetsIn(vector)
    <2>1. StreetsIn(all) \subseteq StreetsIn(vector)
        BY <1>9, <1>11 DEF StreetsIn
    <2>2. StreetsIn(vector) \subseteq StreetsIn(all)
        BY <1>6, <1>10, <1>11 DEF StreetsIn
    <2> QED
        BY <2>1, <2>2
<1>14. addStreet(vector, s) = IF all[index].isInitialized THEN all ELSE new
    BY DEF addStreet, all, index, here
<1>15. CASE all[index].isInitialized
    <2>1. all[index].at \in SidesOf(maxSize) /\ StreetIndex(maxSize, all[index].at) = index
        BY <1>6, <1>11, <1>12, <1>15 DEF Ordered
    <2>2. all[index].at = s
        BY <2>1, StreetsDistinct DEF index
    <2>3. s \in StreetsIn(all)
        BY <1>6, <1>11, <1>15, <2>2 DEF StreetsIn
    <2>4. StreetsIn(vector) \cup {s} = StreetsIn(all)
        BY <1>13, <2>3
    <2>5. addStreet(vector, s) = all
        BY <1>14, <1>15
    <2> QED
        BY <1>8, <1>12, <2>4, <2>5
<1>16. CASE ~all[index].isInitialized
    <2>1. /\ new \in [D -> Street] /\ DOMAIN new = D /\ new[index] = here
          /\ \A i \in D : i # index => new[i] = all[i]
        BY <1>4, <1>6, <1>7
    <2> HIDE DEF new
    <2>2. new \in Streets
        BY <1>6, <2>1 DEF Streets
    <2>3. Ordered(new)
        <3> SUFFICES ASSUME NEW i \in D, new[i].isInitialized
                     PROVE  /\ new[i].at \in SidesOf(maxSize)
                            /\ StreetIndex(maxSize, new[i].at) = i
            BY <2>1 DEF Ordered
        <3>1. CASE i = index
            BY <1>4, <2>1, <3>1 DEF index
        <3>2. CASE i # index
            BY <1>11, <1>12, <2>1, <3>2 DEF Ordered
        <3> QED
            BY <3>1, <3>2
    <2>4. StreetsIn(new) = StreetsIn(all) \cup {s}
        <3>1. ASSUME NEW t \in StreetsIn(new) PROVE t \in StreetsIn(all) \cup {s}
            <4>1. PICK i \in D : new[i].isInitialized /\ t = new[i].at
                BY <2>1 DEF StreetsIn
            <4>2. CASE i = index
                BY <1>4, <2>1, <4>1, <4>2
            <4>3. CASE i # index
                BY <1>11, <2>1, <4>1, <4>3 DEF StreetsIn
            <4> QED
                BY <4>2, <4>3
        <3>2. ASSUME NEW t \in StreetsIn(all) PROVE t \in StreetsIn(new)
            <4>1. PICK i \in D : all[i].isInitialized /\ t = all[i].at
                BY <1>11 DEF StreetsIn
            <4>2. new[i] = all[i]
                BY <1>16, <2>1, <4>1
            <4> QED
                BY <2>1, <4>1, <4>2 DEF StreetsIn
        <3>3. s \in StreetsIn(new)
            BY <1>4, <1>6, <2>1 DEF StreetsIn
        <3> QED
            BY <3>1, <3>2, <3>3
    <2>5. addStreet(vector, s) = new
        BY <1>14, <1>16
    <2> QED
        BY <1>13, <2>2, <2>3, <2>4, <2>5
<1> QED
    BY <1>15, <1>16

\* A tile has six sides of the board, each with an index.
LEMMA SixSides ==
    ASSUME NEW size \in Size, NEW c \in Places(size)
    PROVE  /\ DOMAIN Sides(c) = 1 .. 6
           /\ \A n \in 1 .. 6 : /\ Sides(c)[n] \in SidesOf(size)
                                /\ StreetIndex(size, Sides(c)[n]) \in Int
<1>1. /\ c.x \in Nat /\ c.y \in Nat /\ c.x < size.x /\ c.y < size.y
      /\ size.x \in Nat /\ size.y \in Nat
    BY DEF Places, Coordinates, Size
<1>2. DOMAIN Sides(c) = 1 .. 6
    BY DEF Sides
<1>3. ASSUME NEW n \in 1 .. 6
      PROVE  Sides(c)[n] \in SidesOf(size) /\ StreetIndex(size, Sides(c)[n]) \in Int
    <2> DEFINE s == Sides(c)[n]
    <2>1. /\ s \in [x : Nat, y : Int] /\ s.x \in {c.x, c.x + 1}
          /\ s.y \in {c.y * 2 - 1, c.y * 2, c.y * 2 + 1}
        BY <1>1 DEF Sides, At
    <2> HIDE DEF s
    <2>2. s.x <= size.x /\ -1 <= s.y /\ s.y < 2 * size.y
        BY <1>1, <2>1
    <2>3. s \in SidesOf(size)
        BY <2>1, <2>2 DEF SidesOf
    <2>4. size.y * 2 + 2 \in Int /\ s.x \in Int /\ s.y \in Int
        BY <1>1, <2>1
    <2>5. s.x * (size.y * 2 + 2) \in Int
        BY <2>4
    <2>6. StreetIndex(size, s) \in Int
        BY <2>4, <2>5 DEF StreetIndex
    <2> QED
        BY <2>3, <2>6 DEF s
<1> QED
    BY <1>2, <1>3

\* place::afterSet makes its six sides streets, and nothing else.
LEMMA SixStreets ==
    ASSUME maxSize \in Size, streets \in Streets, Ordered(streets),
           NEW c \in Places(maxSize),
           \A n \in 1 .. 6 : ~(StreetIndex(maxSize, Sides(c)[n]) < 0)
    PROVE  /\ StreetsWith(c) \in Streets /\ Ordered(StreetsWith(c))
           /\ StreetsIn(StreetsWith(c)) = StreetsIn(streets) \cup Range(Sides(c))
<1> DEFINE s1 == addStreet(streets, Sides(c)[1])
           s2 == addStreet(s1, Sides(c)[2])
           s3 == addStreet(s2, Sides(c)[3])
           s4 == addStreet(s3, Sides(c)[4])
           s5 == addStreet(s4, Sides(c)[5])
           s6 == addStreet(s5, Sides(c)[6])
           next(old, new, n) == /\ new \in Streets /\ Ordered(new)
                                /\ StreetsIn(new) = StreetsIn(old) \cup {Sides(c)[n]}
<1>1. StreetsWith(c) = s6
    BY DEF StreetsWith
<1>2. /\ DOMAIN Sides(c) = 1 .. 6
      /\ \A n \in 1 .. 6 : /\ Sides(c)[n] \in SidesOf(maxSize)
                           /\ StreetIndex(maxSize, Sides(c)[n]) \in Nat
    <2>1. \A i \in Int : ~(i < 0) => i \in Nat
        OBVIOUS
    <2> QED
        BY <2>1, SixSides
<1>3. ASSUME NEW n \in 1 .. 6, NEW old \in Streets, Ordered(old)
      PROVE  next(old, addStreet(old, Sides(c)[n]), n)
    <2> DEFINE s == Sides(c)[n]
    <2>1. s \in SidesOf(maxSize) /\ StreetIndex(maxSize, s) \in Nat
        BY <1>2
    <2> HIDE DEF s
    <2>2. /\ addStreet(old, s) \in Streets /\ Ordered(addStreet(old, s))
          /\ StreetsIn(addStreet(old, s)) = StreetsIn(old) \cup {s}
        BY <1>3, <2>1, AddStreet
    <2> QED
        BY <2>2 DEF s
<1>4. next(streets, s1, 1)
    BY <1>3
<1> HIDE DEF s1
<1>5. next(s1, s2, 2)
    BY <1>3, <1>4
<1> HIDE DEF s2
<1>6. next(s2, s3, 3)
    BY <1>3, <1>5
<1> HIDE DEF s3
<1>7. next(s3, s4, 4)
    BY <1>3, <1>6
<1> HIDE DEF s4
<1>8. next(s4, s5, 5)
    BY <1>3, <1>7
<1> HIDE DEF s5
<1>9. next(s5, s6, 6)
    BY <1>3, <1>8
<1> HIDE DEF s6
<1>10. Range(Sides(c)) = {Sides(c)[1], Sides(c)[2], Sides(c)[3], Sides(c)[4], Sides(c)[5],
                          Sides(c)[6]}
    BY <1>2 DEF Range
<1>11. StreetsIn(s6) = StreetsIn(streets) \cup Range(Sides(c))
    BY <1>4, <1>5, <1>6, <1>7, <1>8, <1>9, <1>10
<1> QED
    BY <1>1, <1>9, <1>11

-----------------------------------------------------------------------------
(* The invariant *)

Call == [c : Coordinates, items : Items \cup {Empty}]

Types ==
    /\ maxSize \in Size \cup {Unset}
    /\ calls \in Seq(Call)
    /\ allTiles \in Seq(Items)
    /\ block \in Nat /\ capacity \in Nat
    /\ undefined \in BOOLEAN /\ resized \in BOOLEAN

\* allTiles fits into its block of memory, and holds what setTile was called with.
Memory ==
    /\ Len(allTiles) <= capacity
    /\ block = 0 => capacity = 0
    /\ ~undefined => Range(allTiles) = {calls[n].items : n \in Filled}

\* Nothing is there before the first tile.
Fresh ==
    calls = <<>> => villages = <<>> /\ streets = <<>> /\ allTilePlaces = <<>>

OnBoard ==
    ~undefined /\ ~resized /\ calls # <<>> =>
        maxSize \in Size /\ \A n \in DOMAIN calls : calls[n].c \in Places(maxSize)

\* Of the calls for one place there is a last one.
Lasts == \A n \in DOMAIN calls : \E m \in LastCalls : calls[m].c = calls[n].c

\* A pointer that was stored by call n
Points(pointer, n) ==
    IF calls[n].items = Empty THEN pointer = emptyTile
    ELSE /\ pointer.block \in 1 .. block
         /\ pointer.at \in DOMAIN allTiles /\ allTiles[pointer.at] = calls[n].items
         /\ ~NewAfter(n) => pointer.block = block

\* The last call for a place stands where its index says, and nothing stands elsewhere.
PlacesInv ==
    ~undefined /\ ~resized =>
        /\ \A n \in LastCalls :
               LET i == PlaceIndex(maxSize, calls[n].c) IN
               /\ i \in DOMAIN allTilePlaces /\ allTilePlaces[i].at = calls[n].c
               /\ Points(allTilePlaces[i].tile, n)
        /\ \A i \in DOMAIN allTilePlaces :
               \/ allTilePlaces[i].tile = NULL
               \/ \E n \in LastCalls : i = PlaceIndex(maxSize, calls[n].c)

\* These pointers were stored by these calls.
ListsIn(tiles, chosen) ==
    /\ tiles \in Seq(Pointers)
    /\ \E call \in [DOMAIN tiles -> chosen] :
           /\ \A k, l \in DOMAIN tiles : k < l => call[k] < call[l]
           /\ Range(call) = chosen
           /\ \A k \in DOMAIN tiles : Points(tiles[k], call[k])

VillagesInv ==
    ~undefined /\ ~resized /\ maxSize # Unset =>
        /\ villages \in Villages
        /\ \A v \in CornersOf(maxSize) :
               ListsIn(Tiles(villages, VillageIndex(maxSize, v)), Around(v))

StreetsInv ==
    ~undefined /\ ~resized /\ maxSize # Unset =>
        /\ streets \in Streets /\ Ordered(streets)
        /\ \A s : s \in StreetsIn(streets) <=> \E n \in Filled : s \in Range(Sides(calls[n].c))

IInv == /\ Types /\ Memory /\ Fresh /\ OnBoard /\ Lasts /\ PlacesInv /\ VillagesInv
        /\ StreetsInv /\ UndefinedOnlyAtOrigin

-----------------------------------------------------------------------------
(* What a call adds to the lists of calls and tiles *)

\* The lists of calls and of tiles only grow.
Extended ==
    /\ calls \in Seq(Call) /\ DOMAIN calls \subseteq DOMAIN calls'
    /\ \A n \in DOMAIN calls : calls'[n] = calls[n]
    /\ DOMAIN allTiles \subseteq DOMAIN allTiles'
    /\ \A i \in DOMAIN allTiles : allTiles'[i] = allTiles[i]

\* Pointers stay what they were for their calls.
PointersKept == \A pointer, n : n \in DOMAIN calls /\ Points(pointer, n) => Points(pointer, n)'

\* A corner without calls around it lists nothing.
LEMMA ListsNothing == ListsIn(<<>>, {})'
<1> DEFINE call == [k \in {} |-> 0]
<1>1. <<>> \in Seq(Pointers) /\ DOMAIN <<>> = {}
    OBVIOUS
<1>2. call \in [DOMAIN <<>> -> {}] /\ Range(call) = {}
    BY <1>1 DEF Range
<1> HIDE DEF call
<1> QED
    BY <1>1, <1>2 DEF ListsIn

\* Nothing of it changes as long as nothing is set.
LEMMA ListsSame ==
    ASSUME UNCHANGED <<allTiles, block, calls>>, NEW tiles, NEW chosen, ListsIn(tiles, chosen)
    PROVE  ListsIn(tiles, chosen)'
<1>1. tiles \in Seq(Pointers)
    BY DEF ListsIn
<1>2. PICK call \in [DOMAIN tiles -> chosen] :
          /\ \A k, l \in DOMAIN tiles : k < l => call[k] < call[l]
          /\ Range(call) = chosen
          /\ \A k \in DOMAIN tiles : Points(tiles[k], call[k])
    BY DEF ListsIn
<1>3. ASSUME NEW pointer, NEW n, Points(pointer, n) PROVE Points(pointer, n)'
    BY <1>3 DEF Points, NewAfter
<1>4. \A k \in DOMAIN tiles : Points(tiles[k], call[k])'
    BY <1>2, <1>3
<1> QED
    BY <1>1, <1>2, <1>4 DEF ListsIn

\* What a corner lists stays what it was for its calls.
LEMMA ListsKept ==
    ASSUME Extended, PointersKept, NEW tiles, NEW chosen, chosen \subseteq DOMAIN calls,
           ListsIn(tiles, chosen)
    PROVE  ListsIn(tiles, chosen)'
<1>1. tiles \in Seq(Pointers)
    BY DEF ListsIn
<1>2. PICK call \in [DOMAIN tiles -> chosen] :
          /\ \A k, l \in DOMAIN tiles : k < l => call[k] < call[l]
          /\ Range(call) = chosen
          /\ \A k \in DOMAIN tiles : Points(tiles[k], call[k])
    BY DEF ListsIn
<1>3. \A k \in DOMAIN tiles : Points(tiles[k], call[k])'
    <2> SUFFICES ASSUME NEW k \in DOMAIN tiles PROVE Points(tiles[k], call[k])'
        OBVIOUS
    <2>1. PICK pointer, n : pointer = tiles[k] /\ n = call[k]
        OBVIOUS
    <2>2. n \in DOMAIN calls /\ Points(pointer, n)
        BY <1>2, <2>1
    <2>3. Points(pointer, n)'
        BY <2>2 DEF PointersKept
    <2> QED
        BY <2>1, <2>3 DEF Points
<1> QED
    BY <1>1, <1>2, <1>3 DEF ListsIn

\* A tile that is appended belongs to the latest call.
LEMMA ListsMore ==
    ASSUME Extended, PointersKept, NEW tiles, NEW chosen, chosen \subseteq DOMAIN calls,
           ListsIn(tiles, chosen), NEW m \in DOMAIN calls', \A n \in DOMAIN calls : n < m,
           NEW tile \in Pointers, Points(tile, m)'
    PROVE  ListsIn(Append(tiles, tile), chosen \cup {m})'
<1>1. tiles \in Seq(Pointers)
    BY DEF ListsIn
<1>2. PICK call \in [DOMAIN tiles -> chosen] :
          /\ \A k, l \in DOMAIN tiles : k < l => call[k] < call[l]
          /\ Range(call) = chosen
          /\ \A k \in DOMAIN tiles : Points(tiles[k], call[k])
    BY DEF ListsIn
<1> DEFINE more == Append(tiles, tile)
           n == Len(tiles)
           longer == [k \in 1 .. n + 1 |-> IF k <= n THEN call[k] ELSE m]
<1>3. /\ more \in Seq(Pointers) /\ n \in Nat /\ DOMAIN tiles = 1 .. n /\ DOMAIN more = 1 .. n + 1
      /\ more[n + 1] = tile /\ \A k \in 1 .. n : more[k] = tiles[k]
    BY <1>1, Pushed
<1> HIDE DEF more, n
<1>4. \A k \in 1 .. n + 1 : (k <= n => k \in 1 .. n) /\ (~(k <= n) => k = n + 1)
    BY <1>3
<1>5. longer \in [DOMAIN more -> chosen \cup {m}]
    BY <1>2, <1>3, <1>4
<1>6. \A k, l \in DOMAIN more : k < l => longer[k] < longer[l]
    <2> SUFFICES ASSUME NEW k \in 1 .. n + 1, NEW l \in 1 .. n + 1, k < l
                 PROVE  longer[k] < longer[l]
        BY <1>3
    <2>1. k <= n /\ k \in 1 .. n
        BY <1>3
    <2>2. longer[k] = call[k] /\ call[k] \in DOMAIN calls
        BY <1>2, <1>3, <2>1
    <2>3. CASE l <= n
        BY <1>2, <1>3, <1>4, <2>1, <2>2, <2>3
    <2>4. CASE ~(l <= n)
        BY <2>2, <2>4
    <2> QED
        BY <2>3, <2>4
<1>7. Range(longer) = chosen \cup {m}
    <2>1. chosen \subseteq Range(longer)
        <3> SUFFICES ASSUME NEW y \in chosen PROVE y \in Range(longer)
            OBVIOUS
        <3>1. PICK k \in 1 .. n : call[k] = y
            BY <1>2, <1>3 DEF Range
        <3>2. k \in 1 .. n + 1 /\ longer[k] = y
            BY <1>3, <3>1
        <3> QED
            BY <3>2 DEF Range
    <2>2. m \in Range(longer)
        <3>1. n + 1 \in 1 .. n + 1 /\ longer[n + 1] = m
            BY <1>3
        <3> QED
            BY <3>1 DEF Range
    <2>3. Range(longer) \subseteq chosen \cup {m}
        BY <1>3, <1>5 DEF Range
    <2> QED
        BY <2>1, <2>2, <2>3
<1>8. \A k \in DOMAIN more : Points(more[k], longer[k])'
    <2> SUFFICES ASSUME NEW k \in 1 .. n + 1 PROVE Points(more[k], longer[k])'
        BY <1>3
    <2>1. PICK pointer, l : pointer = more[k] /\ l = longer[k]
        OBVIOUS
    <2>2. CASE k <= n
        <3>1. k \in 1 .. n /\ pointer = tiles[k] /\ l = call[k]
            BY <1>3, <1>4, <2>1, <2>2
        <3>2. l \in DOMAIN calls /\ Points(pointer, l)
            BY <1>2, <1>3, <3>1
        <3>3. Points(pointer, l)'
            BY <3>2 DEF PointersKept
        <3> QED
            BY <2>1, <3>3 DEF Points
    <2>3. CASE ~(k <= n)
        <3>1. k = n + 1 /\ pointer = tile /\ l = m
            BY <1>3, <1>4, <2>1, <2>3
        <3> QED
            BY <2>1, <3>1 DEF Points
    <2> QED
        BY <2>2, <2>3
<1> HIDE DEF longer
<1>10. ListsIn(more, chosen \cup {m})'
    BY <1>3, <1>5, <1>6, <1>7, <1>8 DEF ListsIn
<1> QED
    BY <1>10 DEF more

-----------------------------------------------------------------------------
(* Every step keeps the invariant *)

LEMMA InitIInv == Init => IInv
<1> SUFFICES ASSUME Init PROVE IInv
    OBVIOUS
<1>1. /\ calls = <<>> /\ DOMAIN calls = {} /\ allTiles = <<>> /\ block = 0 /\ capacity = 0
      /\ maxSize = Unset /\ undefined = FALSE /\ resized = FALSE
      /\ villages = <<>> /\ streets = <<>> /\ allTilePlaces = <<>>
      /\ DOMAIN allTilePlaces = {}
    BY DEF Init
<1>3. Types
    <2>1. <<>> \in Seq(Call) /\ <<>> \in Seq(Items)
        OBVIOUS
    <2> QED
        BY <1>1, <2>1 DEF Types
<1>4. Memory
    <2>1. Range(allTiles) = {} /\ Filled = {} /\ Len(allTiles) = 0
        BY <1>1 DEF Range, Filled
    <2> QED
        BY <1>1, <2>1 DEF Memory
<1>5. LastCalls = {}
    BY <1>1 DEF LastCalls
<1>6. Fresh /\ OnBoard /\ Lasts /\ PlacesInv
    BY <1>1, <1>5 DEF Fresh, OnBoard, Lasts, PlacesInv
<1>7. VillagesInv /\ StreetsInv /\ UndefinedOnlyAtOrigin
    BY <1>1 DEF VillagesInv, StreetsInv, UndefinedOnlyAtOrigin
<1> QED
    BY <1>3, <1>4, <1>6, <1>7 DEF IInv

\* setMaxSize makes every vector a fresh one.
LEMMA SetMaxSizeStep ==
    ASSUME IInv, NEW size \in Sizes, setMaxSize(size)
    PROVE  IInv'
<1>1. /\ undefined' = FALSE /\ undefined = FALSE /\ maxSize' = size
      /\ resized' = (resized \/ (calls # <<>> /\ size # maxSize))
      /\ UNCHANGED <<allTiles, block, capacity, allTilePlaces, villages, streets, calls>>
    BY DEF setMaxSize, IInv, Types
<1>2. size \in Size
    BY SizeAssumption DEF Size
<1>3. resized' \in BOOLEAN
    BY <1>1
<1>4. Types'
    BY <1>1, <1>2, <1>3 DEF IInv, Types
<1>5. Memory' /\ Fresh' /\ Lasts' /\ UndefinedOnlyAtOrigin'
    BY <1>1 DEF IInv, Memory, Filled, Fresh, Lasts, LastCalls, UndefinedOnlyAtOrigin
<1>6. CASE resized'
    <2>1. OnBoard' /\ PlacesInv' /\ VillagesInv' /\ StreetsInv'
        BY <1>6 DEF OnBoard, PlacesInv, VillagesInv, StreetsInv
    <2> QED
        BY <1>4, <1>5, <2>1 DEF IInv
<1>7. CASE ~resized' /\ calls # <<>>
    <2>1. ~resized /\ maxSize' = maxSize
        BY <1>1, <1>7
    <2>2. OnBoard' /\ PlacesInv'
        BY <1>1, <1>7, <2>1 DEF IInv, OnBoard, PlacesInv, LastCalls, Points, NewAfter
    <2>3. maxSize # Unset
        BY <1>2, <1>1, <2>1 DEF Size, Unset, At
    <2>4. ASSUME NEW tiles, NEW chosen, ListsIn(tiles, chosen) PROVE ListsIn(tiles, chosen)'
        BY <1>1, <2>4, ListsSame
    <2>5. \A v : Around(v)' = Around(v)
        BY <1>1 DEF Around, Filled
    <2>6. VillagesInv'
        BY <1>1, <2>1, <2>3, <2>4, <2>5 DEF IInv, VillagesInv
    <2>7. StreetsInv'
        BY <1>1, <2>1, <2>3 DEF IInv, StreetsInv, Filled, Ordered
    <2> QED
        BY <1>4, <1>5, <2>2, <2>6, <2>7 DEF IInv
<1>8. CASE calls = <<>>
    <2>1. /\ villages' = <<>> /\ streets' = <<>> /\ allTilePlaces' = <<>> /\ calls' = <<>>
          /\ DOMAIN <<>> = {}
        BY <1>1, <1>8 DEF IInv, Fresh
    <2>2. Filled' = {} /\ LastCalls' = {} /\ \A v : Around(v)' = {}
        BY <2>1 DEF Filled, LastCalls, Around
    <2>3. OnBoard' /\ PlacesInv'
        BY <2>1, <2>2 DEF OnBoard, PlacesInv
    <2>4. <<>> \in Villages /\ <<>> \in Streets
        <3>1. \A S : <<>> \in [{} -> S]
            BY <2>1
        <3> QED
            BY <3>1 DEF Villages, Streets
    <2>5. ASSUME NEW i PROVE Tiles(villages', i) = <<>>
        <3>1. i \notin DOMAIN villages'
            BY <2>1
        <3> QED
            BY <3>1 DEF Tiles
    <2>6. ListsIn(<<>>, {})'
        BY ListsNothing
    <2>7. VillagesInv'
        BY <2>1, <2>2, <2>4, <2>5, <2>6 DEF VillagesInv
    <2>8. StreetsInv'
        <3>1. Ordered(<<>>)' /\ StreetsIn(<<>>) = {}
            BY <2>1 DEF Ordered, StreetsIn
        <3> QED
            BY <2>1, <2>2, <2>4, <3>1 DEF StreetsInv
    <2> QED
        BY <1>4, <1>5, <2>3, <2>7, <2>8 DEF IInv
<1> QED
    BY <1>6, <1>7, <1>8

\* The call that setTile adds
LEMMA Called ==
    ASSUME IInv, NEW c \in Board, NEW items \in Items \cup {Empty}, setTile(c, items)
    PROVE  /\ undefined = FALSE /\ resized' = resized /\ maxSize' = maxSize
           /\ Len(calls) \in Nat /\ DOMAIN calls = 1 .. Len(calls)
           /\ calls' \in Seq(Call) /\ DOMAIN calls' = 1 .. Len(calls) + 1 /\ calls' # <<>>
           /\ calls'[Len(calls) + 1] = [c |-> c, items |-> items]
           /\ \A n \in 1 .. Len(calls) : calls'[n] = calls[n]
           /\ c \in Coordinates
<1> DEFINE call == [c |-> c, items |-> items]
<1>1. undefined = FALSE /\ calls' = Append(calls, call) /\ resized' = resized /\ maxSize' = maxSize
    BY DEF setTile, IInv, Types
<1>2. c \in Coordinates
    BY DEF IInv, Types, Board, At, Coordinates, Size, Unset
<1>3. call \in Call
    BY <1>2 DEF Call
<1> HIDE DEF call
<1>4. /\ calls' \in Seq(Call) /\ calls'[Len(calls) + 1] = call
      /\ \A i \in 1 .. Len(calls) : calls'[i] = calls[i]
      /\ DOMAIN calls = 1 .. Len(calls) /\ DOMAIN calls' = 1 .. Len(calls) + 1
      /\ Len(calls) \in Nat
    BY <1>1, <1>3, Pushed DEF IInv, Types
<1>5. calls' # <<>>
    <2>1. 1 \in DOMAIN calls'
        BY <1>4
    <2> QED
        BY <2>1
<1> QED
    BY <1>1, <1>2, <1>4, <1>5 DEF call

\* A call replaces the last call for its place and no other.
LEMMA Lasting ==
    ASSUME IInv, NEW c \in Board, NEW items \in Items \cup {Empty}, setTile(c, items)
    PROVE  /\ LastCalls' = {n \in LastCalls : calls[n].c # c} \cup {Len(calls) + 1}
           /\ Lasts' /\ Fresh'
           /\ Filled' = IF items = Empty THEN Filled ELSE Filled \cup {Len(calls) + 1}
           /\ \A n \in DOMAIN calls : NewAfter(n) => NewAfter(n)'
<1> DEFINE L == Len(calls)
<1>1. /\ L \in Nat /\ DOMAIN calls = 1 .. L
      /\ DOMAIN calls' = 1 .. L + 1 /\ calls' # <<>>
      /\ calls'[L + 1].c = c /\ calls'[L + 1].items = items
      /\ \A n \in 1 .. L : calls'[n] = calls[n]
    <2> DEFINE call == calls'[L + 1]
    <2>1. /\ L \in Nat /\ DOMAIN calls = 1 .. L
          /\ DOMAIN calls' = 1 .. L + 1 /\ calls' # <<>>
          /\ call = [c |-> c, items |-> items]
          /\ \A n \in 1 .. L : calls'[n] = calls[n]
        BY Called
    <2> HIDE DEF call
    <2>2. call.c = c /\ call.items = items
        BY <2>1
    <2> QED
        BY <2>1, <2>2 DEF call
<1>2. Len(calls') = L + 1
    BY <1>1, Called, LenProperties
<1> HIDE DEF L
<1>3. \A n \in 1 .. L + 1 : n = L + 1 \/ n \in 1 .. L
    BY <1>1
<1>4. LastCalls' = {n \in LastCalls : calls[n].c # c} \cup {L + 1}
    <2>1. ASSUME NEW n \in LastCalls'
          PROVE  n \in {k \in LastCalls : calls[k].c # c} \cup {L + 1}
        <3>1. n \in 1 .. L + 1 /\ \A m \in n + 1 .. L + 1 : calls'[m].c # calls'[n].c
            BY <1>1, <1>2 DEF LastCalls
        <3>2. CASE n \in 1 .. L
            <4>1. calls[n].c # c
                <5>1. L + 1 \in n + 1 .. L + 1
                    BY <1>1, <3>2
                <5> QED
                    BY <1>1, <3>1, <3>2, <5>1
            <4>2. \A m \in n + 1 .. L : calls[m].c # calls[n].c
                <5> SUFFICES ASSUME NEW m \in n + 1 .. L PROVE calls[m].c # calls[n].c
                    OBVIOUS
                <5>1. m \in n + 1 .. L + 1 /\ m \in 1 .. L
                    BY <1>1, <3>2
                <5> QED
                    BY <1>1, <3>1, <3>2, <5>1
            <4> QED
                BY <1>1, <3>2, <4>1, <4>2 DEF LastCalls, L
        <3> QED
            BY <1>3, <3>1, <3>2
    <2>2. ASSUME NEW n \in LastCalls, calls[n].c # c PROVE n \in LastCalls'
        <3>1. n \in 1 .. L /\ \A m \in n + 1 .. L : calls[m].c # calls[n].c
            BY <1>1 DEF LastCalls, L
        <3>2. ASSUME NEW m \in n + 1 .. L + 1 PROVE calls'[m].c # calls'[n].c
            <4>1. CASE m = L + 1
                BY <1>1, <2>2, <3>1, <4>1
            <4>2. CASE m # L + 1
                <5>1. m \in n + 1 .. L /\ m \in 1 .. L
                    BY <1>1, <3>1, <4>2
                <5> QED
                    BY <1>1, <3>1, <5>1
            <4> QED
                BY <4>1, <4>2
        <3>3. n \in 1 .. L + 1
            BY <1>1, <3>1
        <3> QED
            BY <1>1, <1>2, <3>2, <3>3 DEF LastCalls
    <2>3. L + 1 \in LastCalls'
        <3>1. L + 1 \in 1 .. L + 1 /\ (L + 1) + 1 .. L + 1 = {}
            BY <1>1
        <3> QED
            BY <1>1, <1>2, <3>1 DEF LastCalls
    <2> QED
        BY <2>1, <2>2, <2>3
<1>5. Lasts'
    <2> SUFFICES ASSUME NEW n \in 1 .. L + 1
                 PROVE  \E m \in LastCalls' : calls'[m].c = calls'[n].c
        BY <1>1 DEF Lasts
    <2>1. CASE calls'[n].c = c
        BY <1>1, <1>4, <2>1
    <2>2. CASE calls'[n].c # c
        <3>1. n \in 1 .. L /\ calls'[n] = calls[n]
            BY <1>1, <1>3, <2>2
        <3>2. PICK m \in LastCalls : calls[m].c = calls[n].c
            BY <1>1, <3>1 DEF IInv, Lasts
        <3>3. m \in 1 .. L
            BY <1>1 DEF LastCalls
        <3> QED
            BY <1>1, <1>4, <2>2, <3>1, <3>2, <3>3
    <2> QED
        BY <2>1, <2>2
<1>6. Filled' = IF items = Empty THEN Filled ELSE Filled \cup {L + 1}
    <2>1. \A n \in 1 .. L : n \in 1 .. L + 1 /\ n # L + 1
        BY <1>1
    <2>2. L + 1 \in 1 .. L + 1
        BY <1>1
    <2>3. \A n : n \in Filled <=> n \in 1 .. L /\ calls[n].items # Empty
        BY <1>1 DEF Filled
    <2>4. \A n : n \in Filled' <=> n \in 1 .. L + 1 /\ calls'[n].items # Empty
        BY <1>1 DEF Filled
    <2>5. \A n : n \in 1 .. L + 1 <=> n \in 1 .. L \/ n = L + 1
        BY <1>3, <2>1, <2>2
    <2>6. CASE items = Empty
        <3>1. \A n : n \in Filled' <=> n \in Filled
            BY <1>1, <2>3, <2>4, <2>5, <2>6
        <3> QED
            BY <2>6, <3>1
    <2>7. CASE items # Empty
        <3>1. \A n : n \in Filled' <=> n \in Filled \/ n = L + 1
            BY <1>1, <2>1, <2>3, <2>4, <2>5, <2>7
        <3> QED
            BY <2>7, <3>1
    <2> QED
        BY <2>6, <2>7
<1>7. ASSUME NEW n \in DOMAIN calls, NewAfter(n) PROVE NewAfter(n)'
    <2>1. PICK m \in n + 1 .. L : /\ calls[m].items # Empty
                                  /\ \A k \in 1 .. m - 1 : calls[k].items # calls[m].items
        BY <1>7 DEF NewAfter, L
    <2>2. m \in n + 1 .. L + 1 /\ m \in 1 .. L /\ \A k \in 1 .. m - 1 : k \in 1 .. L
        BY <1>1
    <2>3. calls'[m].items # Empty /\ \A k \in 1 .. m - 1 : calls'[k].items # calls'[m].items
        BY <1>1, <2>1, <2>2
    <2> QED
        BY <1>2, <2>2, <2>3 DEF NewAfter
<1>8. Fresh'
    BY <1>1 DEF Fresh
<1> QED
    BY <1>4, <1>5, <1>6, <1>7, <1>8 DEF L

\* A vector that is full grows by at least one.
LEMMA Grows == \A n \in Nat : Grown(n) \in Nat /\ n < Grown(n)
    BY DEF Grown

\* What a call of setTile with valid indices starts from
LEMMA Valid ==
    ASSUME IInv, NEW c \in Board, NEW items \in Items \cup {Empty}, setTile(c, items),
           ~InvalidIndex(c, items)
    PROVE  /\ maxSize \in Size /\ c \in Places(maxSize) /\ undefined' = FALSE
           /\ items # Empty => \A n \in 1 .. 6 : ~(StreetIndex(maxSize, Sides(c)[n]) < 0)
<1>1. maxSize # Unset /\ maxSize \in Size
    BY DEF InvalidIndex, IInv, Types
<1>2. c \in {At(x, y) : x \in 0 .. maxSize.x - 1, y \in 0 .. maxSize.y - 1}
    BY <1>1 DEF Board
<1>3. PICK x \in 0 .. maxSize.x - 1, y \in 0 .. maxSize.y - 1 : c = At(x, y)
    BY <1>2
<1>4. maxSize.x \in Nat /\ maxSize.y \in Nat
    BY <1>1 DEF Size
<1>5. c.x = x /\ c.y = y /\ c \in Coordinates /\ c.x < maxSize.x /\ c.y < maxSize.y
    BY <1>3, <1>4 DEF At, Coordinates
<1>6. undefined' = FALSE
    BY DEF setTile, IInv, Types
<1> QED
    BY <1>1, <1>5, <1>6 DEF Places, InvalidIndex

\* setTile finds its tile in allTiles, or adds it there: the pointer points to
\* it, and older ones keep what they point to.
LEMMA TileStored ==
    ASSUME IInv, NEW c \in Board, NEW items \in Items \cup {Empty}, setTile(c, items),
           ~InvalidIndex(c, items)
    PROVE  /\ Extended /\ Types' /\ Memory'
           /\ block' \in {block, block + 1}
           /\ block' # block => items # Empty /\ items \notin Range(allTiles)
           /\ items # Empty => /\ Pointer(items, block') \in Pointers
                               /\ Pointer(items, block').block = block' /\ 1 <= block'
                               /\ Pointer(items, block').at \in DOMAIN allTiles'
                               /\ allTiles'[Pointer(items, block').at] = items
<1> DEFINE pushes == items # Empty /\ ~Known(items)
           moves == pushes /\ Len(allTiles) = capacity
           n == Len(allTiles)
<1>1. /\ allTiles' = IF pushes THEN Append(allTiles, items) ELSE allTiles
      /\ block' = IF moves THEN block + 1 ELSE block
      /\ capacity' = IF moves THEN Grown(capacity) ELSE capacity
    BY DEF setTile
<1>2. /\ allTiles \in Seq(Items) /\ n \in Nat /\ DOMAIN allTiles = 1 .. n
      /\ block \in Nat /\ capacity \in Nat /\ n <= capacity /\ (block = 0 => capacity = 0)
      /\ resized \in BOOLEAN /\ calls \in Seq(Call)
    BY LenProperties DEF IInv, Types, Memory
<1>3. /\ undefined' = FALSE /\ undefined = FALSE /\ resized' = resized /\ maxSize' = maxSize
      /\ DOMAIN calls = 1 .. Len(calls) /\ DOMAIN calls' = 1 .. Len(calls) + 1
      /\ calls' \in Seq(Call) /\ Len(calls) \in Nat
      /\ calls'[Len(calls) + 1] = [c |-> c, items |-> items]
      /\ \A k \in 1 .. Len(calls) : calls'[k] = calls[k]
    BY Called, Valid
<1>4. Grown(capacity) \in Nat /\ capacity < Grown(capacity)
    BY <1>2, Grows
<1>5. Range(allTiles) = {calls[k].items : k \in Filled}
    BY <1>3 DEF IInv, Memory
<1>6. Filled' = IF items = Empty THEN Filled ELSE Filled \cup {Len(calls) + 1}
    BY Lasting
<1>7. {calls'[k].items : k \in Filled'} =
          IF items = Empty THEN Range(allTiles) ELSE Range(allTiles) \cup {items}
    <2>1. Filled \subseteq 1 .. Len(calls)
        BY <1>3 DEF Filled
    <2>2. {calls'[k].items : k \in Filled} = {calls[k].items : k \in Filled}
        BY <1>3, <2>1
    <2>3. calls'[Len(calls) + 1].items = items
        BY <1>3
    <2> QED
        BY <1>5, <1>6, <2>2, <2>3
<1> HIDE DEF n
<1>8. \A k \in 1 .. Len(calls) : k \in 1 .. Len(calls) + 1
    BY <1>3
<1>9. CASE pushes
    <2>1. items \in Items /\ items # Empty
        BY <1>9
    <2>2. /\ allTiles' \in Seq(Items) /\ Len(allTiles') = n + 1 /\ allTiles'[n + 1] = items
          /\ \A i \in 1 .. n : allTiles'[i] = allTiles[i]
          /\ DOMAIN allTiles' = 1 .. n + 1 /\ Range(allTiles') = Range(allTiles) \cup {items}
        <3>1. allTiles' = Append(allTiles, items)
            BY <1>1, <1>9
        <3>2. allTiles \in Seq(Items) /\ items \in Items
            BY <1>2, <2>1
        <3> HIDE DEF pushes, moves
        <3> QED
            BY ONLY <3>1, <3>2, Pushed DEF n
    <2>3. /\ capacity' \in Nat /\ n + 1 <= capacity' /\ block' \in {block, block + 1}
          /\ block' \in Nat /\ 1 <= block'
        <3>1. CASE moves
            BY <1>1, <1>2, <1>4, <3>1 DEF n
        <3>2. CASE ~moves
            <4>1. n < capacity
                <5>1. n # capacity
                    BY <1>9, <3>2 DEF n
                <5> QED
                    BY <1>2, <5>1
            <4> QED
                BY <1>1, <1>2, <3>2, <4>1
        <3> QED
            BY <3>1, <3>2
    <2>4. Types'
        BY <1>2, <1>3, <2>2, <2>3 DEF Types, IInv
    <2>5. Memory'
        <3>1. Range(allTiles') = {calls'[k].items : k \in Filled'}
            BY <1>7, <2>1, <2>2
        <3>2. Len(allTiles') <= capacity' /\ block' # 0
            BY <2>2, <2>3
        <3> QED
            BY <3>1, <3>2 DEF Memory
    <2>6. Extended
        <3>1. \A i \in 1 .. n : i \in 1 .. n + 1
            BY <1>2
        <3> QED
            BY <1>2, <1>3, <1>8, <2>2, <3>1 DEF Extended
    <2>7. Pointer(items, block') = [block |-> block', at |-> n + 1]
        BY <1>9, <2>1 DEF Pointer, n
    <2>8. items \notin Range(allTiles)
        BY <1>9 DEF Known
    <2>9. n + 1 \in 1 .. n + 1 /\ n + 1 \in Nat
        BY <1>2
    <2> DEFINE tile == Pointer(items, block')
    <2>10. tile \in Pointers /\ tile.block = block' /\ tile.at = n + 1
        BY <2>3, <2>7, <2>9 DEF Pointers
    <2> QED
        BY <2>1, <2>2, <2>3, <2>4, <2>5, <2>6, <2>8, <2>9, <2>10
<1>10. CASE ~pushes
    <2>1. allTiles' = allTiles /\ block' = block /\ capacity' = capacity
        BY <1>1, <1>10
    <2>2. Types'
        BY <1>2, <1>3, <2>1 DEF Types, IInv
    <2>3. items = Empty \/ items \in Range(allTiles)
        BY <1>10 DEF Known
    <2>4. Memory'
        <3>1. Range(allTiles') = {calls'[k].items : k \in Filled'}
            BY <1>7, <2>1, <2>3
        <3>2. Len(allTiles') <= capacity' /\ (block' = 0 => capacity' = 0)
            BY <1>2, <2>1 DEF n
        <3> QED
            BY <3>1, <3>2 DEF Memory
    <2>5. Extended
        BY <1>2, <1>3, <1>8, <2>1 DEF Extended
    <2>6. ASSUME items # Empty
          PROVE  /\ Pointer(items, block') \in Pointers
                 /\ Pointer(items, block').block = block' /\ 1 <= block'
                 /\ Pointer(items, block').at \in DOMAIN allTiles'
                 /\ allTiles'[Pointer(items, block').at] = items
        <3> DEFINE k == SelectInSeq(allTiles, LAMBDA t : t = items)
        <3>1. items \in Range(allTiles)
            BY <2>3, <2>6
        <3>2. k \in 1 .. n /\ allTiles[k] = items
            BY <1>2, <3>1, Found DEF n
        <3>3. Pointer(items, block') = [block |-> block', at |-> k]
            BY <2>6, <3>1 DEF Pointer, Known
        <3> HIDE DEF k
        <3>4. 1 <= block'
            BY <1>2, <2>1, <3>2
        <3> DEFINE tile == Pointer(items, block')
        <3>5. tile \in Pointers /\ tile.block = block' /\ tile.at = k
            BY <1>2, <2>1, <3>2, <3>3 DEF Pointers
        <3> QED
            BY <1>2, <2>1, <3>2, <3>4, <3>5
    <2> QED
        BY <2>1, <2>2, <2>4, <2>5, <2>6
<1> QED
    BY <1>9, <1>10

\* A pointer stays what it was for its call; only a list of items that is new
\* takes its block of memory from it.
LEMMA PointsKept ==
    ASSUME IInv, NEW c \in Board, NEW items \in Items \cup {Empty}, setTile(c, items),
           ~InvalidIndex(c, items), NEW pointer, NEW n \in DOMAIN calls, Points(pointer, n)
    PROVE  Points(pointer, n)'
<1>1. /\ Extended /\ block' \in {block, block + 1} /\ block \in Nat
      /\ block' # block => items # Empty /\ items \notin Range(allTiles)
    BY TileStored DEF IInv, Types
<1>2. calls'[n] = calls[n] /\ (NewAfter(n) => NewAfter(n)')
    BY <1>1, Lasting DEF Extended
<1>3. CASE calls[n].items = Empty
    <2>1. pointer = emptyTile /\ calls'[n].items = Empty
        BY <1>1, <1>3 DEF Points, Extended
    <2> QED
        BY <2>1 DEF Points
<1>4. CASE calls[n].items # Empty
    <2>1. /\ pointer.block \in 1 .. block /\ pointer.at \in DOMAIN allTiles
          /\ allTiles[pointer.at] = calls[n].items
          /\ ~NewAfter(n) => pointer.block = block
        BY <1>4 DEF Points
    <2>2. /\ pointer.at \in DOMAIN allTiles' /\ calls'[n] = calls[n]
          /\ allTiles'[pointer.at] = calls'[n].items
        BY <1>1, <2>1 DEF Extended
    <2>3. pointer.block \in 1 .. block'
        BY <1>1, <2>1
    <2>4. ASSUME ~NewAfter(n)' PROVE pointer.block = block'
        <3>1. pointer.block = block
            BY <2>1, <2>4, Lasting
        <3>2. ASSUME block' # block PROVE FALSE
            <4>1. items # Empty /\ items \notin Range(allTiles)
                BY <1>1, <3>2
            <4>2. /\ Len(calls) \in Nat /\ DOMAIN calls = 1 .. Len(calls)
                  /\ calls' \in Seq(Call) /\ DOMAIN calls' = 1 .. Len(calls) + 1
                  /\ calls'[Len(calls) + 1].items = items
                  /\ \A k \in 1 .. Len(calls) : calls'[k] = calls[k]
                  /\ undefined = FALSE
                <5> DEFINE call == calls'[Len(calls) + 1]
                <5>1. call = [c |-> c, items |-> items]
                    BY Called
                <5> HIDE DEF call
                <5>2. call.items = items
                    BY <5>1
                <5> QED
                    BY <5>2, Called DEF call
            <4>3. Len(calls') = Len(calls) + 1
                BY <4>2, LenProperties
            <4>4. \A k \in 1 .. Len(calls) : calls[k].items # items
                BY <4>1, <4>2 DEF IInv, Memory, Filled
            <4>5. Len(calls) + 1 \in n + 1 .. Len(calls) + 1
                BY <4>2
            <4>6. \A k \in 1 .. (Len(calls) + 1) - 1 : calls'[k].items # items
                BY <4>2, <4>4
            <4>7. NewAfter(n)'
                BY <4>1, <4>2, <4>3, <4>5, <4>6 DEF NewAfter
            <4> QED
                BY <2>4, <4>7
        <3> QED
            BY <3>1, <3>2
    <2> QED
        BY <1>4, <2>2, <2>3, <2>4 DEF Points
<1> QED
    BY <1>3, <1>4

\* setTile stores the tile at the place of its call.
LEMMA PlacesStep ==
    ASSUME IInv, NEW c \in Board, NEW items \in Items \cup {Empty}, setTile(c, items),
           ~InvalidIndex(c, items)
    PROVE  OnBoard' /\ PlacesInv'
<1>1. PICK index, tile, L : /\ index = PlaceIndex(maxSize, c)
                            /\ tile = Pointer(items, block')
                            /\ L = Len(calls)
    OBVIOUS
<1> DEFINE D == DOMAIN allTilePlaces \cup 0 .. index
           all == Resized(allTilePlaces, index, NewPlace)
           here == [tile |-> tile, at |-> c]
<1>2. /\ maxSize \in Size /\ c \in Places(maxSize) /\ undefined' = FALSE /\ undefined = FALSE
      /\ resized' = resized /\ maxSize' = maxSize
    BY Valid, Called
<1>3. /\ L \in Nat /\ DOMAIN calls = 1 .. L /\ DOMAIN calls' = 1 .. L + 1
      /\ calls'[L + 1] = [c |-> c, items |-> items]
      /\ \A n \in 1 .. L : calls'[n] = calls[n]
    BY <1>1, Called
<1>4. calls'[L + 1].c = c /\ calls'[L + 1].items = items
    BY <1>3
<1>5. LastCalls' = {n \in LastCalls : calls[n].c # c} \cup {L + 1}
    BY <1>1, Lasting
<1>6. LastCalls \subseteq 1 .. L
    BY <1>3 DEF LastCalls
<1>7. allTilePlaces' = [all EXCEPT ![index] = here]
    BY <1>1, <1>2 DEF setTile
<1>8. here.at = c /\ here.tile = tile
    OBVIOUS
<1>9. Points(tile, L + 1)'
    <2>1. items = Empty => tile = emptyTile
        BY <1>1 DEF Pointer
    <2>2. items # Empty =>
              /\ tile.block = block' /\ 1 <= block' /\ tile.at \in DOMAIN allTiles'
              /\ allTiles'[tile.at] = items
        BY <1>1, TileStored
    <2>3. block' \in Nat
        BY TileStored DEF Types
    <2>4. items # Empty => tile.block \in 1 .. block'
        BY <2>2, <2>3
    <2> QED
        BY <1>4, <2>1, <2>2, <2>4 DEF Points
<1>10. index \in Nat
    <2>1. c.x \in Nat /\ c.y \in Nat /\ maxSize.y \in Nat
        BY <1>2 DEF Places, Coordinates, Size
    <2>2. c.x * maxSize.y \in Nat
        BY <2>1
    <2> QED
        BY <1>1, <2>1, <2>2 DEF PlaceIndex
<1> HIDE DEF here
<1>11. ASSUME ~resized, NEW n \in 1 .. L PROVE calls[n].c \in Places(maxSize)
    <2>1. calls # <<>>
        BY <1>3, <1>11
    <2> QED
        BY <1>2, <1>3, <1>11, <2>1 DEF IInv, OnBoard
<1>12. OnBoard'
    <2> SUFFICES ASSUME ~resized, NEW n \in 1 .. L + 1 PROVE calls'[n].c \in Places(maxSize)
        BY <1>2, <1>3 DEF OnBoard
    <2>1. CASE n = L + 1
        BY <1>2, <1>4, <2>1
    <2>2. CASE n # L + 1
        <3>1. n \in 1 .. L
            BY <1>3, <2>2
        <3> QED
            BY <1>3, <1>11, <3>1
    <2> QED
        BY <2>1, <2>2
<1>13. ASSUME ~resized, NEW n \in LastCalls, calls[n].c # c
       PROVE  PlaceIndex(maxSize, calls[n].c) # index
    BY <1>1, <1>2, <1>6, <1>11, <1>13, PlacesDistinct
<1>14. all = [i \in D |-> IF i \in DOMAIN allTilePlaces THEN allTilePlaces[i] ELSE NewPlace]
    BY DEF Resized
<1>15. index \in D
    BY <1>10
<1> HIDE DEF D, all
<1>16. /\ DOMAIN allTilePlaces' = D /\ allTilePlaces'[index] = here
       /\ \A i \in D : i # index =>
              allTilePlaces'[i] = IF i \in DOMAIN allTilePlaces THEN allTilePlaces[i]
                                  ELSE NewPlace
    BY <1>7, <1>14, <1>15
<1>17. \A i \in DOMAIN allTilePlaces : i \in D
    BY DEF D
<1>18. ASSUME ~resized, NEW n \in LastCalls', NEW i, i = PlaceIndex(maxSize, calls'[n].c)
       PROVE  /\ i \in D /\ allTilePlaces'[i].at = calls'[n].c
              /\ Points(allTilePlaces[i].tile, n)'
    <2>1. CASE n = L + 1
        <3>1. i = index
            BY <1>1, <1>4, <1>18, <2>1
        <3>2. allTilePlaces'[i].at = calls'[n].c /\ allTilePlaces'[i].tile = tile
            BY <1>4, <1>8, <1>16, <2>1, <3>1
        <3>3. Points(tile, n)'
            BY <1>9, <2>1 DEF Points, NewAfter
        <3>4. Points(allTilePlaces[i].tile, n)'
            BY <3>2, <3>3 DEF Points
        <3> QED
            BY <1>15, <3>1, <3>2, <3>4
    <2>2. CASE n # L + 1
        <3>1. n \in LastCalls /\ calls[n].c # c /\ n \in 1 .. L /\ calls'[n] = calls[n]
            BY <1>3, <1>5, <1>6, <1>18, <2>2
        <3>2. i # index
            BY <1>13, <1>18, <3>1
        <3>3. /\ i \in DOMAIN allTilePlaces /\ allTilePlaces[i].at = calls[n].c
              /\ Points(allTilePlaces[i].tile, n)
            BY <1>2, <1>18, <3>1 DEF IInv, PlacesInv
        <3>4. PICK old : old = allTilePlaces[i].tile
            OBVIOUS
        <3>5. Points(old, n)
            BY <3>3, <3>4
        <3>6. Points(old, n)'
            BY <1>3, <3>1, <3>5, PointsKept
        <3>7. allTilePlaces'[i] = allTilePlaces[i] /\ i \in D
            BY <1>16, <1>17, <3>2, <3>3
        <3>8. allTilePlaces'[i].tile = old
            BY <3>4, <3>7
        <3>9. Points(allTilePlaces[i].tile, n)'
            BY <3>6, <3>8 DEF Points
        <3> QED
            BY <3>1, <3>3, <3>7, <3>9
    <2> QED
        BY <2>1, <2>2
<1>19. ASSUME ~resized, NEW i \in D
       PROVE  \/ allTilePlaces'[i].tile = NULL
              \/ \E n \in LastCalls' : i = PlaceIndex(maxSize, calls'[n].c)
    <2>1. CASE i = index
        BY <1>1, <1>2, <1>4, <1>5, <2>1
    <2>2. CASE i # index /\ i \notin DOMAIN allTilePlaces
        BY <1>16, <2>2 DEF NewPlace
    <2>3. CASE i # index /\ i \in DOMAIN allTilePlaces
        <3>1. allTilePlaces'[i] = allTilePlaces[i]
            BY <1>16, <2>3
        <3>2. CASE allTilePlaces[i].tile = NULL
            BY <3>1, <3>2
        <3>3. CASE \E n \in LastCalls : i = PlaceIndex(maxSize, calls[n].c)
            <4>1. PICK n \in LastCalls : i = PlaceIndex(maxSize, calls[n].c)
                BY <3>3
            <4>2. calls[n].c # c
                BY <1>1, <2>3, <4>1
            <4>3. n \in LastCalls' /\ calls'[n] = calls[n]
                BY <1>3, <1>5, <1>6, <4>2
            <4> QED
                BY <4>1, <4>3
        <3> QED
            BY <1>2, <1>19, <2>3, <3>2, <3>3 DEF IInv, PlacesInv
    <2> QED
        BY <2>1, <2>2, <2>3
<1>20. PlacesInv'
    BY <1>2, <1>16, <1>18, <1>19 DEF PlacesInv
<1> QED
    BY <1>12, <1>20

\* setTile adds its tile to the six corners around it.
LEMMA VillagesStep ==
    ASSUME IInv, NEW c \in Board, NEW items \in Items \cup {Empty}, setTile(c, items),
           ~InvalidIndex(c, items)
    PROVE  VillagesInv'
<1>1. PICK tile, L : tile = Pointer(items, block') /\ L = Len(calls)
    OBVIOUS
<1>2. /\ maxSize \in Size /\ c \in Places(maxSize) /\ undefined' = FALSE /\ undefined = FALSE
      /\ resized' = resized /\ maxSize' = maxSize /\ maxSize # Unset
    BY Valid, Called DEF InvalidIndex
<1>3. /\ L \in Nat /\ DOMAIN calls = 1 .. L /\ DOMAIN calls' = 1 .. L + 1
      /\ calls'[L + 1] = [c |-> c, items |-> items]
      /\ \A n \in 1 .. L : calls'[n] = calls[n]
    BY <1>1, Called
<1>4. calls'[L + 1].c = c /\ calls'[L + 1].items = items
    BY <1>3
<1>5. Filled' = IF items = Empty THEN Filled ELSE Filled \cup {L + 1}
    BY <1>1, Lasting
<1>6. Filled \subseteq 1 .. L /\ L + 1 \notin 1 .. L
    BY <1>3 DEF Filled
<1>7. villages' = IF items = Empty THEN villages ELSE VillagesWith(c, tile)
    BY <1>1, <1>2 DEF setTile
<1>8. Extended /\ PointersKept
    BY TileStored, PointsKept DEF PointersKept
<1>9. ASSUME NEW v
      PROVE  /\ Around(v) \subseteq DOMAIN calls
             /\ Around(v)' = IF items # Empty /\ v \in Range(Corners(c))
                             THEN Around(v) \cup {L + 1} ELSE Around(v)
    <2>1. \A n : n \in Around(v) <=> n \in Filled /\ v \in Range(Corners(calls[n].c))
        BY DEF Around
    <2>2. \A n : n \in Around(v)' <=> n \in Filled' /\ v \in Range(Corners(calls'[n].c))
        BY DEF Around
    <2>3. \A n \in Filled : Corners(calls'[n].c) = Corners(calls[n].c)
        BY <1>3, <1>6
    <2>4. \A n : n \in Filled' <=> n \in Filled \/ (items # Empty /\ n = L + 1)
        BY <1>5
    <2>5. Corners(calls'[L + 1].c) = Corners(c)
        BY <1>4
    <2>6. \A n : n \in Around(v)' <=>
                     n \in Around(v) \/ (items # Empty /\ n = L + 1 /\ v \in Range(Corners(c)))
        BY <1>6, <2>1, <2>2, <2>3, <2>4, <2>5
    <2>7. Around(v) \subseteq DOMAIN calls
        BY <1>3, <1>6, <2>1
    <2>8. CASE items # Empty /\ v \in Range(Corners(c))
        <3>1. \A n : n \in Around(v)' <=> n \in Around(v) \cup {L + 1}
            BY <2>6, <2>8
        <3> QED
            BY <2>7, <2>8, <3>1
    <2>9. CASE ~(items # Empty /\ v \in Range(Corners(c)))
        <3>1. \A n : n \in Around(v)' <=> n \in Around(v)
            BY <2>6, <2>9
        <3> QED
            BY <2>7, <2>9, <3>1
    <2> QED
        BY <2>8, <2>9
<1> SUFFICES ASSUME ~resized PROVE VillagesInv'
    BY <1>2 DEF VillagesInv
<1>10. /\ villages \in Villages
       /\ \A v \in CornersOf(maxSize) :
              ListsIn(Tiles(villages, VillageIndex(maxSize, v)), Around(v))
    BY <1>2 DEF IInv, VillagesInv
<1>11. CASE items = Empty
    <2>1. villages' = villages
        BY <1>7, <1>11
    <2>2. ASSUME NEW v \in CornersOf(maxSize)
          PROVE  ListsIn(Tiles(villages, VillageIndex(maxSize, v)), Around(v))'
        <3>1. PICK tiles, chosen : /\ tiles = Tiles(villages, VillageIndex(maxSize, v))
                                   /\ chosen = Around(v)
            OBVIOUS
        <3>2. ListsIn(tiles, chosen) /\ chosen \subseteq DOMAIN calls
            BY <1>9, <1>10, <3>1
        <3>3. ListsIn(tiles, chosen)'
            BY <1>8, <3>2, ListsKept
        <3>4. tiles = Tiles(villages', VillageIndex(maxSize', v)) /\ chosen = Around(v)'
            BY <1>2, <1>9, <1>11, <2>1, <3>1
        <3> QED
            BY <3>3, <3>4 DEF ListsIn, Points
    <2> QED
        BY <1>2, <1>10, <2>1, <2>2 DEF VillagesInv
<1>12. CASE items # Empty
    <2>1. /\ tile \in Pointers /\ tile.at \in DOMAIN allTiles' /\ allTiles'[tile.at] = items
          /\ tile.block = block' /\ 1 <= block' /\ block' \in Nat
        BY <1>1, <1>12, TileStored DEF Types
    <2>2. /\ villages' \in Villages
          /\ \A v \in CornersOf(maxSize) :
                 Tiles(villages', VillageIndex(maxSize, v)) =
                     IF v \in Range(Corners(c))
                     THEN Append(Tiles(villages, VillageIndex(maxSize, v)), tile)
                     ELSE Tiles(villages, VillageIndex(maxSize, v))
        BY <1>2, <1>7, <1>10, <1>12, <2>1, SixVillages
    <2>3. ASSUME NEW v \in CornersOf(maxSize)
          PROVE  ListsIn(Tiles(villages, VillageIndex(maxSize, v)), Around(v))'
        <3>1. PICK tiles, chosen : /\ tiles = Tiles(villages, VillageIndex(maxSize, v))
                                   /\ chosen = Around(v)
            OBVIOUS
        <3>2. ListsIn(tiles, chosen) /\ chosen \subseteq DOMAIN calls
            BY <1>9, <1>10, <3>1
        <3>3. CASE v \in Range(Corners(c))
            <4>1. L + 1 \in DOMAIN calls' /\ \A n \in DOMAIN calls : n < L + 1
                BY <1>3
            <4>2. PICK m : m = L + 1
                OBVIOUS
            <4>3. /\ m \in DOMAIN calls' /\ \A n \in DOMAIN calls : n < m
                  /\ allTiles'[tile.at] = calls'[m].items /\ calls'[m].items # Empty
                BY <1>4, <1>12, <2>1, <4>1, <4>2
            <4>9. tile.block \in 1 .. block'
                BY <2>1
            <4>10. Points(tile, m)'
                BY <2>1, <4>3, <4>9 DEF Points
            <4>4. ListsIn(Append(tiles, tile), chosen \cup {m})'
                BY <1>8, <2>1, <3>2, <4>3, <4>10, ListsMore
            <4>5. PICK tiles2, chosen2 : tiles2 = Append(tiles, tile) /\ chosen2 = chosen \cup {m}
                OBVIOUS
            <4>6. ListsIn(tiles2, chosen2)'
                BY <4>4, <4>5 DEF ListsIn, Points
            <4>7. tiles2 = Tiles(villages', VillageIndex(maxSize', v)) /\ chosen2 = Around(v)'
                BY <1>2, <1>9, <1>12, <2>2, <3>1, <3>3, <4>2, <4>5
            <4> QED
                BY <4>6, <4>7 DEF ListsIn, Points
        <3>4. CASE v \notin Range(Corners(c))
            <4>1. ListsIn(tiles, chosen)'
                BY <1>8, <3>2, ListsKept
            <4>2. tiles = Tiles(villages', VillageIndex(maxSize', v)) /\ chosen = Around(v)'
                BY <1>2, <1>9, <2>2, <3>1, <3>4
            <4> QED
                BY <4>1, <4>2 DEF ListsIn, Points
        <3> QED
            BY <3>3, <3>4
    <2> QED
        BY <1>2, <2>2, <2>3 DEF VillagesInv
<1> QED
    BY <1>11, <1>12

\* setTile adds the six sides of its tile.
LEMMA StreetsStep ==
    ASSUME IInv, NEW c \in Board, NEW items \in Items \cup {Empty}, setTile(c, items),
           ~InvalidIndex(c, items)
    PROVE  StreetsInv'
<1>1. PICK L : L = Len(calls)
    OBVIOUS
<1>2. /\ maxSize \in Size /\ c \in Places(maxSize) /\ undefined' = FALSE /\ undefined = FALSE
      /\ resized' = resized /\ maxSize' = maxSize /\ maxSize # Unset
    BY Valid, Called DEF InvalidIndex
<1>3. /\ L \in Nat /\ DOMAIN calls = 1 .. L
      /\ calls'[L + 1] = [c |-> c, items |-> items]
      /\ \A n \in 1 .. L : calls'[n] = calls[n]
    BY <1>1, Called
<1>4. calls'[L + 1].c = c
    BY <1>3
<1>5. Filled' = IF items = Empty THEN Filled ELSE Filled \cup {L + 1}
    BY <1>1, Lasting
<1>6. Filled \subseteq 1 .. L
    BY <1>3 DEF Filled
<1> SUFFICES ASSUME ~resized PROVE StreetsInv'
    BY <1>2 DEF StreetsInv
<1>7. /\ streets \in Streets /\ Ordered(streets)
      /\ \A s : s \in StreetsIn(streets) <=> \E n \in Filled : s \in Range(Sides(calls[n].c))
    BY <1>2 DEF IInv, StreetsInv
<1>8. \A n \in Filled : Sides(calls'[n].c) = Sides(calls[n].c)
    BY <1>3, <1>6
<1>9. CASE items = Empty
    <2>1. streets' = streets /\ Filled' = Filled
        BY <1>2, <1>5, <1>9 DEF setTile
    <2>2. \A s : s \in StreetsIn(streets') <=>
                    \E n \in Filled' : s \in Range(Sides(calls'[n].c))
        BY <1>7, <1>8, <2>1
    <2>3. Ordered(streets)'
        BY <1>2, <1>7, <2>1 DEF Ordered
    <2> QED
        BY <1>7, <2>1, <2>2, <2>3 DEF StreetsInv
<1>10. CASE items # Empty
    <2>1. streets' = StreetsWith(c) /\ Filled' = Filled \cup {L + 1}
        BY <1>2, <1>5, <1>10 DEF setTile
    <2>2. /\ StreetsWith(c) \in Streets /\ Ordered(StreetsWith(c))
          /\ StreetsIn(StreetsWith(c)) = StreetsIn(streets) \cup Range(Sides(c))
        BY <1>2, <1>7, <1>10, Valid, SixStreets
    <2>3. \A s : s \in StreetsIn(streets') <=>
                    s \in StreetsIn(streets) \/ s \in Range(Sides(c))
        BY <2>1, <2>2
    <2>4. Sides(calls'[L + 1].c) = Sides(c)
        BY <1>4
    <2>5. \A s : s \in StreetsIn(streets') <=>
                    \E n \in Filled' : s \in Range(Sides(calls'[n].c))
        BY <1>7, <1>8, <2>1, <2>3, <2>4
    <2>6. Ordered(streets)'
        BY <1>2, <2>1, <2>2 DEF Ordered
    <2> QED
        BY <2>1, <2>2, <2>5, <2>6 DEF StreetsInv
<1> QED
    BY <1>9, <1>10

\* An invalid index is allowed for at 0, 0 only.
LEMMA InvalidStep ==
    ASSUME IInv, NEW c \in Board, NEW items \in Items \cup {Empty}, setTile(c, items),
           InvalidIndex(c, items)
    PROVE  IInv'
<1>1. /\ undefined' = TRUE /\ UNCHANGED <<maxSize, allTiles, block, capacity, resized>>
    BY DEF setTile
<1>2. /\ calls' \in Seq(Call) /\ DOMAIN calls' = 1 .. Len(calls) + 1 /\ Len(calls) \in Nat
      /\ calls'[Len(calls) + 1] = [c |-> c, items |-> items] /\ c \in Coordinates
    BY Called
<1>3. Types' /\ Memory'
    BY <1>1, <1>2 DEF IInv, Types, Memory
<1>4. Fresh' /\ Lasts'
    BY Lasting
<1>5. OnBoard' /\ PlacesInv' /\ VillagesInv' /\ StreetsInv'
    BY <1>1 DEF OnBoard, PlacesInv, VillagesInv, StreetsInv
<1>6. UndefinedOnlyAtOrigin'
    <2> SUFFICES ASSUME maxSize # Unset
                 PROVE  \E n \in DOMAIN calls' : /\ calls'[n].c = At(0, 0)
                                                 /\ calls'[n].items # Empty
        BY <1>1 DEF UndefinedOnlyAtOrigin
    <2>1. items # Empty /\ \E n \in 1 .. 6 : StreetIndex(maxSize, Sides(c)[n]) < 0
        BY DEF InvalidIndex
    <2>2. c = At(0, 0)
        BY <1>2, <2>1, SidesNotNegative DEF IInv, Types
    <2>3. Len(calls) + 1 \in DOMAIN calls'
        BY <1>2
    <2> QED
        BY <1>2, <2>1, <2>2, <2>3
<1> QED
    BY <1>3, <1>4, <1>5, <1>6 DEF IInv

\* Every step keeps the invariant.
LEMMA NextIInv == IInv /\ [Next]_vars => IInv'
<1> SUFFICES ASSUME IInv, [Next]_vars PROVE IInv'
    OBVIOUS
<1>1. ASSUME NEW size \in Sizes, setMaxSize(size) PROVE IInv'
    BY <1>1, SetMaxSizeStep
<1>2. ASSUME NEW c \in Board, NEW items \in Items \cup {Empty}, setTile(c, items)
      PROVE  IInv'
    <2>1. CASE InvalidIndex(c, items)
        BY <1>2, <2>1, InvalidStep
    <2>2. CASE ~InvalidIndex(c, items)
        <3>1. Types' /\ Memory' /\ Fresh' /\ Lasts'
            BY <1>2, <2>2, TileStored, Lasting
        <3>2. OnBoard' /\ PlacesInv' /\ VillagesInv' /\ StreetsInv'
            BY <1>2, <2>2, PlacesStep, VillagesStep, StreetsStep
        <3>3. UndefinedOnlyAtOrigin'
            BY <1>2, <2>2, Valid DEF UndefinedOnlyAtOrigin
        <3> QED
            BY <3>1, <3>2, <3>3 DEF IInv
    <2> QED
        BY <2>1, <2>2
<1>3. CASE UNCHANGED vars
    <2>1. /\ UNCHANGED <<maxSize, allTiles, block, capacity, allTilePlaces, villages, streets>>
          /\ UNCHANGED <<undefined, calls, resized>>
        BY <1>3 DEF vars
    <2>2. /\ Types' /\ Memory' /\ Fresh' /\ OnBoard' /\ Lasts' /\ UndefinedOnlyAtOrigin'
        BY <2>1 DEF IInv, Types, Memory, Fresh, OnBoard, Lasts, LastCalls, Filled,
                    UndefinedOnlyAtOrigin
    <2>3. PlacesInv'
        BY <2>1 DEF IInv, PlacesInv, LastCalls, Points, NewAfter
    <2>4. VillagesInv'
        <3>1. ASSUME NEW tiles, NEW chosen, ListsIn(tiles, chosen) PROVE ListsIn(tiles, chosen)'
            BY <2>1, <3>1, ListsSame
        <3>2. \A v : Around(v)' = Around(v)
            BY <2>1 DEF Around, Filled
        <3> QED
            BY <2>1, <3>1, <3>2 DEF IInv, VillagesInv
    <2>5. StreetsInv'
        BY <2>1 DEF IInv, StreetsInv, Filled, Ordered
    <2> QED
        BY <2>2, <2>3, <2>4, <2>5 DEF IInv
<1> QED
    BY <1>1, <1>2, <1>3 DEF Next

\* The invariant holds in every state.
LEMMA Invariant == Spec => []IInv
    BY InitIInv, NextIInv, PTL DEF Spec

-----------------------------------------------------------------------------
(* What the program is shown *)

LEMMA Shown ==
    ASSUME IInv, ~undefined, ~resized
    PROVE  /\ \A p \in getTiles : \E n \in LastCalls : calls[n].c = p.at /\ Points(p.tile, n)
           /\ \A n \in DOMAIN calls : \E p \in getTiles : p.at = calls[n].c
<1>1. NULL.block = 0 /\ NULL.at = 0 /\ emptyTile.block = 0 /\ emptyTile.at = 1
    BY DEF NULL, emptyTile
<1>2. ASSUME NEW p \in getTiles
      PROVE  \E n \in LastCalls : calls[n].c = p.at /\ Points(p.tile, n)
    <2>1. PICK i \in DOMAIN allTilePlaces : p = allTilePlaces[i] /\ p.tile # NULL
        BY DEF getTiles
    <2>2. PICK n \in LastCalls : i = PlaceIndex(maxSize, calls[n].c)
        BY <2>1 DEF IInv, PlacesInv
    <2>3. p.at = calls[n].c /\ Points(p.tile, n)
        BY <2>1, <2>2 DEF IInv, PlacesInv
    <2> QED
        BY <2>3
<1>3. ASSUME NEW n \in DOMAIN calls PROVE \E p \in getTiles : p.at = calls[n].c
    <2>1. PICK m \in LastCalls : calls[m].c = calls[n].c
        BY DEF IInv, Lasts
    <2>2. PICK i : i = PlaceIndex(maxSize, calls[m].c)
        OBVIOUS
    <2>3. /\ i \in DOMAIN allTilePlaces /\ allTilePlaces[i].at = calls[m].c
          /\ Points(allTilePlaces[i].tile, m)
        BY <2>1, <2>2 DEF IInv, PlacesInv
    <2>4. allTilePlaces[i].tile # NULL
        BY <1>1, <2>3 DEF Points, IInv, Types
    <2>5. allTilePlaces[i] \in getTiles
        BY <2>3, <2>4 DEF getTiles
    <2> QED
        BY <2>1, <2>3, <2>5
<1> QED
    BY <1>2, <1>3

\* On every board and after any calls: each place shows what was set there
\* last, and setTile for one place never changes another (allTilePlaces and its
\* index); a pointer into allTiles points to its items as long as the vector
\* stays where it is in memory, and it stays there until a list of items is new.
THEOREM SpecPlacesShowTheirTiles == Spec => []PlacesShowTheirTiles
<1>1. IInv => PlacesShowTheirTiles
    <2> SUFFICES ASSUME IInv, ~undefined, ~resized
                 PROVE  /\ {p.at : p \in getTiles} = {calls[n].c : n \in DOMAIN calls}
                        /\ \A p \in getTiles : \E n \in LastCalls :
                               /\ calls[n].c = p.at
                               /\ (p.tile = emptyTile) = (calls[n].items = Empty)
                               /\ Live(p.tile) => allTiles[p.tile.at] = calls[n].items
                               /\ p.tile # emptyTile /\ ~NewAfter(n) => Live(p.tile)
        BY DEF PlacesShowTheirTiles
    <2>1. LastCalls \subseteq DOMAIN calls
        BY DEF LastCalls
    <2>2. {p.at : p \in getTiles} = {calls[n].c : n \in DOMAIN calls}
        <3>1. ASSUME NEW p \in getTiles PROVE p.at \in {calls[n].c : n \in DOMAIN calls}
            BY <2>1, Shown
        <3>2. ASSUME NEW n \in DOMAIN calls PROVE calls[n].c \in {p.at : p \in getTiles}
            <4>1. PICK p \in getTiles : p.at = calls[n].c
                BY Shown
            <4> QED
                BY <4>1
        <3> QED
            BY <3>1, <3>2
    <2>3. ASSUME NEW p \in getTiles
          PROVE  \E n \in LastCalls :
                     /\ calls[n].c = p.at
                     /\ (p.tile = emptyTile) = (calls[n].items = Empty)
                     /\ Live(p.tile) => allTiles[p.tile.at] = calls[n].items
                     /\ p.tile # emptyTile /\ ~NewAfter(n) => Live(p.tile)
        <3>1. PICK n \in LastCalls : calls[n].c = p.at /\ Points(p.tile, n)
            BY Shown
        <3>2. emptyTile.block = 0 /\ block \in Nat
            BY DEF emptyTile, IInv, Types
        <3>3. p.tile = emptyTile <=> calls[n].items = Empty
            BY <3>1, <3>2 DEF Points
        <3>4. Live(p.tile) => allTiles[p.tile.at] = calls[n].items
            BY <3>1, <3>3 DEF Points, Live
        <3>5. p.tile # emptyTile /\ ~NewAfter(n) => Live(p.tile)
            BY <3>1, <3>3 DEF Points, Live
        <3> QED
            BY <3>1, <3>3, <3>4, <3>5
    <2> QED
        BY <2>2, <2>3
<1> QED
    BY <1>1, Invariant, PTL

\* What the invariant says of the pointers at a corner is what the property asks.
LEMMA ListsPointers ==
    ASSUME IInv, NEW tiles, NEW v, ListsIn(tiles, Around(v))
    PROVE  Lists(tiles, Around(v))
<1>1. PICK call \in [DOMAIN tiles -> Around(v)] :
          /\ \A k, l \in DOMAIN tiles : k < l => call[k] < call[l]
          /\ Range(call) = Around(v)
          /\ \A k \in DOMAIN tiles : Points(tiles[k], call[k])
    BY DEF ListsIn
<1>2. ASSUME NEW k \in DOMAIN tiles
      PROVE  /\ Live(tiles[k]) => allTiles[tiles[k].at] = calls[call[k]].items
             /\ ~NewAfter(call[k]) => Live(tiles[k])
    <2>1. call[k] \in Filled /\ calls[call[k]].items # Empty
        BY <1>1 DEF Around, Filled
    <2>2. /\ tiles[k].block \in 1 .. block /\ allTiles[tiles[k].at] = calls[call[k]].items
          /\ ~NewAfter(call[k]) => tiles[k].block = block
        BY <1>1, <2>1 DEF Points
    <2>3. emptyTile.block = 0 /\ block \in Nat
        BY DEF emptyTile, IInv, Types
    <2>4. tiles[k] # emptyTile
        BY <2>2, <2>3
    <2> QED
        BY <2>2, <2>4 DEF Live
<1> QED
    BY <1>1, <1>2 DEF Lists

\* On every board and after any calls with valid indices: each corner lists one
\* pointer for each tile around it, in the order in which they were set, places
\* that share a corner find the same village and no others do (addVillage); the
\* pointers set since the last list of items that was new are valid, and each
\* pointer that is valid points to what was set; the sides of the tiles that were
\* set are the streets, each in its own slot (addStreet).
THEOREM SpecCornersAndSides == Spec => []CornersAndSides
<1>1. IInv => CornersAndSides
    <2> DEFINE corners == UNION {Range(Corners(c)) : c \in Board}
    <2> SUFFICES ASSUME IInv, ~undefined, ~resized, maxSize # Unset
                 PROVE  /\ \A v \in corners :
                               IF VillageIndex(maxSize, v) \in DOMAIN villages
                               THEN Lists(villages[VillageIndex(maxSize, v)].connectingTiles,
                                          Around(v))
                               ELSE Around(v) = {}
                        /\ {s.at : s \in getStreets} =
                               UNION {Range(Sides(calls[n].c)) : n \in Filled}
                        /\ \A i \in DOMAIN streets :
                               streets[i].isInitialized =>
                                   StreetIndex(maxSize, streets[i].at) = i
        BY DEF CornersAndSides
    <2>1. maxSize \in Size /\ maxSize.x \in Nat /\ maxSize.y \in Nat
        BY DEF IInv, Types, Size
    <2>2. \A c \in Board : c \in Places(maxSize)
        <3> SUFFICES ASSUME NEW x \in 0 .. maxSize.x - 1, NEW y \in 0 .. maxSize.y - 1
                     PROVE  At(x, y) \in Places(maxSize)
            BY DEF Board
        <3> QED
            BY <2>1 DEF At, Places, Coordinates
    <2>3. ASSUME NEW v \in corners
          PROVE  IF VillageIndex(maxSize, v) \in DOMAIN villages
                 THEN Lists(villages[VillageIndex(maxSize, v)].connectingTiles, Around(v))
                 ELSE Around(v) = {}
        <3>1. PICK c \in Board : v \in Range(Corners(c))
            OBVIOUS
        <3>2. v \in CornersOf(maxSize)
            BY <2>1, <2>2, <3>1, SixCorners DEF Range
        <3>3. ListsIn(Tiles(villages, VillageIndex(maxSize, v)), Around(v))
            BY <3>2 DEF IInv, VillagesInv
        <3>6. Lists(Tiles(villages, VillageIndex(maxSize, v)), Around(v))
            BY <3>3, ListsPointers
        <3>4. CASE VillageIndex(maxSize, v) \in DOMAIN villages
            BY <3>4, <3>6 DEF Tiles
        <3>5. CASE VillageIndex(maxSize, v) \notin DOMAIN villages
            <4>1. Lists(<<>>, Around(v))
                BY <3>5, <3>6 DEF Tiles
            <4>2. DOMAIN <<>> = {}
                OBVIOUS
            <4>3. PICK call \in [{} -> Around(v)] : Range(call) = Around(v)
                BY <4>1, <4>2 DEF Lists
            <4>4. Range(call) = {}
                BY <4>3 DEF Range
            <4> QED
                BY <3>5, <4>3, <4>4
        <3> QED
            BY <3>4, <3>5
    <2>4. /\ Ordered(streets)
          /\ \A s : s \in StreetsIn(streets) <=>
                        \E n \in Filled : s \in Range(Sides(calls[n].c))
        BY DEF IInv, StreetsInv
    <2>5. {s.at : s \in getStreets} = StreetsIn(streets)
        BY DEF getStreets, StreetsIn
    <2>6. UNION {Range(Sides(calls[n].c)) : n \in Filled} = StreetsIn(streets)
        <3> DEFINE sides == UNION {Range(Sides(calls[n].c)) : n \in Filled}
        <3>1. \A s : s \in sides <=> \E n \in Filled : s \in Range(Sides(calls[n].c))
            OBVIOUS
        <3> HIDE DEF sides
        <3>2. \A s : s \in sides <=> s \in StreetsIn(streets)
            BY <2>4, <3>1
        <3>3. sides = StreetsIn(streets)
            BY <3>2
        <3> QED
            BY <3>3 DEF sides
    <2> HIDE DEF corners
    <2> QED
        BY <2>3, <2>4, <2>5, <2>6 DEF Ordered
<1> QED
    BY <1>1, Invariant, PTL

\* On every board, an index that is invalid when it is used belongs to a tile
\* set at 0, 0 (the row -1 of its first side, StreetIndex of addStreet), or to
\* a tile set before setMaxSize.
THEOREM UndefinedAtOrigin == Spec => []UndefinedOnlyAtOrigin
<1>1. IInv => UndefinedOnlyAtOrigin
    BY DEF IInv
<1> QED
    BY <1>1, Invariant, PTL
=============================================================================
