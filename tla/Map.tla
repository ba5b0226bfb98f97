-------------------------------- MODULE Map --------------------------------
(***************************************************************************)
(* The board of SiedlerServer (src/Application/SiedlerServer/Map.h):       *)
(* places, the villages at their corners and the streets at their sides,   *)
(* each kind in a vector that is indexed by a formula over coordinates and *)
(* grows on demand.  Places and villages point into the vector of tiles.   *)
(*                                                                         *)
(* A list of items is one value.  The number of a place is left out: it is *)
(* copied and never read.                                                  *)
(***************************************************************************)
EXTENDS Integers, FiniteSets, SequencesExt

CONSTANTS
    Items,          \* lists of items a tile can have
    Empty,          \* a call of setTile with isEmpty
    Sizes,          \* arguments of setMaxSize, [x, y]
    MaxCalls        \* bound: calls of setTile

ASSUME SizeAssumption == Sizes \subseteq [x : Nat \ {0}, y : Nat \ {0}]

VARIABLES
    maxSize,        \* maxSizeX and maxSizeY, Unset until setMaxSize
    allTiles,       \* the item lists of allTiles, from position 1
    block,          \* which memory block of allTiles is in use ...
    capacity,       \* ... and how many tiles it has room for
    allTilePlaces,  \* index -> place
    villages,       \* index -> village
    streets,        \* index -> street
    undefined,      \* an index or a member was invalid when it was used
    calls,          \* history: the calls of setTile
    resized         \* history: setMaxSize came after a setTile

vars == <<maxSize, allTiles, block, capacity, allTilePlaces, villages,
          streets, undefined, calls, resized>>

At(x, y) == [x |-> x, y |-> y]
Unset == At(-1, -1) \* not initialized

\* Pointers to tiles: a block of memory and a position in it.  Block 0 is where
\* nothing has been allocated yet.
emptyTile == [block |-> 0, at |-> 1]
NULL == [block |-> 0, at |-> 0]

Init ==
    /\ maxSize = Unset
    /\ allTiles = <<>>
    /\ block = 0
    /\ capacity = 0
    /\ allTilePlaces = <<>>
    /\ villages = <<>>
    /\ streets = <<>>
    /\ undefined = FALSE
    /\ calls = <<>>
    /\ resized = FALSE

-----------------------------------------------------------------------------
(* Indices *)

PlaceIndexByX(size, c) == c.x * size.x + c.y

PlaceIndex(size, c) == c.x * size.y + c.y
VillageIndexTight(size, c) == c.y * (size.x * 2) + c.x
VillageIndex(size, c) == c.y * (size.x * 2 + 2) + c.x
StreetIndex(size, c) == c.x * (size.y * 2 + 2) + c.y

\* The corners and the sides of a place, in the order of place::afterSet
Corners(c) ==
    <<At(c.x * 2, c.y), At(c.x * 2 + 1, c.y), At(c.x * 2 + 2, c.y),
      At(c.x * 2, c.y + 1), At(c.x * 2 + 1, c.y + 1), At(c.x * 2 + 2, c.y + 1)>>

SidesFromLeft(c) ==
    <<At(c.x - 1, c.y * 2 - 1), At(c.x - 1, c.y * 2), At(c.x - 1, c.y * 2 + 1),
      At(c.x, c.y * 2 - 1), At(c.x, c.y * 2), At(c.x, c.y * 2 + 1)>>

Sides(c) ==
    <<At(c.x, c.y * 2 - 1), At(c.x, c.y * 2), At(c.x, c.y * 2 + 1),
      At(c.x + 1, c.y * 2 - 1), At(c.x + 1, c.y * 2), At(c.x + 1, c.y * 2 + 1)>>

\* resize(index + 1) when the vector is shorter
Resized(vector, index, new) ==
    [i \in DOMAIN vector \cup 0 .. index |->
        IF i \in DOMAIN vector THEN vector[i] ELSE new]

-----------------------------------------------------------------------------
(* Tiles *)

\* What std::vector does when it is full: it moves to a block half as large
\* again, or just large enough.
Grown(n) == IF n \div 2 > 1 THEN n + n \div 2 ELSE n + 1

Known(items) == items \in Range(allTiles)

\* The pointer setTile stores: into the block in use after the push_back, if
\* one is needed.
Pointer(items, newBlock) ==
    IF items = Empty THEN emptyTile
    ELSE [block |-> newBlock,
          at |-> IF Known(items) THEN SelectInSeq(allTiles, LAMBDA t : t = items)
                 ELSE Len(allTiles) + 1]

-----------------------------------------------------------------------------
(* Villages and streets *)

\* The constructor of village sets isInitialized, also for the elements that
\* resize creates: the branch of addVillage that fills in x, y and index is
\* never taken.
NewPlace == [tile |-> NULL, at |-> Unset]
NewVillage == [isInitialized |-> TRUE, at |-> Unset, connectingTiles |-> <<>>]
NewStreet == [isInitialized |-> FALSE, at |-> Unset]

addVillage(vector, c, tile) ==
    LET index == VillageIndex(maxSize, c)
        all == Resized(vector, index, NewVillage)
        village == IF all[index].isInitialized THEN all[index]
                   ELSE [NewVillage EXCEPT !.at = c]
    IN  [all EXCEPT ![index] =
            [village EXCEPT !.connectingTiles = Append(@, tile)]]

addStreet(vector, c) ==
    LET index == StreetIndex(maxSize, c)
        all == Resized(vector, index, NewStreet)
    IN  IF all[index].isInitialized THEN all
        ELSE [all EXCEPT ![index] = [isInitialized |-> TRUE, at |-> c]]

\* place::afterSet: six villages, then six streets
VillagesWith(c, tile) ==
    LET add(all, n) == addVillage(all, Corners(c)[n], tile) IN
    add(add(add(add(add(add(villages, 1), 2), 3), 4), 5), 6)

StreetsWith(c) ==
    LET add(all, n) == addStreet(all, Sides(c)[n]) IN
    add(add(add(add(add(add(streets, 1), 2), 3), 4), 5), 6)

-----------------------------------------------------------------------------
(* Operations *)

setMaxSize(size) ==
    /\ ~undefined
    /\ maxSize' = size
    /\ resized' = (resized \/ (calls /= <<>> /\ size /= maxSize))
    /\ UNCHANGED <<allTiles, block, capacity, allTilePlaces, villages,
                   streets, undefined, calls>>

\* Negative indices: size() <= index compares them as huge unsigned numbers,
\* resize(index + 1) shortens the vector, and the element is outside it.
InvalidIndex(c, items) ==
    \/ maxSize = Unset
    \/ /\ items /= Empty
       /\ \E n \in 1 .. 6 : StreetIndex(maxSize, Sides(c)[n]) < 0

setTile(c, items) ==
    LET pushes == items /= Empty /\ ~Known(items)
        moves == pushes /\ Len(allTiles) = capacity
        tile == Pointer(items, IF moves THEN block + 1 ELSE block)
        index == PlaceIndex(maxSize, c)
    IN
    /\ ~undefined
    /\ Len(calls) < MaxCalls
    /\ calls' = Append(calls, [c |-> c, items |-> items])
    /\ IF InvalidIndex(c, items)
       THEN /\ undefined' = TRUE
            /\ UNCHANGED <<maxSize, allTiles, block, capacity, allTilePlaces,
                           villages, streets, resized>>
       ELSE /\ allTiles' = IF pushes THEN Append(allTiles, items) ELSE allTiles
            /\ block' = IF moves THEN block + 1 ELSE block
            /\ capacity' = IF moves THEN Grown(capacity) ELSE capacity
            /\ allTilePlaces' =
                   [Resized(allTilePlaces, index, NewPlace) EXCEPT
                       ![index] = [tile |-> tile, at |-> c]]
            /\ villages' =
                   IF items = Empty THEN villages ELSE VillagesWith(c, tile)
            /\ streets' = IF items = Empty THEN streets ELSE StreetsWith(c)
            /\ UNCHANGED <<maxSize, undefined, resized>>

\* The coordinates of the board; nothing in setTile checks them.
Board == IF maxSize = Unset THEN {At(0, 0)}
         ELSE {At(x, y) : x \in 0 .. maxSize.x - 1, y \in 0 .. maxSize.y - 1}

Next ==
    \/ \E size \in Sizes : setMaxSize(size)
    \/ \E c \in Board, items \in Items \cup {Empty} : setTile(c, items)

Spec == Init /\ [][Next]_vars

-----------------------------------------------------------------------------
(* What the program asks for *)

getTiles == {allTilePlaces[i] : i \in
                 {i \in DOMAIN allTilePlaces : allTilePlaces[i].tile /= NULL}}
getStreets == {streets[i] : i \in
                 {i \in DOMAIN streets : streets[i].isInitialized}}

-----------------------------------------------------------------------------
(* Properties *)

\* The calls that are visible on the board: the last one for each place
LastCalls == {n \in DOMAIN calls :
                 \A m \in n + 1 .. Len(calls) : calls[m].c /= calls[n].c}

\* The pointer still points into the block of memory that allTiles uses.
Live(pointer) == pointer /= emptyTile /\ pointer.block = block

\* A list of items was new to the map after call n.
NewAfter(n) ==
    \E m \in n + 1 .. Len(calls) :
        /\ calls[m].items /= Empty
        /\ \A k \in 1 .. m - 1 : calls[k].items /= calls[m].items

\* Each place shows the last tile that was set there, whatever was set
\* elsewhere, and getTiles shows no other places.  Its pointer is valid unless
\* a list of items that was new moved allTiles in memory; a valid pointer
\* points to the items it was set with.
PlacesShowTheirTiles ==
    ~undefined /\ ~resized =>
        /\ {p.at : p \in getTiles} = {calls[n].c : n \in DOMAIN calls}
        /\ \A p \in getTiles : \E n \in LastCalls :
               /\ calls[n].c = p.at
               /\ (p.tile = emptyTile) = (calls[n].items = Empty)
               /\ Live(p.tile) => allTiles[p.tile.at] = calls[n].items
               /\ p.tile /= emptyTile /\ ~NewAfter(n) => Live(p.tile)

\* The calls that set a tile which is not empty, and those at a place with corner v
Filled == {n \in DOMAIN calls : calls[n].items /= Empty}
Around(v) == {n \in Filled : v \in Range(Corners(calls[n].c))}

\* The pointers were stored by these calls, one by each, in their order, and
\* are as good as those of the places.
Lists(tiles, chosen) ==
    \E call \in [DOMAIN tiles -> chosen] :
        /\ \A k, l \in DOMAIN tiles : k < l => call[k] < call[l]
        /\ Range(call) = chosen
        /\ \A k \in DOMAIN tiles :
               /\ Live(tiles[k]) => allTiles[tiles[k].at] = calls[call[k]].items
               /\ ~NewAfter(call[k]) => Live(tiles[k])

\* Each corner of the board lists one pointer for each tile that was set at a
\* place around it, in the order of the calls.  The village keeps its pointers
\* when the push_back of a list of items that is new moves allTiles: those of
\* the calls before it may be dangling, and are never followed here; all others
\* are valid, and point to the items of their call.  The streets are the sides
\* of the places that were set, no two of them in one slot.
\* Map::setTile, addVillage and addStreet; place::afterSet
CornersAndSides ==
    ~undefined /\ ~resized /\ maxSize /= Unset =>
        LET corners == UNION {Range(Corners(c)) : c \in Board}
            tiles(v) == villages[VillageIndex(maxSize, v)].connectingTiles
        IN
        /\ \A v \in corners :
               IF VillageIndex(maxSize, v) \in DOMAIN villages
               THEN Lists(tiles(v), Around(v))
               ELSE Around(v) = {}
        /\ {s.at : s \in getStreets}
             = UNION {Range(Sides(calls[n].c)) : n \in Filled}
        /\ \A i \in DOMAIN streets :
               streets[i].isInitialized => StreetIndex(maxSize, streets[i].at) = i

\* An index is invalid only for a tile at 0, 0, whose first side is at row -1,
\* or before setMaxSize.
UndefinedOnlyAtOrigin ==
    undefined => \/ maxSize = Unset
                 \/ \E n \in DOMAIN calls : /\ calls[n].c = At(0, 0)
                                            /\ calls[n].items /= Empty
=============================================================================
