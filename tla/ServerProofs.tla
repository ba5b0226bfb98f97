---------------------------- MODULE ServerProofs ----------------------------
(***************************************************************************)
(* Proofs about Server for any clients and any number of calls: what both  *)
(* threads rely on in m_deqConnections although nothing locks it, and an   *)
(* accept may fall into an erase; and what the recursion of                *)
(* MessageAllClients has still to do at every point.                       *)
(***************************************************************************)
EXTENDS Server, FiniteSetTheorems, SequenceTheorems, TLAPS

-----------------------------------------------------------------------------
(* The invariant *)

Pointer == Clients \cup {NoClient}

FrameType == [list : Seq(Pointer), i : Nat, end : Nat, msg : Pointer, ignore : Pointer,
              phase : {"loop", "remove", "erase", "farewell"}, afterDisconectSend : Seq(Clients)]

Types ==
    /\ accepting \in Pointer /\ current \in Pointer
    /\ m_deqConnections \in Seq(Pointer)
    /\ m_qMessagesIn \in Seq(Clients)
    /\ nIDCounter \in Nat
    /\ id \in [Clients -> Nat]
    /\ open \in [Clients -> BOOLEAN]
    /\ held \subseteq Clients
    /\ stack \in Seq(FrameType)
    /\ known \subseteq Clients /\ IsFiniteSet(known) /\ raced \subseteq Clients
    /\ notified \in [Clients -> Nat] /\ direct \in [Clients -> Nat]
    /\ owed \in [Clients -> SUBSET Clients] /\ told \in [Clients -> SUBSET Clients]

\* A kept connection is in the deque once, and each open one is kept unless its
\* accept handler met an erase.
Deque ==
    /\ \A k \in 1 .. Len(m_deqConnections) : m_deqConnections[k] \in known \cup {NoClient}
    /\ \A k, m \in 1 .. Len(m_deqConnections) :
           k < m /\ m_deqConnections[k] # NoClient =>
               m_deqConnections[k] # m_deqConnections[m]
    /\ \A c \in Clients : open[c] => c \in raced \/ InSeq(c, m_deqConnections)

\* While the accept handler is between its steps, no other handler runs that
\* could close the new connection, and so no loop resets it.
Accepting ==
    accepting # NoClient /\ accepting \notin raced =>
        /\ open[accepting]
        /\ m_deqConnections # <<>>
        /\ m_deqConnections[Len(m_deqConnections)] = accepting

\* Ids are given out in the order of the deque.
Ids ==
    /\ \A c \in Clients : id[c] = 0 \/ id[c] < nIDCounter
    /\ \A c \in Clients : c \notin known => id[c] = 0
    /\ \A k, m \in 1 .. Len(m_deqConnections) :
           LET c == m_deqConnections[k]  d == m_deqConnections[m] IN
           k < m /\ c # NoClient /\ d # NoClient /\ id[d] # 0 => id[c] < id[d]

\* Only the innermost call loops, and only the outermost can be a group's.  A
\* loop stays inside its list and has not reset what it still has to visit.
Frames ==
    \A n \in 1 .. Len(stack) :
        /\ stack[n].i >= 1
        /\ n < Len(stack) => stack[n].phase = "farewell"
        /\ n > 1 => ~IsGroup(stack[n])
        /\ stack[n].phase = "loop" =>
               IF IsGroup(stack[n])
               THEN /\ stack[n].end = Len(stack[n].list)
                    /\ \A k \in stack[n].i .. stack[n].end : stack[n].list[k] # NoClient
               ELSE stack[n].end <= Len(m_deqConnections)

\* A pointer that has been reset stays in the deque until the call that reset it
\* erases it.
Resets ==
    \A k \in 1 .. Len(m_deqConnections) :
        m_deqConnections[k] = NoClient =>
            /\ stack # <<>>
            /\ Top.phase \in {"loop", "remove", "erase"}
            /\ ~IsGroup(Top) /\ Top.afterDisconectSend # <<>>
            /\ Top.phase = "loop" => k < Top.i
            /\ Top.phase = "erase" => k >= Top.i /\ k <= Top.end

\* Between remove() and erase() the positions to erase hold null pointers.  What
\* is behind them, and the connection being accepted, has met the erase, and has
\* not been promised a farewell yet.
Erases ==
    stack # <<>> /\ Top.phase = "erase" =>
        /\ Top.i <= Top.end + 1 /\ Top.end <= Len(m_deqConnections)
        /\ \A k \in Top.i .. Top.end : m_deqConnections[k] = NoClient
        /\ \A k \in Top.end + 1 .. Len(m_deqConnections) :
               m_deqConnections[k] \in raced /\ owed[m_deqConnections[k]] = {}
        /\ accepting # NoClient => accepting \in raced

\* OnClientDisconnect has been called once for each client that was dropped, unless
\* it met an erase, and else only by calls that reset a pointer of their own.
Notified ==
    \A c \in Clients :
        /\ \/ notified[c] = direct[c]
           \/ notified[c] = direct[c] + 1 /\ c \in known /\ ~InSeq(c, m_deqConnections)
        /\ c \in known /\ ~InSeq(c, m_deqConnections)
               => c \in raced \/ notified[c] = direct[c] + 1

\* The farewell of c will still get to d: a call that runs has yet to broadcast it,
\* or the loop that broadcasts it has yet to visit d.
Pending(c, d) ==
    \/ \E n \in 1 .. Len(stack) : InSeq(c, stack[n].afterDisconectSend)
    \/ /\ stack # <<>>
       /\ Top.phase = "loop" /\ ~IsGroup(Top)
       /\ Top.msg = c /\ Top.ignore = NoClient
       /\ \E k \in Top.i .. Top.end : m_deqConnections[k] = d

Farewells ==
    /\ \A d \in Clients : open[d] => \A c \in owed[d] : c \in told[d] \/ Pending(c, d)
    /\ \A d \in Clients : d \notin known => owed[d] = {}
    /\ \A d \in Clients : open[d] /\ owed[d] # {} => InSeq(d, m_deqConnections)

\* Every call below the innermost one has dropped a client, except for a group's,
\* and so has the innermost one if it has a farewell to broadcast.
Dropped == {c \in known : ~InSeq(c, m_deqConnections)}

Depth ==
    stack # <<>> =>
        Len(stack) + (IF ~IsGroup(Top) /\ Top.afterDisconectSend # <<>> THEN 1 ELSE 0)
            <= Cardinality(Dropped) + 1 + (IF IsGroup(stack[1]) THEN 1 ELSE 0)

IInv == /\ Types /\ Deque /\ Accepting /\ Ids /\ Frames /\ Resets /\ Erases /\ Notified
        /\ Farewells /\ Depth

-----------------------------------------------------------------------------
(* Lists of pointers *)

\* How many of a set of positions come up to i
Rank(P, i) == Cardinality({j \in P : j <= i})

\* Counting from the front gives each position of a set another number, and all
\* the numbers up to the size of the set.
LEMMA Ranks ==
    ASSUME NEW n \in Nat, NEW P \in SUBSET (1 .. n)
    PROVE  /\ IsFiniteSet(P) /\ Cardinality(P) \in Nat
           /\ \A i \in P : Rank(P, i) \in 1 .. Cardinality(P)
           /\ \A i, j \in P : i < j => Rank(P, i) < Rank(P, j)
           /\ \A m \in 1 .. Cardinality(P) : \E i \in P : Rank(P, i) = m
<1> DEFINE UpTo(i) == {j \in P : j <= i}
           N == Cardinality(P)
<1>1. IsFiniteSet(P) /\ N \in Nat
    <2>1. 1 \in Int /\ n \in Int
        OBVIOUS
    <2>2. IsFiniteSet(1 .. n)
        BY <2>1, FS_Interval
    <2> QED
        BY <2>2, FS_Subset, FS_CardinalityType
<1>2. ASSUME NEW i \in P
      PROVE  /\ IsFiniteSet(UpTo(i)) /\ Cardinality(UpTo(i)) \in Nat
             /\ Cardinality(UpTo(i)) <= N /\ i \in UpTo(i)
             /\ Cardinality(UpTo(i)) >= 1
    <2>1. UpTo(i) \in SUBSET P /\ i \in UpTo(i)
        OBVIOUS
    <2> HIDE DEF UpTo
    <2>2. /\ IsFiniteSet(UpTo(i)) /\ Cardinality(UpTo(i)) <= N
          /\ Cardinality(UpTo(i)) \in Nat
        BY <1>1, <2>1, FS_Subset, FS_CardinalityType
    <2>3. Cardinality(UpTo(i)) # 0
        BY <2>1, <2>2, FS_EmptySet
    <2> QED
        BY <2>1, <2>2, <2>3
<1>3. ASSUME NEW i \in P, NEW j \in P, i < j
      PROVE  Cardinality(UpTo(i)) < Cardinality(UpTo(j))
    <2>1. P \in SUBSET Nat /\ i \in Nat /\ j \in Nat
        OBVIOUS
    <2>2. UpTo(i) \in SUBSET UpTo(j)
        <3> SUFFICES ASSUME NEW k \in UpTo(i) PROVE k \in UpTo(j)
            OBVIOUS
        <3>1. k \in P /\ k <= i /\ k \in Nat
            BY <2>1
        <3>2. k <= j
            BY <1>3, <2>1, <3>1
        <3> QED
            BY <3>1, <3>2
    <2>3. j \notin UpTo(i)
        <3>1. ~(j <= i)
            BY <1>3, <2>1
        <3> QED
            BY <3>1
    <2>4. j \in UpTo(j)
        BY <1>2
    <2> HIDE DEF UpTo
    <2>5. /\ Cardinality(UpTo(i)) <= Cardinality(UpTo(j))
          /\ Cardinality(UpTo(i)) # Cardinality(UpTo(j))
        BY <1>2, <2>2, <2>3, <2>4, FS_Subset
    <2>6. Cardinality(UpTo(i)) \in Nat /\ Cardinality(UpTo(j)) \in Nat
        BY <1>2
    <2> QED
        BY <2>5, <2>6
<1>4. \A i \in P : Rank(P, i) = Cardinality(UpTo(i))
    BY DEF Rank
<1> HIDE DEF UpTo
<1>5. \A i \in P : Rank(P, i) \in 1 .. N
    <2> SUFFICES ASSUME NEW i \in P PROVE Rank(P, i) \in 1 .. N
        OBVIOUS
    <2>1. /\ Cardinality(UpTo(i)) \in Nat /\ Cardinality(UpTo(i)) <= N
          /\ Cardinality(UpTo(i)) >= 1
        BY <1>2
    <2> QED
        BY <1>1, <1>4, <2>1
<1>6. \A i, j \in P : i < j => Rank(P, i) < Rank(P, j)
    BY <1>3, <1>4
<1>7. \A m \in 1 .. N : \E i \in P : Rank(P, i) = m
    <2> DEFINE rank == [i \in P |-> Rank(P, i)]
               T == {Rank(P, i) : i \in P}
    <2>1. \A i, j \in P : Rank(P, i) = Rank(P, j) => i = j
        <3> SUFFICES ASSUME NEW i \in P, NEW j \in P, i # j
                     PROVE  Rank(P, i) # Rank(P, j)
            OBVIOUS
        <3>1. i \in Nat /\ j \in Nat
            OBVIOUS
        <3>2. i < j \/ j < i
            BY <3>1
        <3>3. Rank(P, i) \in Nat /\ Rank(P, j) \in Nat
            BY <1>5
        <3>4. Rank(P, i) < Rank(P, j) \/ Rank(P, j) < Rank(P, i)
            BY <1>6, <3>2
        <3> QED
            BY <3>3, <3>4
    <2>2. rank \in Bijection(P, T)
        <3>1. rank \in [P -> T] /\ DOMAIN rank = P
            OBVIOUS
        <3>2. \A i \in P : rank[i] = Rank(P, i)
            OBVIOUS
        <3>3. \A t \in T : \E i \in P : rank[i] = t
            BY <3>2
        <3>4. \A i, j \in P : rank[i] = rank[j] => i = j
            BY <2>1, <3>2
        <3> HIDE DEF rank, T
        <3> QED
            BY <3>1, <3>3, <3>4 DEF Bijection, Injection, Surjection, IsInjective
    <2>3. IsFiniteSet(T) /\ Cardinality(T) = N
        <3> HIDE DEF rank, T
        <3>1. ExistsBijection(P, T)
            BY <2>2 DEF ExistsBijection
        <3> QED
            BY <1>1, <3>1, FS_Bijection
    <2>4. T \in SUBSET (1 .. N)
        BY <1>5
    <2>5. IsFiniteSet(1 .. N) /\ Cardinality(1 .. N) = N
        <3>1. 1 \in Int /\ N \in Int
            BY <1>1
        <3>2. IsFiniteSet(1 .. N) /\ Cardinality(1 .. N) = IF 1 > N THEN 0 ELSE N - 1 + 1
            BY <3>1, FS_Interval
        <3> QED
            BY <1>1, <3>2
    <2>6. T = 1 .. N
        <3> HIDE DEF T, N
        <3> QED
            BY <2>3, <2>4, <2>5, FS_Subset
    <2> QED
        BY <2>6
<1> QED
    BY <1>1, <1>5, <1>6, <1>7

\* The positions remove() fills with the pointers it keeps
Places(list) == 1 .. Cardinality(Kept(list))

\* remove() moves the connections that are not null to the front, in their order.
LEMMA RemovedList ==
    ASSUME NEW list \in Seq(Pointer)
    PROVE  /\ Removed(list) \in Seq(Pointer) /\ Len(Removed(list)) = Len(list)
           /\ Cardinality(Kept(list)) \in Nat /\ Cardinality(Kept(list)) <= Len(list)
           /\ (\A k \in 1 .. Len(list) : list[k] # NoClient)
                  => Cardinality(Kept(list)) = Len(list)
           /\ \A k \in 1 .. Len(list) : k \in Places(list) <=> Removed(list)[k] # NoClient
           /\ \E at \in [Places(list) -> 1 .. Len(list)] :
                  /\ \A k \in Places(list) : Removed(list)[k] = list[at[k]]
                  /\ \A k, m \in Places(list) : k < m => at[k] < at[m]
                  /\ \A i \in 1 .. Len(list) :
                         list[i] # NoClient => \E k \in Places(list) : at[k] = i
<1> DEFINE P == Kept(list)
           N == Cardinality(P)
           nth(n) == CHOOSE i \in P : Rank(P, i) = n
           at == [n \in 1 .. N |-> nth(n)]
<1>1. Len(list) \in Nat
    OBVIOUS
<1>2. P \in SUBSET (1 .. Len(list)) /\ \A i \in 1 .. Len(list) : i \in P <=> list[i] # NoClient
    BY DEF Kept
<1> HIDE DEF P
<1>13. \A i \in P : i \in Nat
    BY <1>1, <1>2
<1>3. /\ N \in Nat
      /\ \A i \in P : Rank(P, i) \in 1 .. N
      /\ \A i, j \in P : i < j => Rank(P, i) < Rank(P, j)
      /\ \A m \in 1 .. N : \E i \in P : Rank(P, i) = m
    BY <1>1, <1>2, Ranks
<1>17. N <= Len(list)
    <2>1. 1 \in Int /\ Len(list) \in Int
        BY <1>1
    <2>2. /\ IsFiniteSet(1 .. Len(list))
          /\ Cardinality(1 .. Len(list)) = IF 1 > Len(list) THEN 0 ELSE Len(list) - 1 + 1
        BY <2>1, FS_Interval
    <2>3. Cardinality(1 .. Len(list)) = Len(list)
        BY <1>1, <2>2
    <2> QED
        BY <1>2, <2>2, <2>3, FS_Subset
<1>25. (\A k \in 1 .. Len(list) : list[k] # NoClient) => N = Len(list)
    <2> SUFFICES ASSUME \A k \in 1 .. Len(list) : list[k] # NoClient PROVE N = Len(list)
        OBVIOUS
    <2>1. P = 1 .. Len(list)
        BY <1>2
    <2>2. 1 \in Int /\ Len(list) \in Int
        BY <1>1
    <2>3. Cardinality(1 .. Len(list)) = IF 1 > Len(list) THEN 0 ELSE Len(list) - 1 + 1
        BY <2>2, FS_Interval
    <2>4. Cardinality(1 .. Len(list)) = Len(list)
        BY <1>1, <2>3
    <2> QED
        BY <2>1, <2>4
<1>4. \A n \in 1 .. N : nth(n) \in P /\ Rank(P, nth(n)) = n
    BY <1>3
<1>5. Removed(list) = [n \in 1 .. Len(list) |-> IF n <= N THEN list[nth(n)] ELSE NoClient]
    BY DEF Removed, Rank, P
<1> HIDE DEF nth, N
<1>6. \A n \in 1 .. N : list[nth(n)] \in Pointer
    <2> SUFFICES ASSUME NEW n \in 1 .. N PROVE list[nth(n)] \in Pointer
        OBVIOUS
    <2>1. nth(n) \in 1 .. Len(list)
        BY <1>2, <1>4
    <2> QED
        BY <2>1, ElementOfSeq
<1>18. NoClient \in Pointer
    BY DEF Pointer
<1>19. \A n \in 1 .. Len(list) : n <= N <=> n \in 1 .. N
    BY <1>1, <1>3
<1>7. Removed(list) \in Seq(Pointer) /\ Len(Removed(list)) = Len(list)
    <2> DEFINE e(n) == IF n <= N THEN list[nth(n)] ELSE NoClient
    <2>1. \A n \in 1 .. Len(list) : e(n) \in Pointer
        BY <1>6, <1>18, <1>19
    <2>2. Removed(list) = [n \in 1 .. Len(list) |-> e(n)]
        BY <1>5
    <2> HIDE DEF e
    <2> QED
        BY <1>1, <2>1, <2>2
<1>20. \A k \in 1 .. Len(list) : Removed(list)[k] = IF k <= N THEN list[nth(k)] ELSE NoClient
    BY <1>5
<1>8. Places(list) = 1 .. N
    BY DEF Places, N, P
<1>9. at \in [1 .. N -> 1 .. Len(list)] /\ \A n \in 1 .. N : at[n] = nth(n)
    BY <1>2, <1>4
<1>21. \A k \in 1 .. N : k \in 1 .. Len(list)
    BY <1>1, <1>3, <1>17
<1>10. \A k \in 1 .. N : Removed(list)[k] = list[at[k]] /\ list[at[k]] # NoClient
    BY <1>2, <1>4, <1>9, <1>19, <1>20, <1>21
<1>22. \A k \in 1 .. Len(list) : k \in 1 .. N <=> Removed(list)[k] # NoClient
    BY <1>10, <1>19, <1>20
<1>11. ASSUME NEW k \in 1 .. N, NEW m \in 1 .. N, k < m PROVE at[k] < at[m]
    <2>1. at[k] \in P /\ at[m] \in P /\ Rank(P, at[k]) = k /\ Rank(P, at[m]) = m
        BY <1>4, <1>9
    <2>2. at[k] \in Nat /\ at[m] \in Nat
        BY <1>13, <2>1
    <2>3. ~(at[m] < at[k]) /\ at[k] # at[m]
        BY <1>3, <1>11, <2>1
    <2> QED
        BY <2>2, <2>3
<1>12. ASSUME NEW i \in 1 .. Len(list), list[i] # NoClient
       PROVE  \E k \in 1 .. N : at[k] = i
    <2>1. i \in P /\ Rank(P, i) \in 1 .. N
        BY <1>2, <1>3, <1>12
    <2> DEFINE k == Rank(P, i)
    <2>2. at[k] \in P /\ Rank(P, at[k]) = k
        BY <1>4, <1>9, <2>1
    <2>6. ~(Rank(P, at[k]) < Rank(P, i)) /\ ~(Rank(P, i) < Rank(P, at[k]))
        BY <1>3, <2>1, <2>2
    <2>3. ~(at[k] < i) /\ ~(i < at[k])
        <3> HIDE DEF k, at
        <3> QED
            BY <1>3, <2>1, <2>2, <2>6
    <2>4. at[k] \in Nat /\ i \in Nat
        BY <1>13, <2>1, <2>2
    <2>5. at[k] = i
        BY <2>3, <2>4
    <2> QED
        BY <2>1, <2>5
<1> HIDE DEF at
<1>15. at \in [Places(list) -> 1 .. Len(list)]
    BY <1>8, <1>9
<1>16. \E f \in [Places(list) -> 1 .. Len(list)] :
           /\ \A k \in Places(list) : Removed(list)[k] = list[f[k]]
           /\ \A k, m \in Places(list) : k < m => f[k] < f[m]
           /\ \A i \in 1 .. Len(list) : list[i] # NoClient => \E k \in Places(list) : f[k] = i
    <2>1. /\ \A k \in Places(list) : Removed(list)[k] = list[at[k]]
          /\ \A k, m \in Places(list) : k < m => at[k] < at[m]
          /\ \A i \in 1 .. Len(list) : list[i] # NoClient => \E k \in Places(list) : at[k] = i
        BY <1>8, <1>10, <1>11, <1>12
    <2> USE <1>15
    <2> WITNESS at \in [Places(list) -> 1 .. Len(list)]
    <2> QED
        BY ONLY <2>1
<1>23. \A k \in 1 .. Len(list) : k \in Places(list) <=> Removed(list)[k] # NoClient
    BY <1>8, <1>22
<1>24. /\ Cardinality(Kept(list)) \in Nat /\ Cardinality(Kept(list)) <= Len(list)
       /\ (\A k \in 1 .. Len(list) : list[k] # NoClient)
              => Cardinality(Kept(list)) = Len(list)
    BY <1>3, <1>17, <1>25 DEF N, P
<1> QED
    BY ONLY <1>7, <1>16, <1>23, <1>24

-----------------------------------------------------------------------------
(* What the steps have in common *)

LEMMA InitIInv == Init => IInv
<1> SUFFICES ASSUME Init PROVE IInv
    OBVIOUS
<1> USE ClientAssumption, BoundAssumption
<1>1. stack = <<>> /\ m_deqConnections = <<>> /\ m_qMessagesIn = <<>> /\ known = {}
    BY DEF Init
<1>2. Types
    <2>1. IsFiniteSet(known)
        BY <1>1, FS_EmptySet
    <2> QED
        BY <1>1, <2>1 DEF Init, Types, Pointer
<1>3. Len(stack) = 0 /\ Len(m_deqConnections) = 0
    BY <1>1
<1>4. Deque /\ Ids /\ Frames /\ Resets /\ Erases /\ Accepting
    BY <1>1, <1>3 DEF Init, Deque, Ids, Frames, Resets, Erases, Accepting, InSeq
<1>5. Notified /\ Farewells /\ Depth
    BY <1>1 DEF Init, Notified, Farewells, Depth
<1> QED
    BY <1>2, <1>4, <1>5 DEF IInv

\* Most of the invariant is about these variables.
Calls == <<accepting, m_deqConnections, nIDCounter, id, open, stack, known, raced,
           notified, direct, owed, told>>

\* A step that leaves every call of the stack alone keeps the invariant.
LEMMA CallsSame ==
    ASSUME IInv, UNCHANGED Calls,
           current' \in Pointer, held' \subseteq Clients, m_qMessagesIn' \in Seq(Clients)
    PROVE  IInv'
<1> USE DEF Calls
<1>1. Types'
    BY DEF IInv, Types
<1>2. Deque'
    BY DEF IInv, Deque, InSeq
<1>3. Accepting' /\ Ids'
    BY DEF IInv, Accepting, Ids
<1>4. Frames'
    BY DEF IInv, Frames, IsGroup
<1>5. Resets'
    BY DEF IInv, Resets, Top, IsGroup
<1>9. Erases'
    BY DEF IInv, Erases, Top
<1>6. Notified'
    BY DEF IInv, Notified, InSeq
<1>7. Farewells'
    BY DEF IInv, Farewells, Pending, Top, IsGroup, InSeq
<1>8. Depth'
    BY DEF IInv, Depth, Dropped, Top, IsGroup, InSeq
<1> QED
    BY <1>1, <1>2, <1>3, <1>4, <1>5, <1>6, <1>7, <1>8, <1>9 DEF IInv

\* The innermost call
LEMMA TopFrame ==
    ASSUME Types, stack # <<>>
    PROVE  Len(stack) \in Nat /\ Len(stack) >= 1 /\ Top \in FrameType
<1>1. stack \in Seq(FrameType)
    BY DEF Types
<1>2. Len(stack) \in Nat /\ Len(stack) >= 1
    BY <1>1, EmptySeq
<1>3. Len(stack) \in 1 .. Len(stack)
    BY <1>2
<1>4. stack[Len(stack)] \in FrameType
    BY <1>1, <1>3, ElementOfSeq
<1> QED
    BY <1>2, <1>4 DEF Top

\* What changes when the innermost call goes on.
LEMMA TopReplaced ==
    ASSUME Types, stack # <<>>, NEW f \in FrameType, SetTop(f)
    PROVE  /\ stack' \in Seq(FrameType) /\ Len(stack') = Len(stack)
           /\ stack' # <<>> /\ Top' = f
           /\ \A n \in 1 .. Len(stack) : stack'[n] = IF n = Len(stack) THEN f ELSE stack[n]
<1>1. Len(stack) \in Nat /\ Len(stack) >= 1
    BY TopFrame
<1>2. stack \in Seq(FrameType) /\ Len(stack) \in 1 .. Len(stack)
    BY <1>1 DEF Types
<1>3. stack' = [stack EXCEPT ![Len(stack)] = f]
    BY DEF SetTop
<1>4. /\ stack' \in Seq(FrameType) /\ Len(stack') = Len(stack)
      /\ \A n \in 1 .. Len(stack) : stack'[n] = IF n = Len(stack) THEN f ELSE stack[n]
    BY <1>2, <1>3, ExceptSeq
<1>5. stack' # <<>>
    BY <1>1, <1>4, EmptySeq
<1>6. Top' = f
    BY <1>2, <1>4 DEF Top
<1> QED
    BY <1>4, <1>5, <1>6

\* A call that goes on inside its list keeps the calls in order.
LEMMA FramesReplaced ==
    ASSUME Types, Frames, stack # <<>>, NEW f \in FrameType, SetTop(f),
           f.i >= 1, IsGroup(f) <=> IsGroup(Top),
           f.phase = "loop" =>
               IF IsGroup(f)
               THEN /\ f.end = Len(f.list)
                    /\ \A k \in f.i .. f.end : f.list[k] # NoClient
               ELSE f.end <= Len(m_deqConnections')
    PROVE  Frames'
<1>1. /\ Len(stack') = Len(stack)
      /\ \A n \in 1 .. Len(stack) : stack'[n] = IF n = Len(stack) THEN f ELSE stack[n]
    BY TopReplaced
<1>2. Len(stack) \in Nat /\ Len(stack) >= 1
    BY TopFrame
<1> SUFFICES ASSUME NEW n \in 1 .. Len(stack)
             PROVE  /\ stack'[n].i >= 1
                    /\ n < Len(stack) => stack'[n].phase = "farewell"
                    /\ n > 1 => ~IsGroup(stack'[n])
                    /\ stack'[n].phase = "loop" =>
                           IF IsGroup(stack'[n])
                           THEN /\ stack'[n].end = Len(stack'[n].list)
                                /\ \A k \in stack'[n].i .. stack'[n].end :
                                       stack'[n].list[k] # NoClient
                           ELSE stack'[n].end <= Len(m_deqConnections')
    BY <1>1 DEF Frames, IsGroup
<1>3. CASE n = Len(stack)
    <2>1. stack'[n] = f /\ stack[n] = Top
        BY <1>1, <1>3 DEF Top
    <2>2. n > 1 => ~IsGroup(f)
        BY <2>1 DEF Frames
    <2>3. ~(n < Len(stack))
        BY <1>2, <1>3
    <2> QED
        BY <2>1, <2>2, <2>3
<1>4. CASE n # Len(stack)
    <2>1. stack'[n] = stack[n] /\ n < Len(stack)
        BY <1>1, <1>2, <1>4
    <2>2. stack[n].phase = "farewell" /\ stack[n].i >= 1 /\ (n > 1 => ~IsGroup(stack[n]))
        BY <2>1 DEF Frames
    <2> QED
        BY <2>1, <2>2
<1> QED
    BY <1>3, <1>4

\* Finitely many clients have been dropped.
LEMMA DroppedFinite ==
    ASSUME Types
    PROVE  IsFiniteSet(Dropped) /\ Cardinality(Dropped) \in Nat
<1>1. IsFiniteSet(known) /\ Dropped \in SUBSET known
    BY DEF Types, Dropped
<1> QED
    BY <1>1, FS_Subset, FS_CardinalityType

\* A call that starts farewells has dropped a client.
LEMMA DepthReplaced ==
    ASSUME Types, Depth, Types', stack # <<>>, NEW f \in FrameType, SetTop(f),
           IsGroup(f) <=> IsGroup(Top),
           Cardinality(Dropped') >= Cardinality(Dropped),
           f.afterDisconectSend # <<>> =>
               \/ Top.afterDisconectSend # <<>>
               \/ IsGroup(Top)
               \/ Cardinality(Dropped') >= Cardinality(Dropped) + 1
    PROVE  Depth'
<1>1. /\ Len(stack') = Len(stack) /\ stack' # <<>> /\ Top' = f
      /\ \A n \in 1 .. Len(stack) : stack'[n] = IF n = Len(stack) THEN f ELSE stack[n]
    BY TopReplaced
<1>2. Len(stack) \in Nat /\ Len(stack) >= 1
    BY TopFrame
<1>3. IsGroup(stack'[1]) <=> IsGroup(stack[1])
    BY <1>1, <1>2 DEF Top
<1>4. Cardinality(Dropped) \in Nat
    BY DroppedFinite
<1>5. Cardinality(Dropped') \in Nat
    <2>1. IsFiniteSet(known') /\ Dropped' \in SUBSET known'
        BY DEF Types, Dropped
    <2> QED
        BY <2>1, FS_Subset, FS_CardinalityType
<1> DEFINE farewells(frame) == IF ~IsGroup(frame) /\ frame.afterDisconectSend # <<>> THEN 1 ELSE 0
           g == IF IsGroup(stack[1]) THEN 1 ELSE 0
<1>6. Len(stack) + farewells(Top) <= Cardinality(Dropped) + 1 + g
    BY DEF Depth
<1>7. Depth' <=> Len(stack) + farewells(f) <= Cardinality(Dropped') + 1 + g
    BY <1>1, <1>3 DEF Depth, IsGroup
<1>8. farewells(f) - farewells(Top) <= Cardinality(Dropped') - Cardinality(Dropped)
    BY <1>4, <1>5
<1>9. farewells(f) \in Nat /\ farewells(Top) \in Nat /\ g \in Nat
    OBVIOUS
<1> HIDE DEF farewells, g
<1> QED
    BY <1>2, <1>4, <1>5, <1>6, <1>7, <1>8, <1>9

-----------------------------------------------------------------------------
(* The steps of the io_context's thread *)

LEMMA AcceptStep ==
    ASSUME IInv, NEW c \in Clients, AcceptClient(c)
    PROVE  IInv'
<1> USE ClientAssumption
<1> DEFINE D == m_deqConnections
           L == Len(m_deqConnections)
<1>1. /\ accepting = NoClient /\ c \notin known /\ accepting' = c /\ c # NoClient
      /\ known' = known \cup {c}
      /\ open' = [open EXCEPT ![c] = TRUE]
      /\ m_deqConnections' = Append(D, c)
      /\ raced' = IF stack # <<>> /\ Top.phase = "erase" THEN raced \cup {c} ELSE raced
      /\ UNCHANGED <<nIDCounter, id, m_qMessagesIn, current, held, stack, notified, direct,
                     owed, told>>
    BY DEF AcceptClient, Meets, InPhase, Defined
<1>2. /\ D \in Seq(Pointer) /\ c \in Pointer /\ L \in Nat
      /\ open \in [Clients -> BOOLEAN]
    BY DEF IInv, Types, Pointer
<1>3. /\ Append(D, c) \in Seq(Pointer) /\ Len(m_deqConnections') = L + 1
      /\ \A k \in 1 .. L : m_deqConnections'[k] = D[k]
      /\ m_deqConnections'[L + 1] = c
    BY <1>1, <1>2, AppendProperties
<1>4. Types'
    <2>1. IsFiniteSet(known')
        BY <1>1, FS_AddElement DEF IInv, Types
    <2>2. raced' \subseteq Clients
        BY <1>1 DEF IInv, Types
    <2> QED
        BY <1>1, <1>2, <1>3, <2>1, <2>2 DEF IInv, Types
<1>5. /\ \A k \in 1 .. L : D[k] \in known \cup {NoClient}
      /\ \A k, m \in 1 .. L : k < m /\ D[k] # NoClient => D[k] # D[m]
      /\ \A d \in Clients : open[d] => d \in raced \/ InSeq(d, D)
    BY DEF IInv, Deque
<1> HIDE DEF D, L
<1>6. \A d \in Clients : InSeq(d, m_deqConnections') <=> InSeq(d, D) \/ d = c
    <2>1. L = Len(D)
        BY DEF L, D
    <2>2. /\ \A k \in 1 .. L : k \in 1 .. L + 1
          /\ \A k \in 1 .. L + 1 : k \in 1 .. L \/ k = L + 1
          /\ L + 1 \in 1 .. L + 1
        BY <1>2
    <2> QED
        BY <1>3, <2>1, <2>2 DEF InSeq
<1>7. \A k \in 1 .. L + 1 : k \in 1 .. L \/ k = L + 1
    BY <1>2
<1>8. ~InSeq(c, D)
    BY <1>1, <1>5 DEF InSeq, L, D
<1>9. Deque'
    <2>1. \A k \in 1 .. L + 1 : m_deqConnections'[k] \in known' \cup {NoClient}
        BY <1>1, <1>3, <1>5, <1>7
    <2>2. ASSUME NEW k \in 1 .. L + 1, NEW m \in 1 .. L + 1,
                 k < m, m_deqConnections'[k] # NoClient
          PROVE  m_deqConnections'[k] # m_deqConnections'[m]
        <3>1. k \in 1 .. L
            BY <1>2, <2>2
        <3>2. CASE m \in 1 .. L
            BY <1>3, <1>5, <2>2, <3>1, <3>2
        <3>3. CASE m = L + 1
            BY <1>1, <1>3, <1>5, <3>1, <3>3
        <3> QED
            BY <1>7, <3>2, <3>3
    <2>3. \A d \in Clients : open'[d] => d \in raced' \/ InSeq(d, m_deqConnections')
        BY <1>1, <1>2, <1>5, <1>6
    <2> QED
        BY <1>3, <2>1, <2>2, <2>3 DEF Deque
<1>10. Accepting'
    <2>1. open'[c]
        BY <1>1, <1>2
    <2>2. m_deqConnections' # <<>>
        BY <1>2, <1>3, EmptySeq
    <2> QED
        BY <1>1, <1>3, <2>1, <2>2 DEF Accepting
<1>11. Ids'
    <2>1. /\ \A d \in Clients : id[d] = 0 \/ id[d] < nIDCounter
          /\ \A d \in Clients : d \notin known => id[d] = 0
          /\ \A k, m \in 1 .. L : k < m /\ D[k] # NoClient /\ D[m] # NoClient /\ id[D[m]] # 0
                                  => id[D[k]] < id[D[m]]
        BY DEF IInv, Ids, D, L
    <2>2. id'[c] = 0
        BY <1>1, <2>1
    <2>3. ASSUME NEW k \in 1 .. L + 1, NEW m \in 1 .. L + 1, k < m,
                 m_deqConnections'[k] # NoClient, m_deqConnections'[m] # NoClient,
                 id'[m_deqConnections'[m]] # 0
          PROVE  id'[m_deqConnections'[k]] < id'[m_deqConnections'[m]]
        <3>1. k \in 1 .. L
            BY <1>2, <2>3
        <3>2. m \in 1 .. L
            BY <1>3, <1>7, <2>2, <2>3
        <3> QED
            BY <1>1, <1>3, <2>1, <2>3, <3>1, <3>2
    <2> QED
        BY <1>1, <1>3, <2>1, <2>3 DEF Ids
<1>12. Frames'
    <2>1. ASSUME NEW n \in 1 .. Len(stack), stack[n].end <= L
          PROVE  stack[n].end <= L + 1
        <3>1. stack[n] \in FrameType
            BY ElementOfSeq DEF IInv, Types
        <3>2. stack[n].end \in Nat
            BY <3>1 DEF FrameType
        <3> QED
            BY <1>2, <2>1, <3>2
    <2> QED
        BY <1>1, <1>3, <2>1 DEF IInv, Frames, IsGroup, L
<1>13. Resets'
    <2>1. \A k \in 1 .. L + 1 : m_deqConnections'[k] = NoClient => k \in 1 .. L /\ D[k] = NoClient
        BY <1>1, <1>3, <1>7
    <2> QED
        BY <1>1, <1>3, <2>1 DEF IInv, Resets, Top, IsGroup, D, L
<1>18. owed[c] = {}
    BY <1>1 DEF IInv, Farewells
<1>19. Erases'
    <2> SUFFICES ASSUME stack # <<>>, Top.phase = "erase"
                 PROVE  /\ Top.i <= Top.end + 1 /\ Top.end <= L + 1
                        /\ \A k \in Top.i .. Top.end : m_deqConnections'[k] = NoClient
                        /\ \A k \in Top.end + 1 .. L + 1 :
                               /\ m_deqConnections'[k] \in raced'
                               /\ owed[m_deqConnections'[k]] = {}
                        /\ c \in raced'
        BY <1>1, <1>3 DEF Erases, Top
    <2>1. /\ Top.i <= Top.end + 1 /\ Top.end <= L
          /\ \A k \in Top.i .. Top.end : D[k] = NoClient
          /\ \A k \in Top.end + 1 .. L : D[k] \in raced /\ owed[D[k]] = {}
        BY DEF IInv, Erases, D, L
    <2>2. Top \in FrameType /\ Len(stack) \in 1 .. Len(stack) /\ Top = stack[Len(stack)]
        BY TopFrame DEF IInv, Top
    <2>3. Top.i \in Nat /\ Top.end \in Nat /\ Top.i >= 1
        BY <2>2 DEF FrameType, IInv, Frames
    <2>4. raced' = raced \cup {c}
        BY <1>1
    <2>5. \A k \in Top.i .. Top.end : k \in 1 .. L
        BY <1>2, <2>1, <2>3
    <2>6. ASSUME NEW k \in Top.end + 1 .. L + 1
          PROVE  m_deqConnections'[k] \in raced' /\ owed[m_deqConnections'[k]] = {}
        <3>1. CASE k = L + 1
            BY <1>3, <1>18, <2>4, <3>1
        <3>2. CASE k # L + 1
            <4>1. k \in 1 .. L /\ k \in Top.end + 1 .. L
                BY <1>2, <2>3, <3>2
            <4> QED
                BY <1>3, <2>1, <2>4, <4>1
        <3> QED
            BY <3>1, <3>2
    <2>7. Top.end <= L + 1
        BY <1>2, <2>1, <2>3
    <2> QED
        BY <1>3, <2>1, <2>4, <2>5, <2>6, <2>7
<1>14. \A d \in Clients : d \in known' /\ ~InSeq(d, m_deqConnections')
                          <=> d \in known /\ ~InSeq(d, D)
    BY <1>1, <1>6, <1>8
<1>15. Notified'
    <2>1. raced \subseteq raced'
        BY <1>1
    <2> QED
        BY <1>1, <1>14, <2>1 DEF IInv, Notified, D
<1>16. Farewells'
    <2>1. /\ \A d \in Clients : open[d] => \A e \in owed[d] : e \in told[d] \/ Pending(e, d)
          /\ \A d \in Clients : d \notin known => owed[d] = {}
          /\ \A d \in Clients : open[d] /\ owed[d] # {} => InSeq(d, D)
        BY DEF IInv, Farewells, D
    <2>2. ASSUME NEW d, NEW e, Pending(e, d)
          PROVE  Pending(e, d)'
        <3>1. CASE \E n \in 1 .. Len(stack) : InSeq(e, stack[n].afterDisconectSend)
            BY <1>1, <3>1 DEF Pending, InSeq
        <3>2. CASE /\ stack # <<>> /\ Top.phase = "loop" /\ ~IsGroup(Top)
                   /\ Top.msg = e /\ Top.ignore = NoClient
                   /\ \E k \in Top.i .. Top.end : m_deqConnections[k] = d
            <4>1. PICK k \in Top.i .. Top.end : m_deqConnections[k] = d
                BY <3>2
            <4>2. Len(stack) \in 1 .. Len(stack) /\ Top \in FrameType
                BY <3>2, TopFrame DEF IInv
            <4>3. Top.i >= 1 /\ Top.end <= L
                BY <3>2, <4>2 DEF IInv, Frames, Top, L
            <4>4. Top.i \in Nat /\ Top.end \in Nat
                BY <4>2 DEF FrameType
            <4>5. k \in 1 .. L
                BY <1>2, <4>3, <4>4
            <4>6. m_deqConnections'[k] = d
                BY <1>3, <4>1, <4>5 DEF D
            <4>7. Top' = Top
                BY <1>1 DEF Top
            <4> QED
                BY <1>1, <3>2, <4>6, <4>7 DEF Pending, IsGroup
        <3> QED
            BY <2>2, <3>1, <3>2 DEF Pending
    <2>3. \A d \in Clients : d # c => open'[d] = open[d]
        BY <1>1, <1>2
    <2>4. owed'[c] = {}
        BY <1>1, <2>1
    <2>5. \A d \in Clients : open'[d] => \A e \in owed'[d] : e \in told'[d] \/ Pending(e, d)'
        BY <1>1, <2>1, <2>2, <2>3, <2>4
    <2>6. \A d \in Clients : d \notin known' => owed'[d] = {}
        BY <1>1, <2>1
    <2>7. \A d \in Clients : open'[d] /\ owed'[d] # {} => InSeq(d, m_deqConnections')
        BY <1>1, <1>6, <2>1, <2>3, <2>4
    <2> QED
        BY <2>5, <2>6, <2>7 DEF Farewells
<1>17. Depth'
    <2>1. known \subseteq Clients
        BY DEF IInv, Types
    <2>2. Dropped' = Dropped
        BY <1>1, <1>14, <2>1 DEF Dropped, D
    <2> QED
        BY <1>1, <2>2 DEF IInv, Depth, Top, IsGroup
<1> QED
    BY <1>4, <1>9, <1>10, <1>11, <1>12, <1>13, <1>15, <1>16, <1>17, <1>19 DEF IInv

\* The accept handler gives the last connection the next id, whichever it is.
LEMMA ConnectStep ==
    ASSUME IInv, ConnectBack
    PROVE  IInv'
<1> USE ClientAssumption
<1> DEFINE D == m_deqConnections
           L == Len(m_deqConnections)
           c == m_deqConnections[Len(m_deqConnections)]
<1>1. D # <<>> /\ D[L] = c /\ c # NoClient
    BY DEF ConnectBack, BackDefined, Back
<1>2. /\ id' = IF open[c] THEN [id EXCEPT ![c] = nIDCounter] ELSE id
      /\ nIDCounter' = nIDCounter + 1
      /\ UNCHANGED <<accepting, m_deqConnections, open, m_qMessagesIn, current, held, stack,
                     raced, notified, direct, owed, told, known>>
    BY <1>1 DEF ConnectBack, history, Back
<1>3. Types'
    <2>1. id \in [Clients -> Nat] /\ nIDCounter \in Nat
        BY DEF IInv, Types
    <2>2. PICK x : x = c
        OBVIOUS
    <2>3. id' = (IF open[x] THEN [id EXCEPT ![x] = nIDCounter] ELSE id)
          /\ nIDCounter' = nIDCounter + 1
        BY <1>2, <2>2
    <2>4. [id EXCEPT ![x] = nIDCounter] \in [Clients -> Nat]
        BY <2>1
    <2>5. id' \in [Clients -> Nat] /\ nIDCounter' \in Nat
        BY <2>1, <2>3, <2>4
    <2> QED
        BY <1>2, <2>5 DEF IInv, Types
<1>4. Deque'
    BY <1>2 DEF IInv, Deque, InSeq
<1>5. Accepting'
    BY <1>2 DEF IInv, Accepting
<1>6. Ids'
    <2>1. /\ \A d \in Clients : id[d] = 0 \/ id[d] < nIDCounter
          /\ \A d \in Clients : d \notin known => id[d] = 0
          /\ \A k, m \in 1 .. L : k < m /\ D[k] # NoClient /\ D[m] # NoClient /\ id[D[m]] # 0
                                  => id[D[k]] < id[D[m]]
        BY DEF IInv, Ids
    <2>2. /\ \A k \in 1 .. L : D[k] \in known \cup {NoClient}
          /\ \A k, m \in 1 .. L : k < m /\ D[k] # NoClient => D[k] # D[m]
          /\ known \subseteq Clients /\ nIDCounter \in Nat /\ id \in [Clients -> Nat]
          /\ L \in Nat
        BY DEF IInv, Deque, Types
    <2>3. L \in 1 .. L
        BY <1>1, <2>2, EmptySeq DEF IInv, Types
    <2>4. c \in known
        BY <1>1, <2>2, <2>3
    <2> HIDE DEF D, L, c
    <2>5. \A d \in Clients : id'[d] = IF d = c /\ open[c] THEN nIDCounter ELSE id[d]
        BY <1>2, <2>2
    <2>6. \A d \in Clients : id'[d] = 0 \/ id'[d] < nIDCounter + 1
        <3> SUFFICES ASSUME NEW d \in Clients PROVE id'[d] = 0 \/ id'[d] < nIDCounter + 1
            OBVIOUS
        <3>1. id[d] \in Nat
            BY <2>2
        <3> QED
            BY <2>1, <2>2, <2>5, <3>1
    <2>7. \A d \in Clients : d \notin known => id'[d] = 0
        BY <2>1, <2>4, <2>5
    <2>8. ASSUME NEW k \in 1 .. L, NEW m \in 1 .. L, k < m,
                 D[k] # NoClient, D[m] # NoClient, id'[D[m]] # 0
          PROVE  id'[D[k]] < id'[D[m]]
        <3>1. D[k] \in Clients /\ D[m] \in Clients
            BY <2>2, <2>8
        <3>2. D[k] # c
            BY <1>1, <2>2, <2>3, <2>8
        <3>3. id'[D[k]] = id[D[k]] /\ id[D[k]] \in Nat
            BY <2>2, <2>5, <3>1, <3>2
        <3>4. CASE D[m] = c /\ open[c]
            BY <2>1, <2>2, <2>5, <2>8, <3>1, <3>3, <3>4
        <3>5. CASE ~(D[m] = c /\ open[c])
            BY <2>1, <2>5, <2>8, <3>1, <3>3, <3>5
        <3> QED
            BY <3>4, <3>5
    <2> QED
        BY <1>2, <2>6, <2>7, <2>8 DEF Ids, D, L
<1>7. Frames' /\ Resets' /\ Erases'
    BY <1>2 DEF IInv, Frames, Resets, Erases, Top, IsGroup
<1>8. Notified'
    BY <1>2 DEF IInv, Notified, InSeq
<1>9. Farewells'
    BY <1>2 DEF IInv, Farewells, Pending, Top, IsGroup, InSeq
<1>10. Depth'
    BY <1>2 DEF IInv, Depth, Dropped, Top, IsGroup, InSeq
<1> QED
    BY <1>3, <1>4, <1>5, <1>6, <1>7, <1>8, <1>9, <1>10 DEF IInv

\* The accept handler is done.
LEMMA GreetStep ==
    ASSUME IInv, NEW keep \in BOOLEAN, ClientConnected(keep)
    PROVE  IInv'
<1> USE ClientAssumption
<1> DEFINE D == m_deqConnections
<1>1. /\ D # <<>> /\ Back # NoClient /\ Back = D[Len(D)]
      /\ held' = IF keep THEN held \cup {Back} ELSE held
      /\ accepting' = NoClient
      /\ UNCHANGED <<m_deqConnections, nIDCounter, id, open, m_qMessagesIn, current, stack,
                     raced, notified, direct, owed, told, known>>
    BY DEF ClientConnected, BackDefined, Back, net, history
<1>2. Back \in Clients
    <2>1. D \in Seq(Pointer) /\ Len(D) \in Nat
        BY DEF IInv, Types
    <2>2. Len(D) \in 1 .. Len(D)
        BY <1>1, <2>1, EmptySeq
    <2>3. D[Len(D)] \in Pointer
        BY <2>1, <2>2, ElementOfSeq
    <2> QED
        BY <1>1, <2>3 DEF Pointer
<1>3. Types'
    BY <1>1, <1>2 DEF IInv, Types, Pointer
<1>4. Deque' /\ Accepting' /\ Ids'
    BY <1>1 DEF IInv, Deque, Accepting, Ids, InSeq
<1>5. Frames' /\ Resets' /\ Erases'
    BY <1>1 DEF IInv, Frames, Resets, Erases, Top, IsGroup
<1>6. Notified'
    BY <1>1 DEF IInv, Notified, InSeq
<1>7. Farewells'
    BY <1>1 DEF IInv, Farewells, Pending, Top, IsGroup, InSeq
<1>8. Depth'
    BY <1>1 DEF IInv, Depth, Dropped, Top, IsGroup, InSeq
<1> QED
    BY <1>3, <1>4, <1>5, <1>6, <1>7, <1>8 DEF IInv

\* No handler closes the new connection before the accept handler has returned.
LEMMA ErrorStep ==
    ASSUME IInv, NEW c \in Clients, ErrorHandler(c)
    PROVE  IInv'
<1> USE ClientAssumption
<1>1. /\ accepting = NoClient
      /\ open' = [open EXCEPT ![c] = FALSE]
      /\ UNCHANGED <<accepting, m_deqConnections, nIDCounter, id, current, held, stack,
                     m_qMessagesIn, raced, notified, direct, owed, told, known>>
    BY DEF ErrorHandler, Runs, Others, server, history
<1>2. open \in [Clients -> BOOLEAN]
    BY DEF IInv, Types
<1>3. \A d \in Clients : open'[d] => open[d]
    BY <1>1, <1>2
<1>4. Types'
    BY <1>1 DEF IInv, Types
<1>5. Deque'
    BY <1>1, <1>3 DEF IInv, Deque, InSeq
<1>6. Accepting' /\ Ids'
    BY <1>1 DEF IInv, Ids, Accepting
<1>7. Frames' /\ Resets' /\ Erases'
    BY <1>1 DEF IInv, Frames, Resets, Erases, Top, IsGroup
<1>8. Notified'
    BY <1>1 DEF IInv, Notified, InSeq
<1>9. Farewells'
    <2>1. \A d, e : Pending(e, d)' <=> Pending(e, d)
        BY <1>1 DEF Pending, Top, IsGroup, InSeq
    <2> QED
        BY <1>1, <1>3, <2>1 DEF IInv, Farewells, InSeq
<1>10. Depth'
    BY <1>1 DEF IInv, Depth, Dropped, Top, IsGroup, InSeq
<1> QED
    BY <1>4, <1>5, <1>6, <1>7, <1>8, <1>9, <1>10 DEF IInv

-----------------------------------------------------------------------------
(* Erasing the pointers that were reset *)

\* A deque that has some of the pointers of the old one in their order, and else null
\* pointers, has no connection twice, and the ids in order.
LEMMA Rearranged ==
    ASSUME Types, Deque, Ids,
           m_deqConnections' \in Seq(Pointer),
           NEW P \in SUBSET (1 .. Len(m_deqConnections')),
           \A k \in 1 .. Len(m_deqConnections') : k \in P <=> m_deqConnections'[k] # NoClient,
           NEW at \in [P -> 1 .. Len(m_deqConnections)],
           \A k \in P : m_deqConnections'[k] = m_deqConnections[at[k]],
           \A k, m \in P : k < m => at[k] < at[m],
           UNCHANGED <<nIDCounter, id, known>>
    PROVE  /\ \A k \in 1 .. Len(m_deqConnections') : m_deqConnections'[k] \in known \cup {NoClient}
           /\ \A k, m \in 1 .. Len(m_deqConnections') :
                  k < m /\ m_deqConnections'[k] # NoClient =>
                      m_deqConnections'[k] # m_deqConnections'[m]
           /\ Ids'
           /\ \A c \in Clients : InSeq(c, m_deqConnections') => InSeq(c, m_deqConnections)
<1> USE ClientAssumption
<1> DEFINE D == m_deqConnections
           E == m_deqConnections'
<1>1. D \in Seq(Pointer) /\ Len(D) \in Nat
    BY DEF Types
<1>2. /\ P \in SUBSET (1 .. Len(E))
      /\ \A k \in 1 .. Len(E) : k \in P <=> E[k] # NoClient
      /\ \A k \in P : at[k] \in 1 .. Len(D) /\ E[k] = D[at[k]]
      /\ \A k, m \in P : k < m => at[k] < at[m]
    OBVIOUS
<1>3. /\ \A k \in 1 .. Len(D) : D[k] \in known \cup {NoClient}
      /\ \A k, m \in 1 .. Len(D) : k < m /\ D[k] # NoClient => D[k] # D[m]
      /\ \A d \in Clients : id[d] = 0 \/ id[d] < nIDCounter
      /\ \A d \in Clients : d \notin known => id[d] = 0
      /\ \A k, m \in 1 .. Len(D) : k < m /\ D[k] # NoClient /\ D[m] # NoClient /\ id[D[m]] # 0
                                    => id[D[k]] < id[D[m]]
    BY DEF Deque, Ids
<1>4. known' = known /\ id' = id /\ nIDCounter' = nIDCounter
    OBVIOUS
<1> HIDE DEF D, E
<1>5. \A k \in 1 .. Len(E) : E[k] \in known \cup {NoClient}
    BY <1>2, <1>3
<1>6. ASSUME NEW k \in 1 .. Len(E), NEW m \in 1 .. Len(E), k < m, E[k] # NoClient
      PROVE  E[k] # E[m]
    <2>1. k \in P
        BY <1>2, <1>6
    <2>2. CASE m \in P
        <3>1. at[k] < at[m] /\ at[k] \in 1 .. Len(D) /\ at[m] \in 1 .. Len(D)
              /\ E[k] = D[at[k]] /\ E[m] = D[at[m]]
            BY <1>2, <1>6, <2>1, <2>2
        <3> QED
            BY <1>3, <1>6, <3>1
    <2>3. CASE m \notin P
        BY <1>2, <1>6, <2>3
    <2> QED
        BY <2>2, <2>3
<1>7. ASSUME NEW k \in 1 .. Len(E), NEW m \in 1 .. Len(E), k < m,
             E[k] # NoClient, E[m] # NoClient, id[E[m]] # 0
      PROVE  id[E[k]] < id[E[m]]
    <2>1. k \in P /\ m \in P
        BY <1>2, <1>7
    <2>2. at[k] < at[m] /\ at[k] \in 1 .. Len(D) /\ at[m] \in 1 .. Len(D)
          /\ E[k] = D[at[k]] /\ E[m] = D[at[m]]
        BY <1>2, <1>7, <2>1
    <2> QED
        BY <1>3, <1>7, <2>2
<1>8. Ids'
    BY <1>3, <1>4, <1>7 DEF Ids, E
<1>9. ASSUME NEW c \in Clients, InSeq(c, E) PROVE InSeq(c, D)
    <2>1. PICK k \in 1 .. Len(E) : E[k] = c
        BY <1>9 DEF InSeq
    <2>2. k \in P
        BY <1>2, <2>1
    <2> QED
        BY <1>2, <2>1, <2>2 DEF InSeq
<1> QED
    BY <1>4, <1>5, <1>6, <1>8, <1>9 DEF D, E

-----------------------------------------------------------------------------
(* The calls of the application's thread *)

\* A call is made when no other runs: then nothing is reset, and all farewells have
\* been sent.
LEMMA NothingPending ==
    ASSUME IInv, stack = <<>>
    PROVE  /\ \A k \in 1 .. Len(m_deqConnections) : m_deqConnections[k] # NoClient
           /\ \A d \in Clients : open[d] => owed[d] \subseteq told[d]
<1>1. Len(stack) = 0
    OBVIOUS
<1>2. \A c, d : ~Pending(c, d)
    BY <1>1 DEF Pending
<1> QED
    BY <1>2 DEF IInv, Resets, Farewells

\* A stack of one call.
LEMMA OneCall ==
    ASSUME NEW f \in FrameType, stack' = <<f>>
    PROVE  /\ stack' \in Seq(FrameType) /\ Len(stack') = 1 /\ stack' # <<>>
           /\ stack'[1] = f /\ Top' = f
           /\ \A n \in 1 .. Len(stack') : n = 1
<1>1. stack' \in Seq(FrameType) /\ Len(stack') = 1 /\ stack' # <<>> /\ stack'[1] = f
    OBVIOUS
<1>2. Top' = f
    BY <1>1 DEF Top
<1>3. \A n \in 1 .. Len(stack') : n = 1
    BY <1>1
<1> QED
    BY <1>1, <1>2, <1>3

\* The calls that start a loop
LEMMA CallStep ==
    ASSUME IInv, stack = <<>>, NEW f \in FrameType, stack' = <<f>>,
           f.i = 1, f.phase = "loop", f.afterDisconectSend = <<>>,
           IF IsGroup(f) THEN f.end = Len(f.list) /\ \A k \in 1 .. f.end : f.list[k] # NoClient
           ELSE f.end <= Len(m_deqConnections),
           UNCHANGED <<server, net, current, held, history, told>>
    PROVE  IInv'
<1> USE DEF server, net, history
<1>1. /\ stack' \in Seq(FrameType) /\ Len(stack') = 1 /\ stack' # <<>>
      /\ stack'[1] = f /\ Top' = f
      /\ \A n \in 1 .. Len(stack') : n = 1
    BY OneCall
<1>2. Types'
    BY <1>1 DEF IInv, Types
<1>3. Deque' /\ Accepting' /\ Ids'
    BY DEF IInv, Deque, Accepting, Ids, InSeq
<1>4. Frames'
    BY <1>1 DEF Frames, IsGroup
<1>5. Resets'
    BY NothingPending DEF Resets
<1>9. Erases'
    BY <1>1 DEF Erases
<1>6. Notified'
    BY DEF IInv, Notified, InSeq
<1>7. Farewells'
    BY NothingPending DEF IInv, Farewells, InSeq
<1>8. Depth'
    <2>1. Cardinality(Dropped) \in Nat
        BY DroppedFinite DEF IInv
    <2>2. Dropped' = Dropped
        BY DEF Dropped, InSeq
    <2>3. Depth' <=> 1 + 0 <= Cardinality(Dropped) + 1 + (IF IsGroup(f) THEN 1 ELSE 0)
        BY <1>1, <2>2 DEF Depth, IsGroup
    <2> QED
        BY <2>1, <2>3
<1> QED
    BY <1>2, <1>3, <1>4, <1>5, <1>6, <1>7, <1>8, <1>9 DEF IInv

\* MessageAllClients starts a loop over the deque.
LEMMA AllClientsStep ==
    ASSUME IInv, NEW ignore \in Pointers \cup {NoClient}, MessageAllClients(ignore)
    PROVE  IInv'
<1> DEFINE f == Frame(<<>>, Len(m_deqConnections), NoClient, ignore)
<1>1. /\ <<>> \in Seq(Pointer) /\ Len(m_deqConnections) \in Nat
      /\ NoClient \in Pointer /\ ignore \in Pointer
    BY DEF IInv, Types, Pointers, Pointer
<1>2. /\ f \in FrameType /\ f.list = <<>> /\ f.i = 1 /\ f.end = Len(m_deqConnections)
      /\ f.phase = "loop" /\ f.afterDisconectSend = <<>>
    <2>1. f = Frame(<<>>, Len(m_deqConnections), NoClient, ignore)
        OBVIOUS
    <2> HIDE DEF f
    <2> QED
        BY <1>1, <2>1 DEF Frame, FrameType
<1>3. /\ stack = <<>> /\ stack' = <<f>>
      /\ UNCHANGED <<server, net, current, held, history, told>>
    BY DEF MessageAllClients, Called, Idle
<1> HIDE DEF f
<1>4. ~IsGroup(f) /\ f.end <= Len(m_deqConnections)
    BY <1>1, <1>2 DEF IsGroup
<1> QED
    BY <1>2, <1>3, <1>4, CallStep

\* MessageClientGroup starts a loop over its own list.
LEMMA GroupStep ==
    ASSUME IInv, NEW c \in Pointers, NEW d \in Pointers, MessageClientGroup(<<c, d>>)
    PROVE  IInv'
<1> USE ClientAssumption
<1> DEFINE f == Frame(<<c, d>>, Len(<<c, d>>), NoClient, NoClient)
<1>1. c \in Clients /\ d \in Clients
    BY DEF IInv, Types, Pointers, Pointer
<1>2. <<c, d>> \in Seq(Pointer) /\ Len(<<c, d>>) = 2 /\ NoClient \in Pointer /\ <<c, d>> # <<>>
    BY <1>1 DEF Pointer
<1>3. /\ f \in FrameType /\ f.list = <<c, d>> /\ f.i = 1 /\ f.end = 2
      /\ f.phase = "loop" /\ f.afterDisconectSend = <<>>
    <2>1. f = Frame(<<c, d>>, Len(<<c, d>>), NoClient, NoClient) /\ Len(<<c, d>>) \in Nat
        BY <1>2
    <2> HIDE DEF f
    <2> QED
        BY <1>2, <2>1 DEF Frame, FrameType
<1>4. /\ stack = <<>> /\ stack' = <<f>>
      /\ UNCHANGED <<server, net, current, held, history, told>>
    BY DEF MessageClientGroup, Called, Idle
<1> HIDE DEF f
<1>5. IsGroup(f) /\ f.end = Len(f.list) /\ \A k \in 1 .. f.end : f.list[k] # NoClient
    BY <1>1, <1>2, <1>3 DEF IsGroup
<1> QED
    BY <1>3, <1>4, <1>5, CallStep

\* MessageClient keeps the farewell for everybody who is kept and connected, to
\* broadcast it after an erase.
LEMMA ClientStep ==
    ASSUME IInv, NEW c \in Pointers, MessageClient(c)
    PROVE  IInv'
<1> USE ClientAssumption
<1>1. /\ stack = <<>> /\ c \in Clients /\ c # NoClient
      /\ UNCHANGED <<accepting, m_deqConnections, nIDCounter, id, open, m_qMessagesIn,
                     current, held>>
    BY DEF MessageClient, Called, Idle, server, Pointers, IInv, Types, Pointer
<1>2. CASE SendTo(c, NoClient) /\ UNCHANGED <<stack, history>>
    <2>1. told \in [Clients -> SUBSET Clients]
        BY DEF IInv, Types
    <2>2. told' = [told EXCEPT ![c] = @ \cup ({NoClient} \ {NoClient})]
        BY <1>2 DEF SendTo
    <2>3. told[c] \cup ({NoClient} \ {NoClient}) = told[c]
        OBVIOUS
    <2>4. told' = told
        BY <1>1, <2>1, <2>2, <2>3
    <2> QED
        BY <1>1, <1>2, <2>4, CallsSame DEF Calls, history, IInv, Types
<1> DEFINE new == Frame(<<NoClient>>, Len(m_deqConnections), NoClient, NoClient)
           f == [new EXCEPT !.phase = "remove", !.afterDisconectSend = <<c>>]
<1>3. CASE /\ ~IsConnected(c)
           /\ OnClientDisconnect(c)
           /\ direct' = [direct EXCEPT ![c] = @ + 1]
           /\ stack' = <<f>>
           /\ UNCHANGED <<ops, told>>
    <2>1. /\ known' = known /\ raced' = raced
          /\ notified' = [notified EXCEPT ![c] = @ + 1]
          /\ direct' = [direct EXCEPT ![c] = @ + 1]
          /\ owed' = [d \in Clients |-> IF open[d] /\ InSeq(d, m_deqConnections)
                                        THEN owed[d] \cup {c} ELSE owed[d]]
          /\ told' = told /\ stack' = <<f>>
        BY <1>3 DEF OnClientDisconnect
    <2>2. /\ f \in FrameType /\ f.list = <<NoClient>> /\ f.i = 1
          /\ f.phase = "remove" /\ f.afterDisconectSend = <<c>>
        <3>1. /\ Len(m_deqConnections) \in Nat /\ NoClient \in Pointer
              /\ <<NoClient>> \in Seq(Pointer) /\ <<c>> \in Seq(Clients)
            BY <1>1 DEF IInv, Types, Pointer
        <3>2. /\ new.list = <<NoClient>> /\ new.i = 1 /\ new.end = Len(m_deqConnections)
              /\ new.msg = NoClient /\ new.ignore = NoClient
              /\ new \in [list : Seq(Pointer), i : Nat, end : Nat, msg : Pointer,
                          ignore : Pointer, phase : {"loop"}, afterDisconectSend : {<<>>}]
            BY <3>1 DEF Frame
        <3> HIDE DEF new
        <3> QED
            BY <3>1, <3>2 DEF FrameType
    <2> HIDE DEF f
    <2>3. /\ stack' \in Seq(FrameType) /\ Len(stack') = 1 /\ stack' # <<>>
          /\ stack'[1] = f /\ Top' = f
          /\ \A n \in 1 .. Len(stack') : n = 1
        BY <2>1, <2>2, OneCall
    <2>4. IsGroup(f)
        BY <2>2 DEF IsGroup
    <2>5. \A k \in 1 .. Len(m_deqConnections) : m_deqConnections[k] # NoClient
        BY <1>1, NothingPending
    <2>6. Types'
        <3>1. /\ notified \in [Clients -> Nat] /\ direct \in [Clients -> Nat]
              /\ owed \in [Clients -> SUBSET Clients]
            BY DEF IInv, Types
        <3>2. notified' \in [Clients -> Nat] /\ direct' \in [Clients -> Nat]
            BY <1>1, <2>1, <3>1
        <3>3. owed' \in [Clients -> SUBSET Clients]
            BY <1>1, <2>1, <3>1
        <3> QED
            BY <1>1, <2>1, <2>3, <3>2, <3>3 DEF IInv, Types
    <2>7. Deque' /\ Accepting' /\ Ids'
        BY <1>1, <2>1 DEF IInv, Deque, Accepting, Ids, InSeq
    <2>8. Frames'
        <3>1. f.i >= 1 /\ f.phase # "loop" /\ ~(1 < 1) /\ ~(1 > 1)
            BY <2>2
        <3> QED
            BY <2>3, <3>1 DEF Frames
    <2>9. Resets' /\ Erases'
        BY <1>1, <2>2, <2>3, <2>5 DEF Resets, Erases
    <2>10. Notified'
        <3> SUFFICES ASSUME NEW d \in Clients
                     PROVE  /\ \/ notified'[d] = direct'[d]
                               \/ /\ notified'[d] = direct'[d] + 1
                                  /\ d \in known /\ ~InSeq(d, m_deqConnections)
                            /\ d \in known /\ ~InSeq(d, m_deqConnections)
                                   => d \in raced \/ notified'[d] = direct'[d] + 1
            BY <1>1, <2>1 DEF Notified, InSeq
        <3>1. /\ \/ notified[d] = direct[d]
                 \/ /\ notified[d] = direct[d] + 1
                    /\ d \in known /\ ~InSeq(d, m_deqConnections)
              /\ d \in known /\ ~InSeq(d, m_deqConnections)
                     => d \in raced \/ notified[d] = direct[d] + 1
            BY DEF IInv, Notified
        <3>2. /\ notified'[d] = IF d = c THEN notified[d] + 1 ELSE notified[d]
              /\ direct'[d] = IF d = c THEN direct[d] + 1 ELSE direct[d]
              /\ direct[d] \in Nat /\ notified[d] \in Nat
            BY <2>1 DEF IInv, Types
        <3> QED
            BY <3>1, <3>2
    <2>11. Farewells'
        <3>1. \A d : Pending(c, d)'
            <4>1. 1 \in 1 .. Len(<<c>>) /\ <<c>>[1] = c
                OBVIOUS
            <4>2. InSeq(c, <<c>>)
                BY <4>1 DEF InSeq
            <4>3. InSeq(c, stack'[1].afterDisconectSend) /\ 1 \in 1 .. Len(stack')
                BY <2>2, <2>3, <4>2
            <4> QED
                BY <4>3 DEF Pending, InSeq
        <3>2. ASSUME NEW d \in Clients, open[d], NEW e \in owed'[d]
              PROVE  e \in told'[d] \/ Pending(e, d)'
            <4>1. e \in owed[d] \/ e = c
                BY <2>1, <3>2
            <4>2. e \in owed[d] => e \in told'[d]
                BY <1>1, <2>1, <3>2, NothingPending
            <4> QED
                BY <3>1, <4>1, <4>2
        <3>3. ASSUME NEW d \in Clients, d \notin known PROVE owed'[d] = {}
            <4>1. ~InSeq(d, m_deqConnections)
                BY <3>3 DEF IInv, Deque, InSeq
            <4>2. owed[d] = {}
                BY <3>3 DEF IInv, Farewells
            <4> QED
                BY <2>1, <4>1, <4>2
        <3>4. ASSUME NEW d \in Clients, open[d], owed'[d] # {}
              PROVE  InSeq(d, m_deqConnections)
            BY <2>1, <3>4 DEF IInv, Farewells
        <3> QED
            BY <1>1, <2>1, <3>2, <3>3, <3>4 DEF Farewells, InSeq
    <2>12. Depth'
        <3>1. Cardinality(Dropped) \in Nat
            BY DroppedFinite DEF IInv
        <3>2. Dropped' = Dropped
            BY <1>1, <2>1 DEF Dropped, InSeq
        <3>3. Depth' <=> 1 + 0 <= Cardinality(Dropped) + 1 + 1
            BY <2>2, <2>3, <2>4, <3>2 DEF Depth, IsGroup
        <3> QED
            BY <3>1, <3>3
    <2> QED
        BY <2>6, <2>7, <2>8, <2>9, <2>10, <2>11, <2>12 DEF IInv
<1> QED
    BY <1>2, <1>3 DEF MessageClient

-----------------------------------------------------------------------------
(* The visits of a loop *)

\* A loop finds no pointer that it or another call has reset.
LEMMA Visits ==
    ASSUME IInv, Visiting
    PROVE  /\ Top \in FrameType /\ Top.i \in Nat /\ Top.i >= 1 /\ Top.end \in Nat
           /\ Top.i <= Top.end /\ Top.phase = "loop" /\ stack # <<>>
           /\ Client \in Clients
           /\ IF IsGroup(Top) THEN Top.end = Len(Top.list) /\ Top.i \in 1 .. Len(Top.list)
              ELSE /\ Top.end <= Len(m_deqConnections)
                   /\ Top.i \in 1 .. Len(m_deqConnections)
                   /\ m_deqConnections[Top.i] = Client /\ Client \in known
           /\ Visited \in FrameType /\ Visited.i = Top.i + 1
           /\ Visited.list = Top.list /\ Visited.end = Top.end /\ Visited.phase = "loop"
           /\ Visited.msg = Top.msg /\ Visited.ignore = Top.ignore
           /\ Visited.afterDisconectSend = Top.afterDisconectSend
<1>1. stack # <<>> /\ Top.phase = "loop" /\ Top.i <= Top.end
    BY DEF Visiting, InPhase
<1>2. Top \in FrameType /\ Len(stack) \in 1 .. Len(stack) /\ Top = stack[Len(stack)]
    BY <1>1, TopFrame DEF IInv, Top
<1>3. Top.i \in Nat /\ Top.end \in Nat /\ Top.list \in Seq(Pointer)
    BY <1>2 DEF FrameType
<1>4. /\ Top.i >= 1
      /\ IF IsGroup(Top)
         THEN /\ Top.end = Len(Top.list)
              /\ \A k \in Top.i .. Top.end : Top.list[k] # NoClient
         ELSE Top.end <= Len(m_deqConnections)
    BY <1>1, <1>2 DEF IInv, Frames
<1>7. /\ Visited \in FrameType /\ Visited.i = Top.i + 1
      /\ Visited.list = Top.list /\ Visited.end = Top.end /\ Visited.phase = "loop"
      /\ Visited.msg = Top.msg /\ Visited.ignore = Top.ignore
      /\ Visited.afterDisconectSend = Top.afterDisconectSend
    <2> HIDE DEF Top
    <2> QED
        BY <1>1, <1>2, <1>3 DEF Visited, FrameType
<1>5. CASE IsGroup(Top)
    <2>1. Top.i \in 1 .. Len(Top.list) /\ Top.i \in Top.i .. Top.end
        BY <1>1, <1>3, <1>4, <1>5
    <2>2. Client = Top.list[Top.i]
        BY <1>5 DEF Client
    <2>3. Client \in Clients
        BY <1>3, <1>4, <1>5, <2>1, <2>2, ElementOfSeq DEF Pointer
    <2> QED
        BY <1>1, <1>2, <1>3, <1>4, <1>5, <1>7, <2>1, <2>3
<1>6. CASE ~IsGroup(Top)
    <2>1. Len(m_deqConnections) \in Nat
        BY DEF IInv, Types
    <2>2. Top.i \in 1 .. Len(m_deqConnections)
        BY <1>1, <1>3, <1>4, <1>6, <2>1
    <2>3. Client = m_deqConnections[Top.i]
        BY <1>6 DEF Client
    <2>4. ~(Top.i < Top.i)
        BY <1>3
    <2>5. Client # NoClient
        BY <1>1, <2>2, <2>3, <2>4 DEF IInv, Resets
    <2>6. Client \in known /\ known \subseteq Clients
        BY <2>2, <2>3, <2>5 DEF IInv, Deque, Types
    <2> QED
        BY <1>1, <1>2, <1>3, <1>4, <1>6, <1>7, <2>2, <2>3, <2>6
<1> QED
    BY <1>5, <1>6

\* A visit that leaves the client as it is: what the loop has still to bring to the
\* others it brings later.
LEMMA Passed ==
    ASSUME IInv, Visiting, SetTop(Visited),
           UNCHANGED <<Outside, m_deqConnections, history>>,
           told' \in [Clients -> SUBSET Clients],
           \A d \in Clients : told[d] \subseteq told'[d],
           ~IsGroup(Top) /\ Top.ignore = NoClient /\ Top.msg # NoClient
               => Top.msg \in told'[Client]
    PROVE  IInv'
<1> USE ClientAssumption
<1> DEFINE f == Visited
<1>1. /\ UNCHANGED <<accepting, nIDCounter, id, open, m_qMessagesIn, current, held>>
      /\ UNCHANGED <<known, raced, notified, direct, owed, m_deqConnections>>
    BY DEF Outside, history
<1>2. /\ Top.i \in Nat /\ Top.i >= 1 /\ Top.end \in Nat /\ stack # <<>>
      /\ Top.phase = "loop" /\ Top \in FrameType
      /\ IF IsGroup(Top) THEN Top.end = Len(Top.list)
         ELSE Top.end <= Len(m_deqConnections) /\ m_deqConnections[Top.i] = Client
    BY Visits
<1>3. /\ f \in FrameType /\ f.i = Top.i + 1
      /\ f.list = Top.list /\ f.end = Top.end /\ f.phase = "loop"
      /\ f.msg = Top.msg /\ f.ignore = Top.ignore
      /\ f.afterDisconectSend = Top.afterDisconectSend
    BY Visits
<1>4. SetTop(f)
    OBVIOUS
<1> HIDE DEF f
<1>5. /\ stack' \in Seq(FrameType) /\ Len(stack') = Len(stack)
      /\ stack' # <<>> /\ Top' = f
      /\ \A n \in 1 .. Len(stack) : stack'[n] = IF n = Len(stack) THEN f ELSE stack[n]
    BY <1>2, <1>3, <1>4, TopReplaced DEF IInv
<1>6. IsGroup(f) <=> IsGroup(Top)
    BY <1>3 DEF IsGroup
<1>7. Types'
    BY <1>1, <1>5 DEF IInv, Types
<1>8. Deque' /\ Accepting' /\ Ids' /\ Notified'
    BY <1>1 DEF IInv, Deque, Accepting, Ids, Notified, InSeq
<1>9. Frames'
    <2>1. Types /\ Frames
        BY DEF IInv
    <2>2. f.i >= 1
        BY <1>2, <1>3
    <2>3. CASE IsGroup(Top)
        <3>1. Len(stack) \in 1 .. Len(stack) /\ Top = stack[Len(stack)]
            BY <1>2, <2>1, TopFrame DEF Top
        <3>2. \A k \in Top.i .. Top.end : Top.list[k] # NoClient
            BY <1>2, <2>1, <2>3, <3>1 DEF Frames
        <3>3. \A k \in f.i .. f.end : f.list[k] # NoClient
            BY <1>2, <1>3, <3>2
        <3> QED
            BY <1>2, <1>3, <1>4, <1>6, <2>1, <2>2, <2>3, <3>3, FramesReplaced
    <2>4. CASE ~IsGroup(Top)
        BY <1>1, <1>2, <1>3, <1>4, <1>6, <2>1, <2>2, <2>4, FramesReplaced
    <2> QED
        BY <2>3, <2>4
<1>10. Resets'
    <2>1. ASSUME NEW k \in 1 .. Len(m_deqConnections), m_deqConnections[k] = NoClient
          PROVE  ~IsGroup(f) /\ k < f.i /\ f.afterDisconectSend # <<>>
        <3>1. ~IsGroup(Top) /\ k < Top.i /\ Top.afterDisconectSend # <<>>
            BY <1>2, <2>1 DEF IInv, Resets
        <3>2. k \in Nat
            OBVIOUS
        <3> QED
            BY <1>2, <1>3, <1>6, <3>1, <3>2
    <2> QED
        BY <1>1, <1>3, <1>5, <2>1 DEF Resets, IsGroup
<1>13. Erases'
    BY <1>3, <1>5 DEF Erases
<1>11. Farewells'
    <2>1. ASSUME NEW d \in Clients, NEW c \in Clients, Pending(c, d)
          PROVE  c \in told'[d] \/ Pending(c, d)'
        <3>1. CASE \E n \in 1 .. Len(stack) : InSeq(c, stack[n].afterDisconectSend)
            <4>1. PICK n \in 1 .. Len(stack) : InSeq(c, stack[n].afterDisconectSend)
                BY <3>1
            <4>2. stack'[n].afterDisconectSend = stack[n].afterDisconectSend
                BY <1>3, <1>5 DEF Top
            <4>3. InSeq(c, stack'[n].afterDisconectSend)
                BY <4>1, <4>2
            <4> QED
                BY <1>5, <4>3 DEF Pending, InSeq
        <3>2. CASE /\ stack # <<>> /\ Top.phase = "loop" /\ ~IsGroup(Top)
                   /\ Top.msg = c /\ Top.ignore = NoClient
                   /\ \E k \in Top.i .. Top.end : m_deqConnections[k] = d
            <4>1. PICK k \in Top.i .. Top.end : m_deqConnections[k] = d
                BY <3>2
            <4>2. CASE k = Top.i
                BY <1>2, <3>2, <4>1, <4>2
            <4>3. CASE k # Top.i
                <5>1. k \in f.i .. f.end
                    BY <1>2, <1>3, <4>3
                <5> QED
                    BY <1>1, <1>3, <1>5, <1>6, <3>2, <4>1, <5>1 DEF Pending, IsGroup
            <4> QED
                BY <4>2, <4>3
        <3> QED
            BY <2>1, <3>1, <3>2 DEF Pending
    <2>2. ASSUME NEW d \in Clients, open[d], NEW c \in owed[d]
          PROVE  c \in told'[d] \/ Pending(c, d)'
        <3>1. c \in Clients /\ (c \in told[d] \/ Pending(c, d))
            BY <2>2 DEF IInv, Types, Farewells
        <3> QED
            BY <2>1, <3>1
    <2>3. /\ \A d \in Clients : d \notin known => owed[d] = {}
          /\ \A d \in Clients : open[d] /\ owed[d] # {} => InSeq(d, m_deqConnections)
        BY DEF IInv, Farewells
    <2> QED
        BY <1>1, <2>2, <2>3 DEF Farewells, InSeq
<1>12. Depth'
    <2>1. Dropped' = Dropped
        BY <1>1 DEF Dropped, InSeq
    <2>2. Cardinality(Dropped) \in Nat
        BY DroppedFinite DEF IInv
    <2>3. Cardinality(Dropped') >= Cardinality(Dropped)
        BY <2>1, <2>2
    <2> QED
        BY <1>2, <1>3, <1>4, <1>6, <1>7, <2>3, DepthReplaced DEF IInv
<1> QED
    BY <1>7, <1>8, <1>9, <1>10, <1>11, <1>12, <1>13 DEF IInv

\* The client to ignore is passed over.
LEMMA IgnoredStep ==
    ASSUME IInv, VisitIgnored
    PROVE  IInv'
<1> USE ClientAssumption
<1>1. /\ Visiting /\ ~IsGroup(Top) /\ Client = Top.ignore /\ SetTop(Visited)
      /\ UNCHANGED <<Outside, m_deqConnections, history>> /\ told' = told
    BY DEF VisitIgnored, Ignored
<1>2. Top.ignore # NoClient
    BY <1>1, Visits
<1>3. told' \in [Clients -> SUBSET Clients]
    BY <1>1 DEF IInv, Types
<1> QED
    BY <1>1, <1>2, <1>3, Passed

\* A connected client is sent the message.
LEMMA ConnectedStep ==
    ASSUME IInv, VisitConnected
    PROVE  IInv'
<1>1. /\ Visiting /\ SetTop(Visited)
      /\ UNCHANGED <<Outside, m_deqConnections, history>>
      /\ told' = [told EXCEPT ![Client] = @ \cup ({Top.msg} \ {NoClient})]
    BY DEF VisitConnected, SendTo
<1>2. Client \in Clients /\ Top \in FrameType
    BY <1>1, Visits
<1>3. Top.msg \in Clients \cup {NoClient}
    BY <1>2 DEF FrameType, Pointer
<1>4. told \in [Clients -> SUBSET Clients]
    BY DEF IInv, Types
<1>5. /\ told' \in [Clients -> SUBSET Clients]
      /\ \A d \in Clients : told[d] \subseteq told'[d]
      /\ Top.msg # NoClient => Top.msg \in told'[Client]
    BY <1>1, <1>2, <1>3, <1>4
<1> QED
    BY <1>1, <1>5, Passed

\* A disconnected client: its pointer is reset in the list the loop is over, and its
\* farewell is kept for the end of the loop.
LEMMA Reset ==
    ASSUME IInv, VisitDisconnected
    PROVE  /\ UNCHANGED <<Outside, known, raced, told>>
           /\ Visiting /\ ~open[Client] /\ OnClientDisconnect(Client)
           /\ m_deqConnections' = IF IsGroup(Top) THEN m_deqConnections
                                  ELSE [m_deqConnections EXCEPT ![Top.i] = NoClient]
           /\ direct' = IF IsGroup(Top) THEN [direct EXCEPT ![Client] = @ + 1] ELSE direct
           /\ \E f \in FrameType :
                  /\ SetTop(f)
                  /\ f.i = Top.i + 1 /\ f.end = Top.end /\ f.phase = "loop"
                  /\ f.msg = Top.msg /\ f.ignore = Top.ignore
                  /\ f.afterDisconectSend = Append(Top.afterDisconectSend, Client)
                  /\ IsGroup(f) <=> IsGroup(Top)
                  /\ f.list = IF IsGroup(Top) THEN [Top.list EXCEPT ![Top.i] = NoClient]
                              ELSE Top.list
<1> USE ClientAssumption
<1>1. /\ Visiting /\ ~IsConnected(Client) /\ OnClientDisconnect(Client)
      /\ UNCHANGED <<Outside, told>>
    BY DEF VisitDisconnected
<1>2. /\ Top \in FrameType /\ Visited \in FrameType /\ Visited.i = Top.i + 1
      /\ Visited.list = Top.list /\ Visited.end = Top.end /\ Visited.phase = "loop"
      /\ Visited.msg = Top.msg /\ Visited.ignore = Top.ignore
      /\ Visited.afterDisconectSend = Top.afterDisconectSend
      /\ Client \in Clients
      /\ IsGroup(Top) => Top.i \in 1 .. Len(Top.list)
    BY <1>1, Visits
<1>3. UNCHANGED <<known, raced>> /\ ~open[Client]
    BY <1>1, <1>2 DEF OnClientDisconnect, IsConnected
<1> DEFINE after == [Visited EXCEPT !.afterDisconectSend = Append(@, Client)]
           group == [after EXCEPT !.list[Top.i] = NoClient]
<1>4. /\ after \in FrameType /\ after.i = Top.i + 1 /\ after.list = Top.list
      /\ after.end = Top.end /\ after.phase = "loop"
      /\ after.msg = Top.msg /\ after.ignore = Top.ignore
      /\ after.afterDisconectSend = Append(Top.afterDisconectSend, Client)
    <2>1. Append(Visited.afterDisconectSend, Client) \in Seq(Clients)
        BY <1>2, AppendProperties DEF FrameType
    <2> QED
        BY <1>2, <2>1 DEF FrameType
<1> HIDE DEF after
<1>5. CASE IsGroup(Top)
    <2>1. /\ SetTop(group) /\ m_deqConnections' = m_deqConnections
          /\ direct' = [direct EXCEPT ![Client] = @ + 1]
        BY <1>5 DEF VisitDisconnected, after
    <2>2. /\ [Top.list EXCEPT ![Top.i] = NoClient] \in Seq(Pointer)
          /\ Len([Top.list EXCEPT ![Top.i] = NoClient]) = Len(Top.list)
        <3>1. Top.list \in Seq(Pointer) /\ NoClient \in Pointer /\ Top.i \in 1 .. Len(Top.list)
            BY <1>2, <1>5 DEF FrameType, Pointer
        <3> QED
            BY <3>1, ExceptSeq
    <2>3. /\ group \in FrameType /\ group.i = Top.i + 1
          /\ group.list = [Top.list EXCEPT ![Top.i] = NoClient]
          /\ group.end = Top.end /\ group.phase = "loop"
          /\ group.msg = Top.msg /\ group.ignore = Top.ignore
          /\ group.afterDisconectSend = Append(Top.afterDisconectSend, Client)
        BY <1>4, <2>2 DEF FrameType
    <2> HIDE DEF group
    <2>4. IsGroup(group)
        <3>1. Len(Top.list) \in 1 .. Len(Top.list)
            BY <1>2, <1>5 DEF FrameType
        <3>2. Len(group.list) # 0
            BY <2>2, <2>3, <3>1
        <3> QED
            BY <3>2 DEF IsGroup
    <2> QED
        BY <1>1, <1>3, <1>5, <2>1, <2>3, <2>4
<1>6. CASE ~IsGroup(Top)
    <2>1. /\ SetTop(after) /\ direct' = direct
          /\ m_deqConnections' = [m_deqConnections EXCEPT ![Top.i] = NoClient]
        BY <1>6 DEF VisitDisconnected, after
    <2>2. ~IsGroup(after)
        BY <1>4, <1>6 DEF IsGroup
    <2> QED
        BY <1>1, <1>3, <1>4, <1>6, <2>1, <2>2
<1> QED
    BY <1>5, <1>6

\* A client that is gone is reset once and its farewell kept.
LEMMA DisconnectedStep ==
    ASSUME IInv, VisitDisconnected
    PROVE  IInv'
<1> USE ClientAssumption
<1> DEFINE D == m_deqConnections
           L == Len(m_deqConnections)
           b == Client
<1>1. /\ UNCHANGED <<accepting, nIDCounter, id, open, m_qMessagesIn, current, held, known,
                     raced, told>>
      /\ Visiting /\ ~open[b]
      /\ notified' = [notified EXCEPT ![b] = @ + 1]
      /\ owed' = [d \in Clients |-> IF open[d] /\ InSeq(d, D) THEN owed[d] \cup {b} ELSE owed[d]]
      /\ m_deqConnections' = IF IsGroup(Top) THEN D ELSE [D EXCEPT ![Top.i] = NoClient]
      /\ direct' = IF IsGroup(Top) THEN [direct EXCEPT ![b] = @ + 1] ELSE direct
    BY Reset DEF Outside, OnClientDisconnect
<1>2. PICK f \in FrameType :
          /\ SetTop(f)
          /\ f.i = Top.i + 1 /\ f.end = Top.end /\ f.phase = "loop"
          /\ f.msg = Top.msg /\ f.ignore = Top.ignore
          /\ f.afterDisconectSend = Append(Top.afterDisconectSend, b)
          /\ IsGroup(f) <=> IsGroup(Top)
          /\ f.list = IF IsGroup(Top) THEN [Top.list EXCEPT ![Top.i] = NoClient] ELSE Top.list
    BY Reset
<1>3. /\ Top \in FrameType /\ Top.i \in Nat /\ Top.i >= 1 /\ Top.end \in Nat
      /\ Top.i <= Top.end /\ Top.phase = "loop" /\ stack # <<>> /\ b \in Clients
      /\ IF IsGroup(Top) THEN Top.end = Len(Top.list) /\ Top.i \in 1 .. Len(Top.list)
         ELSE Top.end <= L /\ Top.i \in 1 .. L /\ D[Top.i] = b /\ b \in known
    BY <1>1, Visits
<1> HIDE DEF b
<1>4. /\ stack' \in Seq(FrameType) /\ Len(stack') = Len(stack)
      /\ stack' # <<>> /\ Top' = f
      /\ \A n \in 1 .. Len(stack) : stack'[n] = IF n = Len(stack) THEN f ELSE stack[n]
    BY <1>2, <1>3, TopReplaced DEF IInv
<1>5. /\ D \in Seq(Pointer) /\ L \in Nat /\ NoClient \in Pointer
      /\ \A k \in 1 .. L : D[k] \in known \cup {NoClient}
      /\ \A k, m \in 1 .. L : k < m /\ D[k] # NoClient => D[k] # D[m]
      /\ \A d \in Clients : open[d] => d \in raced \/ InSeq(d, D)
      /\ known \subseteq Clients
    <2>1. NoClient \in Pointer
        BY DEF Pointer
    <2>2. D \in Seq(Pointer) /\ L \in Nat /\ known \subseteq Clients
        BY DEF IInv, Types
    <2> QED
        BY <2>1, <2>2 DEF IInv, Deque
<1> DEFINE E == m_deqConnections'
<1>6. /\ E \in Seq(Pointer) /\ Len(E) = L
      /\ \A k \in 1 .. L : E[k] = IF ~IsGroup(Top) /\ k = Top.i THEN NoClient ELSE D[k]
    <2>1. CASE IsGroup(Top)
        BY <1>1, <1>5, <2>1
    <2>2. CASE ~IsGroup(Top)
        BY <1>1, <1>3, <1>5, <2>2, ExceptSeq
    <2> QED
        BY <2>1, <2>2
<1> HIDE DEF E, D, L
<1>7. L = Len(D)
    BY DEF L, D
<1>8. ASSUME NEW d \in Clients
      PROVE  InSeq(d, E) <=> InSeq(d, D) /\ (IsGroup(Top) \/ d # b)
    <2>1. ASSUME NEW k \in 1 .. L, E[k] = d
          PROVE  InSeq(d, D) /\ (IsGroup(Top) \/ d # b)
        <3>1. E[k] = D[k] /\ (IsGroup(Top) \/ k # Top.i)
            BY <1>6, <2>1
        <3>2. ASSUME ~IsGroup(Top), d = b PROVE FALSE
            <4>1. k \in Nat /\ k # Top.i
                BY <3>1, <3>2
            <4>2. k < Top.i \/ Top.i < k
                BY <1>3, <4>1
            <4>3. D[k] = D[Top.i] /\ Top.i \in 1 .. L /\ D[k] # NoClient
                BY <1>3, <2>1, <3>1, <3>2
            <4> QED
                BY <1>5, <4>2, <4>3
        <3> QED
            BY <1>7, <2>1, <3>1, <3>2 DEF InSeq
    <2>2. ASSUME NEW k \in 1 .. L, D[k] = d, IsGroup(Top) \/ d # b
          PROVE  InSeq(d, E)
        <3>1. E[k] = d
            BY <1>3, <1>6, <2>2
        <3> QED
            BY <1>6, <3>1 DEF InSeq
    <2> QED
        BY <1>6, <1>7, <2>1, <2>2 DEF InSeq
<1>9. Types'
    <2>1. /\ notified \in [Clients -> Nat] /\ direct \in [Clients -> Nat]
          /\ owed \in [Clients -> SUBSET Clients]
        BY DEF IInv, Types
    <2>2. notified' \in [Clients -> Nat] /\ direct' \in [Clients -> Nat]
        BY <1>1, <1>3, <2>1
    <2>3. owed' \in [Clients -> SUBSET Clients]
        BY <1>1, <1>3, <2>1
    <2> QED
        BY <1>1, <1>4, <1>6, <2>2, <2>3 DEF IInv, Types, E
<1>10. Deque'
    <2>1. \A k \in 1 .. L : E[k] \in known \cup {NoClient}
        BY <1>5, <1>6
    <2>2. \A k, m \in 1 .. L : k < m /\ E[k] # NoClient => E[k] # E[m]
        BY <1>5, <1>6
    <2>3. \A d \in Clients : open[d] => d \in raced \/ InSeq(d, E)
        BY <1>1, <1>5, <1>8
    <2> QED
        BY <1>1, <1>6, <2>1, <2>2, <2>3 DEF Deque, E
<1>11. Accepting'
    <2> SUFFICES ASSUME accepting # NoClient, accepting \notin raced
                 PROVE  open[accepting] /\ E # <<>> /\ E[L] = accepting
        BY <1>1, <1>6 DEF Accepting, E
    <2>1. /\ open[accepting] /\ D # <<>> /\ D[L] = accepting
        BY DEF IInv, Accepting, D, L
    <2>2. L \in 1 .. L
        BY <1>5, <1>7, <2>1, EmptySeq
    <2>3. E[L] = accepting
        BY <1>1, <1>3, <1>6, <2>1, <2>2
    <2>4. E # <<>>
        BY <1>5, <1>6, <2>2, EmptySeq
    <2> QED
        BY <2>1, <2>3, <2>4
<1>12. Ids'
    <2>1. \A k, m \in 1 .. L : k < m /\ D[k] # NoClient /\ D[m] # NoClient /\ id[D[m]] # 0
                               => id[D[k]] < id[D[m]]
        BY DEF IInv, Ids, D, L
    <2>2. \A k, m \in 1 .. L : k < m /\ E[k] # NoClient /\ E[m] # NoClient /\ id[E[m]] # 0
                               => id[E[k]] < id[E[m]]
        BY <1>6, <2>1
    <2> QED
        BY <1>1, <1>6, <2>2 DEF IInv, Ids, E
<1>13. Frames'
    <2>1. f.i >= 1
        BY <1>2, <1>3
    <2>2. CASE IsGroup(Top)
        <3>1. Len(stack) \in 1 .. Len(stack) /\ Top = stack[Len(stack)]
            BY <1>3, TopFrame DEF IInv, Top
        <3>2. \A k \in Top.i .. Top.end : Top.list[k] # NoClient
            BY <1>3, <2>2, <3>1 DEF IInv, Frames
        <3>3. Top.list \in Seq(Pointer) /\ Top.i \in 1 .. Len(Top.list)
            BY <1>3, <2>2 DEF FrameType
        <3>4. /\ Len(f.list) = Len(Top.list)
              /\ \A k \in 1 .. Len(Top.list) :
                     f.list[k] = IF k = Top.i THEN NoClient ELSE Top.list[k]
            BY <1>2, <1>5, <2>2, <3>3, ExceptSeq
        <3>5. \A k \in f.i .. f.end : k \in Top.i .. Top.end /\ k # Top.i /\ k \in 1 .. Len(Top.list)
            BY <1>2, <1>3, <2>2
        <3>6. \A k \in f.i .. f.end : f.list[k] # NoClient
            BY <3>2, <3>4, <3>5
        <3>7. f.end = Len(f.list)
            BY <1>2, <1>3, <2>2, <3>4
        <3> QED
            BY <1>2, <1>3, <2>1, <2>2, <3>6, <3>7, FramesReplaced DEF IInv
    <2>3. CASE ~IsGroup(Top)
        <3>1. f.end <= Len(m_deqConnections')
            BY <1>2, <1>3, <1>6, <2>3 DEF E
        <3> QED
            BY <1>2, <1>3, <2>1, <2>3, <3>1, FramesReplaced DEF IInv
    <2> QED
        BY <2>2, <2>3
<1>14. f.afterDisconectSend \in Seq(Clients) /\ f.afterDisconectSend # <<>>
       /\ InSeq(b, f.afterDisconectSend)
       /\ \A c : InSeq(c, Top.afterDisconectSend) => InSeq(c, f.afterDisconectSend)
    <2> DEFINE old == Top.afterDisconectSend
               new == f.afterDisconectSend
    <2>1. old \in Seq(Clients) /\ new = Append(old, b)
        BY <1>2, <1>3 DEF FrameType
    <2> HIDE DEF old, new
    <2>2. /\ new \in Seq(Clients) /\ Len(new) = Len(old) + 1 /\ new[Len(old) + 1] = b
          /\ \A k \in 1 .. Len(old) : new[k] = old[k]
        BY <1>3, <2>1, AppendProperties
    <2>3. Len(old) \in Nat /\ Len(old) + 1 \in 1 .. Len(new)
        BY <2>1, <2>2
    <2>4. \A k \in 1 .. Len(old) : k \in 1 .. Len(new)
        BY <2>2, <2>3
    <2>5. new # <<>> /\ InSeq(b, new)
        BY <2>2, <2>3, EmptySeq DEF InSeq
    <2>6. \A c : InSeq(c, old) => InSeq(c, new)
        BY <2>2, <2>4 DEF InSeq
    <2> QED
        BY <2>2, <2>5, <2>6 DEF old, new
<1>15. Resets'
    <2> SUFFICES ASSUME NEW k \in 1 .. L, E[k] = NoClient
                 PROVE  ~IsGroup(Top) /\ k < f.i
        BY <1>2, <1>4, <1>6, <1>14 DEF Resets, IsGroup, E
    <2>1. ~IsGroup(Top) /\ (k = Top.i \/ k < Top.i)
        BY <1>3, <1>6 DEF IInv, Resets, D, L
    <2>2. k \in Nat
        OBVIOUS
    <2> QED
        BY <1>2, <1>3, <2>1, <2>2
<1>19. Erases'
    BY <1>2, <1>4 DEF Erases
<1>16. Notified'
    <2> SUFFICES ASSUME NEW d \in Clients
                 PROVE  /\ \/ notified'[d] = direct'[d]
                           \/ notified'[d] = direct'[d] + 1 /\ d \in known /\ ~InSeq(d, E)
                        /\ d \in known /\ ~InSeq(d, E)
                               => d \in raced \/ notified'[d] = direct'[d] + 1
        <3>1. known' = known /\ raced' = raced
            BY <1>1
        <3> QED
            BY <3>1 DEF Notified, E, InSeq
    <2>1. /\ \/ notified[d] = direct[d]
             \/ notified[d] = direct[d] + 1 /\ d \in known /\ ~InSeq(d, D)
          /\ d \in known /\ ~InSeq(d, D) => d \in raced \/ notified[d] = direct[d] + 1
          /\ direct[d] \in Nat /\ notified[d] \in Nat
          /\ notified \in [Clients -> Nat] /\ direct \in [Clients -> Nat]
        BY DEF IInv, Notified, Types, D
    <2>2. notified'[d] = IF d = b THEN notified[d] + 1 ELSE notified[d]
        BY <1>1, <2>1
    <2>3. CASE IsGroup(Top)
        <3>1. direct'[d] = IF d = b THEN direct[d] + 1 ELSE direct[d]
            BY <1>1, <2>1, <2>3
        <3> QED
            BY <1>8, <2>1, <2>2, <2>3, <3>1
    <2>4. CASE ~IsGroup(Top)
        <3>1. b \in known /\ InSeq(b, D)
            BY <1>3, <1>7, <2>4 DEF InSeq
        <3>2. direct'[d] = direct[d]
            BY <1>1, <2>4
        <3> QED
            BY <1>8, <2>1, <2>2, <2>4, <3>1, <3>2
    <2> QED
        BY <2>3, <2>4
<1>17. Farewells'
    <2>1. ASSUME NEW d \in Clients, open[d], NEW c \in Clients, Pending(c, d)
          PROVE  Pending(c, d)'
        <3>1. CASE \E n \in 1 .. Len(stack) : InSeq(c, stack[n].afterDisconectSend)
            <4>1. PICK n \in 1 .. Len(stack) : InSeq(c, stack[n].afterDisconectSend)
                BY <3>1
            <4>2. InSeq(c, stack'[n].afterDisconectSend)
                BY <1>4, <1>14, <4>1 DEF Top
            <4> QED
                BY <1>4, <4>2 DEF Pending, InSeq
        <3>2. CASE /\ stack # <<>> /\ Top.phase = "loop" /\ ~IsGroup(Top)
                   /\ Top.msg = c /\ Top.ignore = NoClient
                   /\ \E k \in Top.i .. Top.end : m_deqConnections[k] = d
            <4>1. PICK k \in Top.i .. Top.end : D[k] = d
                BY <3>2 DEF D
            <4>2. k # Top.i
                BY <1>1, <1>3, <2>1, <3>2, <4>1
            <4>3. k \in f.i .. f.end /\ k \in 1 .. L
                BY <1>2, <1>3, <1>5, <3>2, <4>2
            <4>4. E[k] = d
                BY <1>6, <4>1, <4>2, <4>3
            <4> QED
                BY <1>2, <1>4, <3>2, <4>3, <4>4 DEF Pending, IsGroup, E
        <3> QED
            BY <2>1, <3>1, <3>2 DEF Pending
    <2>2. ASSUME NEW c, NEW d, c = b PROVE Pending(c, d)'
        <3>1. Len(stack) \in 1 .. Len(stack)
            BY <1>3, TopFrame DEF IInv
        <3>2. InSeq(b, stack'[Len(stack)].afterDisconectSend)
            BY <1>4, <1>14, <3>1
        <3>3. \E n \in 1 .. Len(stack') : InSeq(c, stack'[n].afterDisconectSend)
            BY <1>4, <2>2, <3>1, <3>2
        <3> QED
            BY <3>3 DEF Pending, InSeq
    <2>3. ASSUME NEW d \in Clients, open[d], NEW c \in owed'[d]
          PROVE  c \in told[d] \/ Pending(c, d)'
        <3>1. c = b \/ c \in owed[d]
            BY <1>1, <2>3
        <3>2. c \in owed[d] => c \in Clients /\ (c \in told[d] \/ Pending(c, d))
            BY <2>3 DEF IInv, Types, Farewells
        <3>3. CASE c = b
            BY <2>2, <3>3
        <3>4. CASE c \in owed[d]
            BY <2>1, <2>3, <3>2, <3>4
        <3> QED
            BY <3>1, <3>3, <3>4
    <2>4. ASSUME NEW d \in Clients, d \notin known PROVE owed'[d] = {}
        <3>1. ~InSeq(d, D)
            BY <1>5, <1>7, <2>4 DEF InSeq
        <3>2. owed[d] = {}
            BY <2>4 DEF IInv, Farewells
        <3> QED
            BY <1>1, <3>1, <3>2
    <2>5. ASSUME NEW d \in Clients, open[d], owed'[d] # {} PROVE InSeq(d, E)
        <3>1. InSeq(d, D)
            BY <1>1, <2>5 DEF IInv, Farewells, D
        <3> QED
            BY <1>1, <1>8, <2>5, <3>1
    <2> QED
        BY <1>1, <2>3, <2>4, <2>5 DEF Farewells, E, InSeq
<1>18. Depth'
    <2>1. IsFiniteSet(Dropped) /\ Cardinality(Dropped) \in Nat
        BY DroppedFinite DEF IInv
    <2>2. CASE IsGroup(Top)
        <3>1. Dropped' = Dropped
            BY <1>1, <1>5, <1>8, <2>2 DEF Dropped, D, E
        <3>2. Cardinality(Dropped') >= Cardinality(Dropped)
            BY <2>1, <3>1
        <3> QED
            BY <1>2, <1>3, <1>9, <2>2, <3>2, DepthReplaced DEF IInv
    <2>3. CASE ~IsGroup(Top)
        <3>1. b \in known /\ InSeq(b, D) /\ b \notin Dropped
            BY <1>3, <1>7, <2>3 DEF InSeq, Dropped, D
        <3>2. Dropped' = Dropped \cup {b}
            BY <1>1, <1>5, <1>8, <2>3, <3>1 DEF Dropped, D, E
        <3>3. Cardinality(Dropped') = Cardinality(Dropped) + 1
            BY <2>1, <3>1, <3>2, FS_AddElement
        <3>4. /\ Cardinality(Dropped') >= Cardinality(Dropped)
              /\ Cardinality(Dropped') >= Cardinality(Dropped) + 1
            BY <2>1, <3>3
        <3> QED
            BY <1>2, <1>3, <1>9, <3>4, DepthReplaced DEF IInv
    <2> QED
        BY <2>2, <2>3
<1> QED
    BY <1>9, <1>10, <1>11, <1>12, <1>13, <1>15, <1>16, <1>17, <1>18, <1>19 DEF IInv

-----------------------------------------------------------------------------
(* After the loop *)

\* The steps that keep the deque as it is
LEMMA DequeSame ==
    ASSUME IInv, UNCHANGED <<Outside, m_deqConnections, history, told>>,
           stack' \in Seq(FrameType)
    PROVE  /\ Types' /\ Deque' /\ Accepting' /\ Ids' /\ Notified' /\ Dropped' = Dropped
           /\ UNCHANGED <<open, known, raced, owed>>
           /\ \A c \in Clients : InSeq(c, m_deqConnections)' <=> InSeq(c, m_deqConnections)
<1> USE DEF Outside, history
<1>1. Types' /\ UNCHANGED <<open, known, raced, owed>>
    BY DEF IInv, Types
<1>2. Deque' /\ Accepting' /\ Ids' /\ Notified' /\ Dropped' = Dropped
    BY DEF IInv, Deque, Accepting, Ids, Notified, Dropped, InSeq
<1>3. \A c \in Clients : InSeq(c, m_deqConnections)' <=> InSeq(c, m_deqConnections)
    BY DEF InSeq
<1> QED
    BY <1>1, <1>2, <1>3

\* What has still to be broadcast does not depend on the loop once it is over.
LEMMA PendingKept ==
    ASSUME Types, stack # <<>>, Top.phase = "loop" => Top.i > Top.end,
           NEW f \in FrameType, SetTop(f), f.afterDisconectSend = Top.afterDisconectSend,
           NEW c, NEW d, Pending(c, d)
    PROVE  Pending(c, d)'
<1>1. Len(stack) \in 1 .. Len(stack) /\ Top \in FrameType /\ Top = stack[Len(stack)]
    BY TopFrame DEF Top
<1>2. Top.i \in Nat /\ Top.end \in Nat
    BY <1>1 DEF FrameType
<1>3. /\ Len(stack') = Len(stack)
      /\ \A n \in 1 .. Len(stack) : stack'[n] = IF n = Len(stack) THEN f ELSE stack[n]
    BY TopReplaced
<1>4. \E n \in 1 .. Len(stack) : InSeq(c, stack[n].afterDisconectSend)
    BY <1>2 DEF Pending
<1>5. PICK n \in 1 .. Len(stack) : InSeq(c, stack[n].afterDisconectSend)
    BY <1>4
<1>6. InSeq(c, stack'[n].afterDisconectSend)
    BY <1>1, <1>3, <1>5
<1> QED
    BY <1>3, <1>6 DEF Pending, InSeq

\* A loop over, what it has reset is erased next.
LEMMA EndLoopStep ==
    ASSUME IInv, EndLoop
    PROVE  IInv'
<1> USE ClientAssumption
<1> DEFINE f == IF Top.afterDisconectSend = <<>> THEN [Top EXCEPT !.phase = "farewell"]
                ELSE [Top EXCEPT !.phase = "remove", !.end = Len(m_deqConnections)]
<1>1. /\ stack # <<>> /\ Top.phase = "loop" /\ Top.i > Top.end /\ SetTop(f)
      /\ UNCHANGED <<Outside, m_deqConnections, history, told>>
    <2>1. SetTop(f)
        BY Zenon DEF EndLoop
    <2> HIDE DEF f
    <2> QED
        BY <2>1 DEF EndLoop, InPhase
<1>2. /\ Top \in FrameType /\ Len(stack) \in 1 .. Len(stack) /\ Top = stack[Len(stack)]
      /\ Top.i >= 1 /\ Top.i \in Nat /\ Len(m_deqConnections) \in Nat
    <2>1. /\ Top \in FrameType /\ Len(stack) \in 1 .. Len(stack) /\ Top = stack[Len(stack)]
        BY <1>1, TopFrame DEF IInv, Top
    <2>2. m_deqConnections \in Seq(Pointer)
        BY DEF IInv, Types
    <2>3. Len(m_deqConnections) \in Nat
        BY <2>2
    <2>4. Top.i \in Nat
        BY <2>1 DEF FrameType
    <2>5. Top.i >= 1
        BY <2>1 DEF IInv, Frames
    <2> QED
        BY <2>1, <2>3, <2>4, <2>5
<1>3. /\ f \in FrameType /\ f.i = Top.i /\ f.list = Top.list
      /\ f.phase = IF Top.afterDisconectSend = <<>> THEN "farewell" ELSE "remove"
      /\ f.afterDisconectSend = Top.afterDisconectSend
      /\ IsGroup(f) <=> IsGroup(Top)
    BY <1>2 DEF FrameType, IsGroup
<1> HIDE DEF f
<1>4. /\ stack' \in Seq(FrameType) /\ stack' # <<>> /\ Top' = f
    BY <1>1, <1>3, TopReplaced DEF IInv
<1>5. /\ Types' /\ Deque' /\ Accepting' /\ Ids' /\ Notified' /\ Dropped' = Dropped
      /\ UNCHANGED <<open, known, raced, owed, m_deqConnections, told>>
      /\ \A c \in Clients : InSeq(c, m_deqConnections)' <=> InSeq(c, m_deqConnections)
    BY <1>1, <1>4, DequeSame
<1>6. f.phase # "loop" /\ f.phase # "erase" /\ f.i >= 1
    BY <1>2, <1>3
<1>7. Frames'
    BY <1>1, <1>3, <1>6, FramesReplaced DEF IInv
<1>8. Resets'
    <2>1. ASSUME NEW k \in 1 .. Len(m_deqConnections), m_deqConnections[k] = NoClient
          PROVE  ~IsGroup(f) /\ f.afterDisconectSend # <<>> /\ f.phase = "remove"
        BY <1>3, <2>1 DEF IInv, Resets
    <2> QED
        BY <1>4, <1>5, <2>1 DEF Resets, IsGroup
<1>9. Erases'
    BY <1>4, <1>6 DEF Erases
<1>10. Farewells'
    <2>1. ASSUME NEW c, NEW d, Pending(c, d) PROVE Pending(c, d)'
        BY <1>1, <1>3, <2>1, PendingKept DEF IInv
    <2> QED
        BY <1>5, <2>1 DEF IInv, Farewells
<1>11. Depth'
    <2>1. Cardinality(Dropped') >= Cardinality(Dropped)
        BY <1>5, DroppedFinite DEF IInv
    <2> QED
        BY <1>1, <1>3, <1>5, <2>1, DepthReplaced DEF IInv
<1> QED
    BY <1>5, <1>7, <1>8, <1>9, <1>10, <1>11 DEF IInv

\* remove() moves the pointers that were reset to the end.
LEMMA RemoveStep ==
    ASSUME IInv, Remove
    PROVE  IInv'
<1> USE ClientAssumption
<1> DEFINE D == m_deqConnections
           E == Removed(m_deqConnections)
           N == Cardinality(Kept(m_deqConnections))
           f == [Top EXCEPT !.phase = "erase", !.i = N + 1, !.end = Len(D)]
<1>1. /\ stack # <<>> /\ Top.phase = "remove" /\ SetTop(f)
      /\ UNCHANGED <<Outside, known, notified, direct, owed, told>>
      /\ m_deqConnections' = E
      /\ raced' = raced \cup ({accepting} \ {NoClient})
    BY DEF Remove, InPhase
<1>2. D \in Seq(Pointer) /\ Len(D) \in Nat
    BY DEF IInv, Types
<1>3. /\ E \in Seq(Pointer) /\ Len(E) = Len(D) /\ N \in Nat /\ N <= Len(D)
      /\ Places(D) = 1 .. N
      /\ \A k \in 1 .. Len(D) : k \in Places(D) <=> E[k] # NoClient
      /\ (\A k \in 1 .. Len(D) : D[k] # NoClient) => N = Len(D)
    BY <1>2, RemovedList DEF Places
<1>4. PICK at \in [Places(D) -> 1 .. Len(D)] :
          /\ \A k \in Places(D) : E[k] = D[at[k]]
          /\ \A k, m \in Places(D) : k < m => at[k] < at[m]
          /\ \A i \in 1 .. Len(D) : D[i] # NoClient => \E k \in Places(D) : at[k] = i
    BY <1>2, RemovedList
<1>5. /\ Top \in FrameType /\ Len(stack) \in 1 .. Len(stack) /\ Top = stack[Len(stack)]
    BY <1>1, TopFrame DEF IInv, Top
<1>6. /\ f \in FrameType /\ f.i = N + 1 /\ f.end = Len(D) /\ f.list = Top.list
      /\ f.phase = "erase" /\ f.afterDisconectSend = Top.afterDisconectSend
      /\ IsGroup(f) <=> IsGroup(Top)
    <2>1. N + 1 \in Nat
        BY <1>3
    <2> HIDE DEF N
    <2> QED
        BY <1>2, <1>5, <2>1 DEF FrameType, IsGroup
<1> HIDE DEF f, N
<1>7. /\ stack' \in Seq(FrameType) /\ stack' # <<>> /\ Top' = f
    BY <1>1, <1>6, TopReplaced DEF IInv
<1>8. UNCHANGED <<accepting, nIDCounter, id, open, m_qMessagesIn, current, held>>
    BY <1>1 DEF Outside
<1>9. raced \subseteq raced' /\ raced' \subseteq Clients
      /\ (accepting # NoClient => accepting \in raced')
    BY <1>1 DEF IInv, Types, Pointer
<1>10. Types'
    BY <1>1, <1>3, <1>7, <1>8, <1>9 DEF IInv, Types
<1>11. Places(D) \in SUBSET (1 .. Len(E))
    BY <1>2, <1>3
<1>12. /\ \A k \in 1 .. Len(E) : E[k] \in known \cup {NoClient}
       /\ \A k, m \in 1 .. Len(E) : k < m /\ E[k] # NoClient => E[k] # E[m]
       /\ Ids'
       /\ \A c \in Clients : InSeq(c, E) => InSeq(c, D)
    <2> DEFINE P == Places(D)
    <2>1. /\ \A k \in P : m_deqConnections'[k] = m_deqConnections[at[k]]
          /\ \A k, m \in P : k < m => at[k] < at[m]
          /\ at \in [P -> 1 .. Len(m_deqConnections)]
          /\ P \in SUBSET (1 .. Len(m_deqConnections'))
          /\ \A k \in 1 .. Len(m_deqConnections') : k \in P <=> m_deqConnections'[k] # NoClient
          /\ m_deqConnections' \in Seq(Pointer)
        BY <1>1, <1>3, <1>4, <1>11
    <2>2. Types /\ Deque /\ Ids /\ UNCHANGED <<nIDCounter, id, known>>
        BY <1>1, <1>8 DEF IInv
    <2> HIDE DEF P
    <2>3. /\ \A k \in 1 .. Len(m_deqConnections') :
                 m_deqConnections'[k] \in known \cup {NoClient}
          /\ \A k, m \in 1 .. Len(m_deqConnections') :
                 k < m /\ m_deqConnections'[k] # NoClient =>
                     m_deqConnections'[k] # m_deqConnections'[m]
          /\ Ids'
          /\ \A c \in Clients : InSeq(c, m_deqConnections') => InSeq(c, m_deqConnections)
        BY <2>1, <2>2, Rearranged
    <2>4. E = m_deqConnections'
        BY <1>1
    <2> HIDE DEF E
    <2> QED
        BY <2>3, <2>4
<1> HIDE DEF D, E
<1>13. ASSUME NEW c \in Clients, InSeq(c, D) PROVE InSeq(c, E)
    <2>1. PICK i \in 1 .. Len(D) : D[i] = c
        BY <1>13 DEF InSeq
    <2>2. PICK k \in Places(D) : at[k] = i
        BY <1>4, <2>1
    <2> QED
        BY <1>4, <1>11, <2>1, <2>2 DEF InSeq
<1>14. \A c \in Clients : InSeq(c, m_deqConnections)' <=> InSeq(c, m_deqConnections)
    BY <1>1, <1>12, <1>13 DEF D, InSeq
<1>15. Deque'
    <2>1. \A c \in Clients : open'[c] => c \in raced' \/ InSeq(c, m_deqConnections)'
        BY <1>8, <1>9, <1>14 DEF IInv, Deque
    <2> QED
        BY <1>1, <1>12, <2>1 DEF Deque, InSeq
<1>16. Accepting'
    BY <1>8, <1>9 DEF Accepting
<1>17. Frames'
    <2>1. f.i >= 1 /\ f.phase # "loop"
        BY <1>3, <1>6
    <2> QED
        BY <1>1, <1>6, <2>1, FramesReplaced DEF IInv
<1>18. \A k \in 1 .. Len(E) : E[k] = NoClient => k >= f.i /\ k <= f.end
    BY <1>2, <1>3, <1>6
<1>19. Resets'
    <2>1. ASSUME NEW k \in 1 .. Len(E), E[k] = NoClient
          PROVE  ~IsGroup(f) /\ f.afterDisconectSend # <<>>
        <3>1. k \in Nat /\ ~(k \in 1 .. N) /\ k <= Len(D) /\ k >= 1
            BY <1>2, <1>3, <2>1
        <3>2. N # Len(D)
            BY <1>3, <3>1
        <3>3. PICK m \in 1 .. Len(D) : D[m] = NoClient
            BY <1>3, <3>2
        <3> QED
            BY <1>6, <3>3 DEF IInv, Resets, D
    <2> QED
        BY <1>1, <1>6, <1>7, <1>18, <2>1 DEF Resets, IsGroup
<1>20. Erases'
    <2>1. f.i <= f.end + 1 /\ f.end <= Len(E)
        BY <1>2, <1>3, <1>6
    <2>2. \A k \in f.i .. f.end : k \in 1 .. Len(D) /\ k \notin 1 .. N
        BY <1>2, <1>3, <1>6
    <2>3. \A k \in f.i .. f.end : E[k] = NoClient
        BY <1>3, <2>2
    <2>4. \A k \in f.end + 1 .. Len(E) : FALSE
        BY <1>2, <1>3, <1>6
    <2> QED
        BY <1>1, <1>7, <1>8, <1>9, <2>1, <2>3, <2>4 DEF Erases
<1>21. Notified'
    BY <1>1, <1>9, <1>14 DEF IInv, Notified
<1>22. Farewells'
    <2>1. ASSUME NEW c, NEW d, Pending(c, d) PROVE Pending(c, d)'
        BY <1>1, <1>6, <2>1, PendingKept DEF IInv
    <2> QED
        BY <1>1, <1>8, <1>14, <2>1 DEF IInv, Farewells
<1>23. Depth'
    <2>1. Dropped' = Dropped
        BY <1>1, <1>14 DEF IInv, Types, Dropped
    <2>2. Cardinality(Dropped') >= Cardinality(Dropped)
        BY <2>1, DroppedFinite DEF IInv
    <2> QED
        BY <1>1, <1>6, <1>10, <2>2, DepthReplaced DEF IInv
<1> QED
    BY <1>10, <1>12, <1>15, <1>16, <1>17, <1>19, <1>20, <1>21, <1>22, <1>23 DEF IInv

\* What erase() leaves of a list: not the positions i .. e.
Erased(list, i, e) == SubSeq(list, 1, i - 1) \o SubSeq(list, e + 1, Len(list))

LEMMA ErasedList ==
    ASSUME NEW list \in Seq(Pointer), NEW i \in Nat, NEW e \in Nat,
           i >= 1, i <= e + 1, e <= Len(list),
           NEW E, E = Erased(list, i, e)
    PROVE  /\ E \in Seq(Pointer) /\ Len(E) = Len(list) - (e + 1 - i)
           /\ \A k \in 1 .. Len(E) : E[k] = list[IF k < i THEN k ELSE k + (e + 1 - i)]
<1> DEFINE A == SubSeq(list, 1, i - 1)
           B == SubSeq(list, e + 1, Len(list))
           L == Len(list)
<1>1. L \in Nat /\ \A k \in 1 .. L : list[k] \in Pointer
    BY ElementOfSeq
<1>2. /\ A \in Seq(Pointer) /\ Len(A) = i - 1
      /\ \A k \in 1 .. i - 1 : A[k] = list[k]
    <2> DEFINE m == i - 1
    <2>1. 1 \in Int /\ m \in Int /\ m \in Nat
        OBVIOUS
    <2>2. \A k \in 1 .. m : list[k] \in Pointer
        BY <1>1
    <2>3. A = SubSeq(list, 1, m)
        OBVIOUS
    <2> HIDE DEF A, m
    <2>4. /\ A \in Seq(Pointer)
          /\ Len(A) = IF 1 <= m THEN m - 1 + 1 ELSE 0
          /\ \A k \in 1 .. m - 1 + 1 : A[k] = list[1 + k - 1]
        BY <2>1, <2>2, <2>3, SubSeqProperties
    <2>5. Len(A) = m /\ \A k \in 1 .. m : A[k] = list[k]
        BY <2>1, <2>4
    <2> QED
        BY <2>4, <2>5 DEF m
<1>3. /\ B \in Seq(Pointer) /\ Len(B) = L - e
      /\ \A k \in 1 .. L - e : B[k] = list[e + k]
    <2> DEFINE m == e + 1
    <2>1. m \in Int /\ L \in Int
        BY <1>1
    <2>2. \A k \in m .. L : list[k] \in Pointer
        BY <1>1
    <2>3. B = SubSeq(list, m, L)
        OBVIOUS
    <2> HIDE DEF B, m, L
    <2>4. /\ B \in Seq(Pointer)
          /\ Len(B) = IF m <= L THEN L - m + 1 ELSE 0
          /\ \A k \in 1 .. L - m + 1 : B[k] = list[m + k - 1]
        BY <2>1, <2>2, <2>3, SubSeqProperties
    <2>5. Len(B) = L - e /\ \A k \in 1 .. L - e : B[k] = list[e + k]
        BY <1>1, <2>4 DEF m, L
    <2> QED
        BY <2>4, <2>5
<1>4. E = A \o B
    BY DEF Erased
<1> HIDE DEF A, B, L
<1>5. /\ E \in Seq(Pointer) /\ Len(E) = Len(A) + Len(B)
      /\ \A k \in 1 .. Len(A) + Len(B) : E[k] = IF k <= Len(A) THEN A[k] ELSE B[k - Len(A)]
    <2>1. A \in Seq(Pointer) /\ B \in Seq(Pointer)
        BY <1>2, <1>3
    <2>2. /\ A \o B \in Seq(Pointer) /\ Len(A \o B) = Len(A) + Len(B)
          /\ \A k \in 1 .. Len(A) + Len(B) :
                 (A \o B)[k] = IF k <= Len(A) THEN A[k] ELSE B[k - Len(A)]
        BY <2>1, ConcatProperties
    <2> QED
        BY <2>2, <1>4
<1>6. Len(E) = L - (e + 1 - i)
    <2>1. L - e \in Nat /\ i - 1 + (L - e) = L - (e + 1 - i)
        BY <1>1, <1>3
    <2> QED
        BY <1>2, <1>3, <1>5, <2>1
<1>7. ASSUME NEW k \in 1 .. Len(E)
      PROVE  E[k] = list[IF k < i THEN k ELSE k + (e + 1 - i)]
    <2>1. k \in Nat /\ k >= 1 /\ k <= L - (e + 1 - i)
        <3> DEFINE n == L - (e + 1 - i)
        <3>1. n \in Int
            BY <1>1
        <3>2. k \in 1 .. n
            BY <1>6
        <3> HIDE DEF n
        <3>3. k \in Nat /\ k >= 1 /\ k <= n
            BY <3>1, <3>2
        <3> QED
            BY <3>3 DEF n
    <2>2. CASE k < i
        <3>1. k \in 1 .. i - 1 /\ k <= Len(A) /\ k \in 1 .. Len(A) + Len(B)
            BY <1>1, <1>2, <1>3, <2>1, <2>2
        <3> QED
            BY <1>2, <1>5, <2>2, <3>1
    <2>3. CASE ~(k < i)
        <3> DEFINE m == k - (i - 1)
        <3>1. m \in 1 .. L - e /\ ~(k <= Len(A)) /\ k \in 1 .. Len(A) + Len(B)
              /\ k - Len(A) = m /\ e + m = k + (e + 1 - i)
            BY <1>1, <1>2, <1>3, <2>1, <2>3
        <3> HIDE DEF m
        <3>2. E[k] = B[m] /\ B[m] = list[e + m]
            BY <1>3, <1>5, <3>1
        <3> QED
            BY <2>3, <3>1, <3>2
    <2> QED
        BY <2>2, <2>3
<1>8. Len(E) = Len(list) - (e + 1 - i)
    BY <1>6 DEF L
<1> QED
    BY <1>5, <1>7, <1>8

\* erase() drops null pointers, and connections that met it.
LEMMA EraseStep ==
    ASSUME IInv, Erase
    PROVE  IInv'
<1> USE ClientAssumption
<1> DEFINE D == m_deqConnections
           E == m_deqConnections'
           L == Len(m_deqConnections)
           i == Top.i
           f == [Top EXCEPT !.phase = "farewell"]
<1>1. /\ stack # <<>> /\ Top.phase = "erase" /\ SetTop(f)
      /\ UNCHANGED <<Outside, history, told>>
    BY DEF Erase, InPhase
<1>2. PICK e \in Top.end .. L : E = SubSeq(D, 1, i - 1) \o SubSeq(D, e + 1, L)
    BY DEF Erase
<1>3. D \in Seq(Pointer) /\ L = Len(D) /\ L \in Nat
    BY DEF IInv, Types
<1>4. /\ Top \in FrameType /\ Len(stack) \in 1 .. Len(stack) /\ Top = stack[Len(stack)]
    BY <1>1, TopFrame DEF IInv, Top
<1>5. i \in Nat /\ Top.end \in Nat /\ i >= 1
    BY <1>4 DEF FrameType, IInv, Frames
<1>6. /\ i <= Top.end + 1 /\ Top.end <= L
      /\ \A k \in i .. Top.end : D[k] = NoClient
      /\ \A k \in Top.end + 1 .. L : D[k] \in raced /\ owed[D[k]] = {}
      /\ accepting # NoClient => accepting \in raced
    BY <1>1 DEF IInv, Erases
<1>7. /\ f \in FrameType /\ f.i = i /\ f.list = Top.list
      /\ f.phase = "farewell" /\ f.afterDisconectSend = Top.afterDisconectSend
      /\ IsGroup(f) <=> IsGroup(Top)
    BY <1>4 DEF FrameType, IsGroup
<1>8. \A k \in 1 .. L : D[k] = NoClient => k >= i /\ k <= Top.end
    BY <1>1 DEF IInv, Resets
<1>9. /\ UNCHANGED <<accepting, nIDCounter, id, open, m_qMessagesIn, current, held>>
      /\ UNCHANGED <<known, raced, notified, direct, owed, told>>
    BY <1>1 DEF Outside, history
<1>10. /\ stack' \in Seq(FrameType) /\ stack' # <<>> /\ Top' = f
    BY <1>1, <1>7, TopReplaced DEF IInv
<1>11. e \in Nat /\ e <= L /\ e >= Top.end /\ i <= e + 1
    BY <1>3, <1>5, <1>6
<1> HIDE DEF D, E, L, i, f
<1> DEFINE at(k) == IF k < i THEN k ELSE k + (e + 1 - i)
           P == 1 .. Len(E)
           place == [k \in P |-> at(k)]
<1>12. /\ E \in Seq(Pointer) /\ Len(E) = L - (e + 1 - i)
       /\ \A k \in P : E[k] = D[at(k)]
    <2>1. /\ e \in Nat /\ e <= Len(D) /\ i <= e + 1
          /\ E = Erased(D, i, e)
        BY <1>2, <1>3, <1>11 DEF Erased
    <2>2. /\ E \in Seq(Pointer) /\ Len(E) = Len(D) - (e + 1 - i)
          /\ \A k \in 1 .. Len(E) : E[k] = D[IF k < i THEN k ELSE k + (e + 1 - i)]
        <3>1. D \in Seq(Pointer) /\ i \in Nat /\ e \in Nat /\ i >= 1 /\ i <= e + 1 /\ e <= Len(D)
            BY <1>3, <1>5, <2>1
        <3>2. E \in Seq(Pointer)
            BY <2>1, <3>1, ErasedList
        <3>3. Len(E) = Len(D) - (e + 1 - i)
            BY <2>1, <3>1, ErasedList
        <3>4. \A k \in 1 .. Len(E) : E[k] = D[IF k < i THEN k ELSE k + (e + 1 - i)]
            BY <2>1, <3>1, ErasedList
        <3> QED
            BY <3>2, <3>3, <3>4
    <2> QED
        BY <1>3, <2>2
<1>13. \A k \in P : k \in Nat /\ at(k) \in 1 .. L /\ (at(k) < i \/ at(k) > e)
    BY <1>3, <1>5, <1>11, <1>12
<1>14. \A k, m \in P : k < m => at(k) < at(m)
    BY <1>5, <1>11, <1>13
<1>15. ASSUME NEW k \in 1 .. L, k < i \/ k > e PROVE \E m \in P : at(m) = k
    <2>1. CASE k < i
        <3>1. k \in P /\ at(k) = k
            BY <1>3, <1>5, <1>11, <1>12, <2>1
        <3> QED
            BY <3>1
    <2>2. CASE k > e
        <3> DEFINE m == k - (e + 1 - i)
        <3>1. m \in P /\ ~(m < i) /\ m + (e + 1 - i) = k
            BY <1>3, <1>5, <1>11, <1>12, <2>2
        <3> HIDE DEF m, P
        <3>2. at(m) = k
            BY <3>1
        <3> QED
            BY <3>1, <3>2
    <2> QED
        BY <1>15, <2>1, <2>2
<1> HIDE DEF at
<1>16. \A k \in P : E[k] # NoClient
    <2> SUFFICES ASSUME NEW k \in P PROVE E[k] # NoClient
        OBVIOUS
    <2>1. at(k) \in 1 .. L /\ (at(k) < i \/ at(k) > e) /\ E[k] = D[at(k)]
        BY <1>12, <1>13
    <2>2. ~(at(k) >= i /\ at(k) <= Top.end)
        BY <1>3, <1>5, <1>11, <2>1
    <2> QED
        BY <1>8, <2>1, <2>2
<1>17. place \in [P -> 1 .. L] /\ \A k \in P : place[k] = at(k)
    BY <1>13
<1>18. /\ \A k \in 1 .. Len(E) : E[k] \in known \cup {NoClient}
       /\ \A k, m \in 1 .. Len(E) : k < m /\ E[k] # NoClient => E[k] # E[m]
       /\ Ids'
       /\ \A c \in Clients : InSeq(c, E) => InSeq(c, D)
    <2>1. /\ \A k \in P : E[k] = D[place[k]]
          /\ \A k, m \in P : k < m => place[k] < place[m]
          /\ place \in [P -> 1 .. L]
          /\ P \in SUBSET (1 .. Len(E))
          /\ \A k \in 1 .. Len(E) : k \in P <=> E[k] # NoClient
        BY <1>12, <1>14, <1>16, <1>17
    <2> HIDE DEF place, P
    <2>2. Types /\ Deque /\ Ids
        BY DEF IInv
    <2> QED
        BY <1>9, <1>12, <2>1, <2>2, Rearranged DEF D, E, L
<1>19. ASSUME NEW c \in Clients, InSeq(c, D)
       PROVE  InSeq(c, E) \/ (c \in raced /\ owed[c] = {})
    <2>1. PICK k \in 1 .. L : D[k] = c
        BY <1>3, <1>19 DEF InSeq
    <2>2. CASE k < i \/ k > e
        <3>1. PICK m \in P : at(m) = k
            BY <1>15, <2>2
        <3>2. E[m] = c
            BY <1>12, <2>1, <3>1
        <3> QED
            BY <3>2 DEF InSeq
    <2>3. CASE ~(k < i \/ k > e)
        <3>1. k \in i .. Top.end \/ k \in Top.end + 1 .. L
            BY <1>3, <1>5, <1>11, <2>3
        <3> QED
            BY <1>6, <2>1, <3>1
    <2> QED
        BY <2>2, <2>3
<1> HIDE DEF P
<1>20. \A c \in Clients : /\ InSeq(c, m_deqConnections)' => InSeq(c, m_deqConnections)
                          /\ InSeq(c, m_deqConnections) =>
                                 InSeq(c, m_deqConnections)' \/ (c \in raced /\ owed[c] = {})
    BY <1>18, <1>19 DEF D, E, InSeq
<1>21. Types'
    BY <1>9, <1>10, <1>12 DEF IInv, Types, E
<1>22. Deque'
    <2>1. \A c \in Clients : open'[c] => c \in raced' \/ InSeq(c, m_deqConnections)'
        BY <1>9, <1>20 DEF IInv, Deque
    <2> QED
        BY <1>9, <1>18, <2>1 DEF Deque, InSeq, E
<1>23. Accepting'
    BY <1>6, <1>9 DEF Accepting
<1>24. Frames'
    <2>1. f.i >= 1 /\ f.phase # "loop"
        BY <1>5, <1>7
    <2> QED
        BY <1>1, <1>7, <2>1, FramesReplaced DEF IInv
<1>25. Resets' /\ Erases'
    <2>1. f.phase # "erase"
        BY <1>7
    <2> QED
        BY <1>10, <1>16, <2>1 DEF Resets, Erases, E, P
<1>26. Notified'
    BY <1>9, <1>20 DEF IInv, Notified
<1>27. Farewells'
    <2>1. ASSUME NEW c, NEW d, Pending(c, d) PROVE Pending(c, d)'
        BY <1>1, <1>7, <2>1, PendingKept DEF IInv
    <2> QED
        BY <1>9, <1>20, <2>1 DEF IInv, Farewells
<1>28. Depth'
    <2>1. Dropped \in SUBSET Dropped'
        BY <1>9, <1>20 DEF IInv, Types, Dropped
    <2>2. IsFiniteSet(Dropped')
        <3>1. IsFiniteSet(known') /\ Dropped' \in SUBSET known'
            BY <1>21 DEF Types, Dropped
        <3> QED
            BY <3>1, FS_Subset
    <2>3. /\ Cardinality(Dropped) <= Cardinality(Dropped')
          /\ Cardinality(Dropped) \in Nat /\ Cardinality(Dropped') \in Nat
        BY <2>1, <2>2, FS_Subset, FS_CardinalityType
    <2>4. Cardinality(Dropped') >= Cardinality(Dropped)
        BY <2>3
    <2> QED
        BY <1>1, <1>7, <1>21, <2>4, DepthReplaced DEF IInv
<1> QED
    BY <1>18, <1>21, <1>22, <1>23, <1>24, <1>25, <1>26, <1>27, <1>28 DEF IInv

\* A call returns when its farewells have been sent.
LEMMA ReturnStep ==
    ASSUME IInv, Return
    PROVE  IInv'
<1> DEFINE L == Len(stack)
<1>1. /\ stack # <<>> /\ Top.phase = "farewell" /\ Top.afterDisconectSend = <<>>
      /\ stack' = SubSeq(stack, 1, L - 1)
      /\ UNCHANGED <<Outside, m_deqConnections, history, told>>
    BY DEF Return, InPhase
<1>2. /\ L \in Nat /\ L >= 1 /\ L \in 1 .. L /\ Top = stack[L]
      /\ stack \in Seq(FrameType) /\ Top \in FrameType
    BY <1>1, TopFrame DEF IInv, Types, Top
<1>3. /\ stack' \in Seq(FrameType) /\ Len(stack') = L - 1
      /\ \A n \in 1 .. L - 1 : stack'[n] = stack[n] /\ n \in 1 .. L /\ n < L
    <2> DEFINE m == L - 1
    <2>1. 1 \in Int /\ m \in Nat /\ m \in Int
        BY <1>2
    <2>2. \A n \in 1 .. m : n \in 1 .. L /\ n < L
        BY <1>2
    <2>3. \A n \in 1 .. m : stack[n] \in FrameType
        BY <1>2, <2>2, ElementOfSeq
    <2>4. stack' = SubSeq(stack, 1, m)
        BY <1>1
    <2> HIDE DEF L, m
    <2>5. /\ SubSeq(stack, 1, m) \in Seq(FrameType)
          /\ Len(SubSeq(stack, 1, m)) = IF 1 <= m THEN m - 1 + 1 ELSE 0
          /\ \A n \in 1 .. m - 1 + 1 : SubSeq(stack, 1, m)[n] = stack[1 + n - 1]
        BY <2>1, <2>3, SubSeqProperties
    <2>6. Len(stack') = m /\ \A n \in 1 .. m : stack'[n] = stack[n]
        BY <2>1, <2>4, <2>5
    <2> QED
        BY <2>2, <2>4, <2>5, <2>6 DEF m
<1>4. /\ Types' /\ Deque' /\ Accepting' /\ Ids' /\ Notified' /\ Dropped' = Dropped
      /\ UNCHANGED <<open, known, owed, m_deqConnections, told>>
      /\ \A c \in Clients : InSeq(c, m_deqConnections)' <=> InSeq(c, m_deqConnections)
    BY <1>1, <1>3, DequeSame
<1> HIDE DEF L
<1>5. \A n \in 1 .. L - 1 : stack'[n].phase = "farewell"
    BY <1>3 DEF IInv, Frames, L
<1>6. Frames'
    <2> SUFFICES ASSUME NEW n \in 1 .. L - 1
                 PROVE  /\ stack'[n].i >= 1 /\ stack'[n].phase = "farewell"
                        /\ n > 1 => ~IsGroup(stack'[n])
        BY <1>3 DEF Frames, IsGroup
    <2>1. stack[n].i >= 1 /\ (n > 1 => ~IsGroup(stack[n]))
        BY <1>3 DEF IInv, Frames, L
    <2> QED
        BY <1>3, <1>5, <2>1
<1>7. \A k \in 1 .. Len(m_deqConnections) : m_deqConnections[k] # NoClient
    BY <1>1 DEF IInv, Resets
<1>8. Resets' /\ Erases'
    <2>1. stack' # <<>> => Top'.phase = "farewell"
        <3>1. stack' # <<>> => L - 1 \in 1 .. L - 1
            BY <1>2, <1>3, EmptySeq
        <3>2. Top' = stack'[L - 1]
            BY <1>3 DEF Top
        <3> QED
            BY <1>5, <3>1, <3>2
    <2> QED
        BY <1>4, <1>7, <2>1 DEF Resets, Erases
<1>9. Farewells'
    <2>1. ASSUME NEW c, NEW d, Pending(c, d)
          PROVE  Pending(c, d)'
        <3>1. PICK n \in 1 .. L : InSeq(c, stack[n].afterDisconectSend)
            BY <1>1, <2>1 DEF Pending, L
        <3>2. n # L
            BY <1>1, <1>2, <3>1 DEF InSeq
        <3>3. n \in 1 .. L - 1
            BY <1>2, <3>2
        <3>4. n \in 1 .. Len(stack') /\ InSeq(c, stack'[n].afterDisconectSend)
            BY <1>3, <3>1, <3>3
        <3> QED
            BY <3>4 DEF Pending, InSeq
    <2> QED
        BY <1>4, <2>1 DEF IInv, Farewells
<1>10. Depth'
    <2> SUFFICES ASSUME stack' # <<>> PROVE Depth'
        BY DEF Depth
    <2>1. L - 1 >= 1
        BY <1>2, <1>3, EmptySeq
    <2>2. stack'[1] = stack[1]
        BY <1>2, <1>3, <2>1
    <2>3. ~IsGroup(Top)
        <3>1. L > 1
            BY <1>2, <2>1
        <3> QED
            BY <1>2, <3>1 DEF IInv, Frames, L
    <2>4. Cardinality(Dropped) \in Nat
        BY DroppedFinite DEF IInv
    <2>5. L <= Cardinality(Dropped) + 1 + (IF IsGroup(stack[1]) THEN 1 ELSE 0)
        BY <1>1, <1>2, <2>4 DEF IInv, Depth, L
    <2>6. ASSUME NEW g \in {0, 1}
          PROVE  L - 1 + g <= Cardinality(Dropped) + 1 + (IF IsGroup(stack[1]) THEN 1 ELSE 0)
        BY <1>2, <2>4, <2>5
    <2>7. IsGroup(stack'[1]) <=> IsGroup(stack[1])
        BY <2>2 DEF IsGroup
    <2> QED
        BY <1>3, <1>4, <2>6, <2>7 DEF Depth, IsGroup
<1> QED
    BY <1>4, <1>6, <1>8, <1>9, <1>10 DEF IInv

\* The first farewell left is handed to a loop over the whole deque.
LEMMA FarewellStep ==
    ASSUME IInv, Farewell
    PROVE  IInv'
<1> USE ClientAssumption
<1> DEFINE L == Len(stack)
           e == Head(Top.afterDisconectSend)
           g == [Top EXCEPT !.afterDisconectSend = Tail(@)]
           s == [stack EXCEPT ![L].afterDisconectSend = Tail(@)]
           f == Frame(<<>>, Len(m_deqConnections), e, NoClient)
<1>1. /\ stack # <<>> /\ Top.phase = "farewell" /\ Top.afterDisconectSend # <<>>
      /\ stack' = s \o <<f>>
      /\ UNCHANGED <<Outside, m_deqConnections, history, told>>
    BY DEF Farewell, InPhase
<1>2. /\ L \in Nat /\ L >= 1 /\ L \in 1 .. L /\ Top = stack[L]
      /\ stack \in Seq(FrameType) /\ Top \in FrameType
    BY <1>1, TopFrame DEF IInv, Types, Top
<1> DEFINE old == Top.afterDisconectSend
<1>3. /\ old \in Seq(Clients) /\ old # <<>> /\ e \in Clients
      /\ Tail(old) \in Seq(Clients)
      /\ \A c : InSeq(c, old) => c = e \/ InSeq(c, Tail(old))
    <2>1. old \in Seq(Clients) /\ old # <<>>
        BY <1>1, <1>2 DEF FrameType
    <2> HIDE DEF old
    <2>2. /\ Head(old) \in Clients /\ Tail(old) \in Seq(Clients)
          /\ Len(Tail(old)) = Len(old) - 1
          /\ \A k \in 1 .. Len(Tail(old)) : Tail(old)[k] = old[k + 1]
        BY <2>1, HeadTailProperties
    <2>3. Head(old) = old[1] /\ Len(old) \in Nat
        BY <2>1
    <2>4. ASSUME NEW c, InSeq(c, old) PROVE c = Head(old) \/ InSeq(c, Tail(old))
        <3>1. PICK k \in 1 .. Len(old) : old[k] = c
            BY <2>4 DEF InSeq
        <3>2. CASE k = 1
            BY <2>3, <3>1, <3>2
        <3>3. CASE k # 1
            <4>1. k - 1 \in 1 .. Len(Tail(old)) /\ (k - 1) + 1 = k
                BY <2>2, <2>3, <3>3
            <4>2. Tail(old)[k - 1] = c
                BY <2>2, <3>1, <4>1
            <4> QED
                BY <4>1, <4>2 DEF InSeq
        <3> QED
            BY <3>2, <3>3
    <2> QED
        BY <2>1, <2>2, <2>4 DEF old
<1>4. /\ g \in FrameType /\ g.i = Top.i /\ g.phase = "farewell" /\ g.list = Top.list
      /\ g.afterDisconectSend = Tail(Top.afterDisconectSend)
    BY <1>1, <1>2, <1>3 DEF FrameType
<1>5. s = [stack EXCEPT ![L] = g]
    BY <1>2
<1>6. /\ f \in FrameType /\ f.list = <<>> /\ f.i = 1 /\ f.end = Len(m_deqConnections)
      /\ f.phase = "loop" /\ f.afterDisconectSend = <<>> /\ f.msg = e /\ f.ignore = NoClient
    <2>1. /\ f = Frame(<<>>, Len(m_deqConnections), e, NoClient)
          /\ Len(m_deqConnections) \in Nat /\ e \in Pointer /\ NoClient \in Pointer
        BY <1>3 DEF IInv, Types, Pointer
    <2> HIDE DEF f, e
    <2> QED
        BY <2>1 DEF Frame, FrameType
<1> HIDE DEF f, g, s
<1>7. /\ s \in Seq(FrameType) /\ Len(s) = L
      /\ \A n \in 1 .. L : s[n] = IF n = L THEN g ELSE stack[n]
    BY <1>2, <1>4, <1>5, ExceptSeq
<1>8. /\ stack' \in Seq(FrameType) /\ Len(stack') = L + 1 /\ stack'[L + 1] = f
      /\ \A n \in 1 .. L : stack'[n] = IF n = L THEN g ELSE stack[n]
    <2>1. <<f>> \in Seq(FrameType) /\ Len(<<f>>) = 1 /\ <<f>>[1] = f
        BY <1>6
    <2> HIDE DEF L
    <2>2. /\ s \o <<f>> \in Seq(FrameType) /\ Len(s \o <<f>>) = L + 1
          /\ \A n \in 1 .. L + 1 : (s \o <<f>>)[n] = IF n <= L THEN s[n] ELSE <<f>>[n - L]
        BY <1>7, <2>1, ConcatProperties
    <2>3. L + 1 \in 1 .. L + 1 /\ ~(L + 1 <= L) /\ (L + 1) - L = 1
        BY <1>2
    <2>4. \A n \in 1 .. L : n \in 1 .. L + 1 /\ n <= L
        BY <1>2
    <2> QED
        BY <1>1, <1>7, <2>1, <2>2, <2>3, <2>4
<1>9. stack' # <<>> /\ Top' = f
    BY <1>2, <1>8, EmptySeq DEF Top
<1>10. /\ Types' /\ Deque' /\ Accepting' /\ Ids' /\ Notified' /\ Dropped' = Dropped
       /\ UNCHANGED <<open, known, owed, m_deqConnections, told>>
       /\ \A c \in Clients : InSeq(c, m_deqConnections)' <=> InSeq(c, m_deqConnections)
    BY <1>1, <1>8, DequeSame
<1>11. ~IsGroup(f) /\ (IsGroup(g) <=> IsGroup(Top))
    BY <1>4, <1>6 DEF IsGroup
<1>12. \A n \in 1 .. L + 1 : n \in 1 .. L \/ n = L + 1
    BY <1>2
<1>13. Frames'
    <2> DEFINE D == m_deqConnections'
    <2>1. ASSUME NEW n \in 1 .. L
          PROVE  /\ stack'[n].i >= 1 /\ stack'[n].phase = "farewell"
                 /\ n > 1 => ~IsGroup(stack'[n])
        <3>1. CASE n = L
            <4>1. Top.i >= 1 /\ (L > 1 => ~IsGroup(Top))
                BY <1>2 DEF IInv, Frames
            <4> QED
                BY <1>4, <1>8, <1>11, <3>1, <4>1
        <3>2. CASE n # L
            <4>1. n < L
                BY <1>2, <3>2
            <4>2. stack[n].i >= 1 /\ stack[n].phase = "farewell" /\ (n > 1 => ~IsGroup(stack[n]))
                BY <4>1 DEF IInv, Frames
            <4> QED
                BY <1>8, <3>2, <4>2
        <3> QED
            BY <3>1, <3>2
    <2>2. f.i >= 1 /\ ~IsGroup(f) /\ f.end <= Len(D)
        <3>1. Len(m_deqConnections) \in Nat
            BY DEF IInv, Types
        <3> QED
            BY <1>6, <1>10, <1>11, <3>1
    <2>3. ~(L + 1 < L + 1)
        BY <1>2
    <2> HIDE DEF D, L
    <2> SUFFICES ASSUME NEW n \in 1 .. L + 1
                 PROVE  /\ stack'[n].i >= 1
                        /\ n < L + 1 => stack'[n].phase = "farewell"
                        /\ n > 1 => ~IsGroup(stack'[n])
                        /\ stack'[n].phase = "loop" =>
                               IF IsGroup(stack'[n])
                               THEN /\ stack'[n].end = Len(stack'[n].list)
                                    /\ \A k \in stack'[n].i .. stack'[n].end :
                                           stack'[n].list[k] # NoClient
                               ELSE stack'[n].end <= Len(D)
        BY <1>8 DEF Frames, IsGroup, D
    <2>4. CASE n \in 1 .. L
        BY <2>1, <2>4
    <2>5. CASE n = L + 1
        BY <1>8, <2>2, <2>3, <2>5
    <2> QED
        BY <1>12, <2>4, <2>5
<1>14. \A k \in 1 .. Len(m_deqConnections) : m_deqConnections[k] # NoClient
    BY <1>1 DEF IInv, Resets
<1>15. Resets' /\ Erases'
    BY <1>6, <1>9, <1>10, <1>14 DEF Resets, Erases
<1>16. Farewells'
    <2>1. ASSUME NEW c, NEW d \in Clients, InSeq(d, m_deqConnections), Pending(c, d)
          PROVE  Pending(c, d)'
        <3>1. PICK n \in 1 .. L : InSeq(c, stack[n].afterDisconectSend)
            BY <1>1, <2>1 DEF Pending
        <3>2. n \in 1 .. Len(stack')
            BY <1>2, <1>8
        <3>3. CASE n = L /\ c = e
            <4>2. PICK k \in 1 .. Len(m_deqConnections) : m_deqConnections[k] = d
                BY <2>1 DEF InSeq
            <4>3. k \in f.i .. f.end /\ m_deqConnections'[k] = d
                BY <1>6, <1>10, <4>2
            <4>4. f.msg = c
                BY <1>6, <3>3
            <4> QED
                BY <1>6, <1>9, <1>11, <4>3, <4>4 DEF Pending, IsGroup
        <3>4. CASE n = L /\ c # e
            <4>1. InSeq(c, Tail(old))
                BY <1>2, <1>3, <3>1, <3>4
            <4>2. InSeq(c, stack'[n].afterDisconectSend)
                BY <1>4, <1>8, <3>4, <4>1
            <4> QED
                BY <3>2, <4>2 DEF Pending, InSeq
        <3>5. CASE n # L
            <4>1. InSeq(c, stack'[n].afterDisconectSend)
                BY <1>8, <3>1, <3>5
            <4> QED
                BY <3>2, <4>1 DEF Pending, InSeq
        <3> QED
            BY <3>3, <3>4, <3>5
    <2>2. ASSUME NEW d \in Clients, open[d], NEW c \in owed[d]
          PROVE  c \in told[d] \/ Pending(c, d)'
        <3>1. InSeq(d, m_deqConnections) /\ (c \in told[d] \/ Pending(c, d))
            BY <2>2 DEF IInv, Farewells
        <3> QED
            BY <2>1, <3>1
    <2> QED
        BY <1>10, <2>2 DEF IInv, Farewells
<1>17. Depth'
    <2>1. Cardinality(Dropped) \in Nat
        BY DroppedFinite DEF IInv
    <2>2. L + (IF ~IsGroup(Top) THEN 1 ELSE 0)
              <= Cardinality(Dropped) + 1 + (IF IsGroup(stack[1]) THEN 1 ELSE 0)
        BY <1>1 DEF IInv, Depth
    <2>3. IsGroup(Top) => L = 1
        <3>1. ~(L > 1) \/ ~IsGroup(Top)
            BY <1>2 DEF IInv, Frames
        <3>2. L \in Nat /\ L >= 1
            BY <1>2
        <3> HIDE DEF L
        <3>3. ~(L > 1) => L = 1
            BY <3>2
        <3> QED
            BY <3>1, <3>3
    <2>4. 1 \in 1 .. L /\ (IsGroup(stack'[1]) <=> IsGroup(stack[1]))
        <3>1. 1 \in 1 .. L
            BY <1>2
        <3>2. CASE L = 1
            BY <1>2, <1>8, <1>11, <3>1, <3>2
        <3>3. CASE L # 1
            BY <1>8, <3>1, <3>3
        <3> QED
            BY <3>1, <3>2, <3>3
    <2>5. CASE IsGroup(Top)
        <3>1. IsGroup(stack[1]) /\ L = 1
            BY <1>2, <2>3, <2>5
        <3>2. L + 1 + 0 <= Cardinality(Dropped) + 1 + 1
            BY <2>1, <3>1
        <3> QED
            BY <1>6, <1>8, <1>9, <1>10, <2>4, <3>1, <3>2 DEF Depth, IsGroup
    <2>6. CASE ~IsGroup(Top)
        <3>1. L + 1 + 0 <= Cardinality(Dropped) + 1 + (IF IsGroup(stack[1]) THEN 1 ELSE 0)
            BY <1>2, <2>1, <2>2, <2>6
        <3> QED
            BY <1>6, <1>8, <1>9, <1>10, <2>4, <3>1 DEF Depth, IsGroup
    <2> QED
        BY <2>5, <2>6
<1> QED
    BY <1>10, <1>13, <1>15, <1>16, <1>17 DEF IInv

-----------------------------------------------------------------------------
(* The theorems *)

LEMMA NextIInv == IInv /\ [Next]_vars => IInv'
<1> SUFFICES ASSUME IInv, [Next]_vars PROVE IInv'
    OBVIOUS
<1> USE ClientAssumption
<1>1. /\ current \in Pointer /\ held \subseteq Clients /\ m_qMessagesIn \in Seq(Clients)
      /\ NoClient \in Pointer
    BY DEF IInv, Types, Pointer
<1>2. CASE UNCHANGED vars
    BY <1>1, <1>2, CallsSame DEF vars, Calls
<1>3. CASE \E c \in Clients : AcceptClient(c)
    BY <1>3, AcceptStep
<1>4. CASE \E c \in Clients : ReadHandler(c)
    <2>1. PICK c \in Clients : ReadHandler(c)
        BY <1>4
    <2>2. m_qMessagesIn' \in Seq(Clients)
        BY <1>1, <2>1, AppendProperties DEF ReadHandler
    <2> QED
        BY <1>1, <2>1, <2>2, CallsSame DEF ReadHandler, Others, server, Calls, history
<1>5. CASE \E c \in Clients : SendHandler(c) \/ WriteHandler(c)
    BY <1>1, <1>5, CallsSame DEF SendHandler, WriteHandler, Others, server, Calls, history
<1>6. CASE \E c \in Clients : ErrorHandler(c)
    BY <1>6, ErrorStep
<1>7. CASE ConnectBack
    BY <1>7, ConnectStep
<1>20. CASE \E keep \in BOOLEAN : ClientConnected(keep)
    BY <1>20, GreetStep
<1>8. CASE Start \/ Stop \/ BackUndefined \/ EraseUndefined
    BY <1>1, <1>8, CallsSame DEF Start, Stop, BackUndefined, EraseUndefined, net, history, Calls
<1>9. CASE TakeMessage
    <2>1. Head(m_qMessagesIn) \in Clients /\ Tail(m_qMessagesIn) \in Seq(Clients)
        BY <1>1, <1>9, HeadTailProperties DEF TakeMessage
    <2>2. current' \in Pointer /\ m_qMessagesIn' \in Seq(Clients)
        BY <1>9, <2>1 DEF TakeMessage, Pointer
    <2> QED
        BY <1>1, <1>9, <2>2, CallsSame DEF TakeMessage, server, history, Calls
<1>10. CASE MessageHandled
    BY <1>1, <1>10, CallsSame DEF MessageHandled, server, net, history, Calls
<1>11. CASE \E c \in Clients : MessageClient(c)
    <2>1. PICK c \in Pointers : MessageClient(c)
        BY <1>11 DEF MessageClient
    <2> QED
        BY <2>1, ClientStep
<1>12. CASE \E c \in Pointers, d \in Pointers : MessageClientGroup(<<c, d>>)
    BY <1>12, GroupStep
<1>13. CASE \E ignore \in Pointers \cup {NoClient} : MessageAllClients(ignore)
    BY <1>13, AllClientsStep
<1>14. CASE VisitIgnored
    BY <1>14, IgnoredStep
<1>15. CASE VisitConnected
    BY <1>15, ConnectedStep
<1>16. CASE VisitDisconnected
    BY <1>16, DisconnectedStep
<1>17. CASE EndLoop
    BY <1>17, EndLoopStep
<1>21. CASE Remove
    BY <1>21, RemoveStep
<1>22. CASE Erase
    BY <1>22, EraseStep
<1>18. CASE Farewell
    BY <1>18, FarewellStep
<1>19. CASE Return
    BY <1>19, ReturnStep
<1> QED
    BY <1>2, <1>3, <1>4, <1>5, <1>6, <1>7, <1>8, <1>9, <1>10, <1>11, <1>12, <1>13, <1>14,
       <1>15, <1>16, <1>17, <1>18, <1>19, <1>20, <1>21, <1>22 DEF Next, Context, Application

\* The invariant holds in every state.
LEMMA Invariant == Spec => []IInv
BY InitIInv, NextIInv, PTL DEF Spec

\* server_interface::WaitForClientConnection: the accept handler pushes its connection
\* back and reaches it again as back(), twice.  In between the application's thread may
\* reset and erase other pointers of the deque, but unless the accept handler meets an
\* erase(remove(..), end()) that is under way, back() stays the connection it pushed.
THEOREM SpecBackIsNew == Spec => []BackIsNew
<1>1. IInv => BackIsNew
    BY DEF IInv, Accepting, BackIsNew, BackDefined, Back
<1> QED
    BY <1>1, Invariant, PTL

\* MessageAllClients and the other calls drop no client whose socket is open, except for
\* one whose accept handler met an erase; and the clients that are kept have the ids of
\* WaitForClientConnection in its order, even when it gave one of them a second id.
THEOREM SpecConnectedIsKept == Spec => []ConnectedIsKept
<1>1. IInv => ConnectedIsKept
    <2> SUFFICES ASSUME IInv PROVE ConnectedIsKept
        OBVIOUS
    <2>1. \A c \in known \ raced : open[c] => InSeq(c, m_deqConnections)
        BY DEF IInv, Types, Deque
    <2>2. DOMAIN m_deqConnections = 1 .. Len(m_deqConnections)
        BY LenProperties DEF IInv, Types
    <2> QED
        BY <2>1, <2>2 DEF IInv, Ids, ConnectedIsKept
<1> QED
    BY <1>1, Invariant, PTL

\* OnClientDisconnect has been called when a client is dropped from m_deqConnections,
\* unless its accept handler met an erase, and by the broadcasts no more than once.
THEOREM SpecNotifiedOnce == Spec => []NotifiedOnce
<1>1. IInv => NotifiedOnce
    <2> SUFFICES ASSUME IInv, NEW c \in Clients
                 PROVE  /\ c \in known \ raced /\ ~InSeq(c, m_deqConnections)
                               => notified[c] > direct[c]
                        /\ notified[c] <= direct[c] + 1
        BY DEF NotifiedOnce
    <2>1. direct[c] \in Nat
        BY DEF IInv, Types
    <2>2. /\ notified[c] = direct[c] \/ notified[c] = direct[c] + 1
          /\ c \in known /\ ~InSeq(c, m_deqConnections)
                 => c \in raced \/ notified[c] = direct[c] + 1
        BY DEF IInv, Notified
    <2> QED
        BY <2>1, <2>2
<1> QED
    BY <1>1, Invariant, PTL

\* When a call of the application returns, every farewell OnClientDisconnect made has been
\* sent to every client that was kept and connected then and still is: none is lost in the
\* recursion of MessageAllClients, although it drops clients while it broadcasts.
THEOREM SpecFarewellsSent == Spec => []FarewellsSent
<1>1. IInv => FarewellsSent
    BY NothingPending DEF IInv, Types, FarewellsSent
<1> QED
    BY <1>1, Invariant, PTL

\* The recursion of MessageAllClients is no deeper than the clients it has dropped allow.
THEOREM SpecRecursionBounded == Spec => []RecursionBounded
<1>1. IInv => RecursionBounded
    <2> SUFFICES ASSUME IInv PROVE RecursionBounded
        OBVIOUS
    <2> DEFINE L == Len(stack)
               N == Cardinality(Dropped)
    <2>1. N \in Nat /\ L \in Nat
        BY DroppedFinite DEF IInv, Types
    <2>2. RecursionBounded <=> L <= N + 2
        BY DEF RecursionBounded, Dropped
    <2>3. CASE stack = <<>>
        <3>1. L = 0
            BY <2>3
        <3> QED
            BY <2>1, <2>2, <3>1
    <2>4. CASE stack # <<>>
        <3> DEFINE h == IF ~IsGroup(Top) /\ Top.afterDisconectSend # <<>> THEN 1 ELSE 0
                   g == IF IsGroup(stack[1]) THEN 1 ELSE 0
        <3>1. L + h <= N + 1 + g
            BY <2>4 DEF IInv, Depth
        <3>2. h \in {0, 1} /\ g \in {0, 1}
            OBVIOUS
        <3> HIDE DEF L, N, h, g
        <3>3. L <= N + 2
            BY <2>1, <3>1, <3>2
        <3> QED
            BY <2>2, <3>3
    <2> QED
        BY <2>3, <2>4
<1> QED
    BY <1>1, Invariant, PTL
=============================================================================
