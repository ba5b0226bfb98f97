------------------------- MODULE EventSystemProofs -------------------------
(***************************************************************************)
(* Proofs about EventSystem for all listeners, events and bounds: what a   *)
(* dispatch loop has called, missed and still has to call while listeners  *)
(* are added and removed under its index, and what the queue holds while   *)
(* update() walks it.                                                      *)
(***************************************************************************)
EXTENDS EventSystem, FiniteSetTheorems, SequenceTheorems, TLAPS

-----------------------------------------------------------------------------
(* Lists *)

\* A set of numbers that is not empty has a smallest element.
LEMMA MinIsMember ==
    ASSUME NEW S \in SUBSET Nat, S # {}
    PROVE  Min(S) \in S
<1> DEFINE Less == {ss \in Nat \X Nat : ss[1] < ss[2]}
<1>1. IsWellFoundedOn(Less, Nat)
    BY NatLessThanWellFounded DEF OpToRel
<1> HIDE DEF Less
<1>2. PICK x \in S : \A y \in S : ~(<<y, x>> \in Less)
    BY <1>1, WFMin
<1>3. \A y \in S : x <= y
    <2> SUFFICES ASSUME NEW y \in S PROVE ~(y < x)
        OBVIOUS
    <2> QED
        BY <1>2 DEF Less
<1> QED
    BY <1>3 DEF Min

\* What removeEventListener finds is a position in the vector.
LEMMA IndexInVector ==
    ASSUME NEW l, Len(listener) \in Nat, IndexOf(l) > 0
    PROVE  IndexOf(l) \in 1 .. Len(listener)
<1> DEFINE Found == {i \in 1 .. Len(listener) : listener[i] = l}
<1>1. IndexOf(l) = IF Found # {} THEN Min(Found) ELSE 0
    BY DEF IndexOf, SelectInSeq
<1>2. Found # {}
    BY <1>1
<1>3. Found \in SUBSET Nat
    OBVIOUS
<1>4. Min(Found) \in Found
    BY <1>2, <1>3, MinIsMember
<1> QED
    BY <1>1, <1>2, <1>4

\* erase() at a position
LEMMA Removed ==
    ASSUME NEW S, NEW s \in Seq(S), NEW k \in 1 .. Len(s)
    PROVE  /\ RemoveAt(s, k) \in Seq(S)
           /\ Len(RemoveAt(s, k)) = Len(s) - 1
           /\ \A p \in 1 .. Len(s) - 1 :
                  RemoveAt(s, k)[p] = IF p < k THEN s[p] ELSE s[p + 1]
<1> DEFINE a == SubSeq(s, 1, k - 1)
           b == SubSeq(s, k + 1, Len(s))
<1>1. a \in Seq(S) /\ Len(a) = k - 1 /\ \A p \in 1 .. k - 1 : a[p] = s[p]
    <2>1. \A i \in 1 .. k - 1 : s[i] \in S
        BY ElementOfSeq
    <2>2. 1 \in Int /\ k - 1 \in Int
        OBVIOUS
    <2>3. /\ a \in Seq(S)
          /\ Len(a) = IF 1 <= k - 1 THEN (k - 1) - 1 + 1 ELSE 0
          /\ \A i \in 1 .. (k - 1) - 1 + 1 : a[i] = s[1 + i - 1]
        BY <2>1, <2>2, SubSeqProperties
    <2> QED
        BY <2>3
<1>2. b \in Seq(S) /\ Len(b) = Len(s) - k /\ \A p \in 1 .. Len(s) - k : b[p] = s[k + p]
    <2>1. \A i \in k + 1 .. Len(s) : s[i] \in S
        BY ElementOfSeq
    <2>2. k + 1 \in Int /\ Len(s) \in Int
        OBVIOUS
    <2>3. /\ b \in Seq(S)
          /\ Len(b) = IF k + 1 <= Len(s) THEN Len(s) - (k + 1) + 1 ELSE 0
          /\ \A i \in 1 .. Len(s) - (k + 1) + 1 : b[i] = s[k + 1 + i - 1]
        BY <2>1, <2>2, SubSeqProperties
    <2> QED
        BY <2>3
<1>3. RemoveAt(s, k) = a \o b
    BY DEF RemoveAt
<1>4. /\ a \o b \in Seq(S)
      /\ Len(a \o b) = Len(a) + Len(b)
      /\ \A i \in 1 .. Len(a) + Len(b) :
             (a \o b)[i] = IF i <= Len(a) THEN a[i] ELSE b[i - Len(a)]
    BY <1>1, <1>2, ConcatProperties
<1> HIDE DEF a, b
<1>5. ASSUME NEW p \in 1 .. Len(s) - 1
      PROVE  (a \o b)[p] = IF p < k THEN s[p] ELSE s[p + 1]
    <2>1. CASE p < k
        BY <1>1, <1>2, <1>4, <2>1
    <2>2. CASE ~(p < k)
        <3>1. p - (k - 1) \in 1 .. Len(s) - k /\ k + (p - (k - 1)) = p + 1
            BY <2>2
        <3>2. p \in 1 .. Len(a) + Len(b) /\ ~(p <= Len(a)) /\ Len(a) = k - 1
            BY <1>1, <1>2, <2>2
        <3>3. (a \o b)[p] = b[p - (k - 1)]
            BY <1>4, <3>2
        <3>4. b[p - (k - 1)] = s[k + (p - (k - 1))]
            BY <1>2, <3>1
        <3> QED
            BY <2>2, <3>1, <3>3, <3>4
    <2> QED
        BY <2>1, <2>2
<1> QED
    BY <1>1, <1>2, <1>3, <1>4, <1>5

-----------------------------------------------------------------------------
(* The invariant *)

Frame == [event : Events, i : Nat, j : Nat, running : BOOLEAN, stopped : BOOLEAN,
          served : Seq(Listeners), shifted : Nat]

Types ==
    /\ listener \in Seq(Listeners) /\ Len(listener) <= MaxListeners
    /\ listenerIDs = listener
    /\ onNextUpdate \in Seq(Events) /\ Len(onNextUpdate) <= MaxQueue
    /\ deleted \subseteq Events
    /\ gone \subseteq Listeners
    /\ stack \in Seq(Frame) /\ Len(stack) <= MaxDepth
    /\ undefined \in BOOLEAN
    /\ owed \in [Events -> Int]
    /\ requeued \subseteq Events

\* The position up to which loop f has called
Called(f) == IF f.running \/ f.stopped THEN f.j ELSE f.j - 1

\* The positions up to there that do not hold a listener f has called, because
\* a removal has moved something else there or nothing
Gaps(list, f) ==
    {k \in 1 .. Called(f) : ~(k <= Len(list) /\ list[k] \in Range(f.served))}

\* Loop f over a vector: it has made one call for each position.  Each removal
\* at or before its index leaves at most one gap; with none, what it has called
\* is still what stands there.
LoopInv(list, f) ==
    /\ f.j \in 1 .. MaxListeners + 1
    /\ Called(f) <= MaxListeners
    /\ Len(f.served) = Called(f)
    /\ f.stopped => f.event \in Usable
    /\ f.shifted <= MaxListeners
    /\ f.shifted = 0 =>
           /\ Called(f) <= Len(list)
           /\ \A m \in 1 .. Called(f) : f.served[m] = list[m]
    /\ Cardinality(Gaps(list, f)) <= f.shifted

Loops == \A n \in 1 .. Len(stack) : LoopInv(listener, stack[n])

\* Loops inside others are instant triggers, and the others wait for an onEvent.
\* The loop of update() holds the event at its position in the queue; the event
\* of an instant trigger is not deleted while it runs.
Nested ==
    \A n \in 1 .. Len(stack) :
        /\ n > 1 => stack[n].i = 0
        /\ n < Len(stack) => stack[n].running
        /\ stack[n].i = 0 => stack[n].event \notin deleted
        /\ stack[n].i > 0 => /\ stack[n].i <= Len(onNextUpdate)
                             /\ stack[n].event = onNextUpdate[stack[n].i]

\* An event that is in the queue twice has been queued again, and so has one
\* that is deleted and still to come.
Queue ==
    /\ \A k, m \in 1 .. Len(onNextUpdate) :
           k < m /\ onNextUpdate[k] = onNextUpdate[m] => onNextUpdate[k] \in requeued
    /\ \A k \in Remaining .. Len(onNextUpdate) :
           onNextUpdate[k] \in deleted => onNextUpdate[k] \in requeued \cap Destroy

IInv == Types /\ Loops /\ Nested /\ Queue /\ NothingLost /\ UndefinedOnlyByMisuse

-----------------------------------------------------------------------------
(* One loop while the vector changes under it *)

LEMMA GapsFinite ==
    ASSUME NEW list, NEW f \in Frame, f.j >= 1
    PROVE  /\ Called(f) \in Nat
           /\ IsFiniteSet(Gaps(list, f))
           /\ Cardinality(Gaps(list, f)) \in Nat
           /\ Cardinality(Gaps(list, f)) <= Called(f)
<1>1. Called(f) \in Nat
    BY DEF Called, Frame
<1>2. IsFiniteSet(1 .. Called(f)) /\ Cardinality(1 .. Called(f)) = Called(f)
    <2>1. 1 \in Int /\ Called(f) \in Int
        BY <1>1
    <2>2. /\ IsFiniteSet(1 .. Called(f))
          /\ Cardinality(1 .. Called(f)) =
                 IF 1 > Called(f) THEN 0 ELSE Called(f) - 1 + 1
        BY <2>1, FS_Interval
    <2> QED
        BY <1>1, <2>2
<1>3. Gaps(list, f) \in SUBSET (1 .. Called(f))
    BY DEF Gaps
<1>4. /\ IsFiniteSet(Gaps(list, f))
      /\ Cardinality(Gaps(list, f)) <= Cardinality(1 .. Called(f))
    BY <1>2, <1>3, FS_Subset
<1>5. Cardinality(Gaps(list, f)) \in Nat
    BY <1>4, FS_CardinalityType
<1> QED
    BY <1>1, <1>2, <1>4, <1>5

\* A loop that has not called anybody
LEMMA LoopNew ==
    ASSUME NEW e \in Events, NEW i \in Nat, NEW list, Len(list) \in Nat
    PROVE  Loop(e, i) \in Frame /\ LoopInv(list, Loop(e, i))
<1> DEFINE f == Loop(e, i)
<1>1. /\ f.event = e /\ f.i = i /\ f.j = 1 /\ f.running = FALSE
      /\ f.stopped = FALSE /\ f.served = <<>> /\ f.shifted = 0
    BY DEF Loop
<1>2. <<>> \in Seq(Listeners)
    OBVIOUS
<1>3. f \in Frame
    BY <1>2 DEF Loop, Frame
<1>4. Called(f) = 0
    BY <1>1 DEF Called
<1>5. Gaps(list, f) = {}
    BY <1>4 DEF Gaps
<1>6. Cardinality(Gaps(list, f)) = 0
    BY <1>5, FS_EmptySet
<1> HIDE DEF f
<1> QED
    BY <1>1, <1>3, <1>4, <1>6, BoundAssumption DEF LoopInv, f

\* addEventListener: a listener at the end fills a gap or none.
LEMMA LoopAfterAppend ==
    ASSUME NEW list \in Seq(Listeners), NEW f \in Frame, LoopInv(list, f),
           NEW l \in Listeners
    PROVE  LoopInv(Append(list, l), f)
<1> DEFINE new == Append(list, l)
<1>1. Len(new) = Len(list) + 1 /\ \A k \in 1 .. Len(list) : new[k] = list[k]
    BY AppendProperties
<1> HIDE DEF new
<1>2. f.j >= 1 /\ Called(f) \in Nat
    BY GapsFinite DEF LoopInv
<1>3. Gaps(new, f) \in SUBSET Gaps(list, f)
    BY <1>1, <1>2 DEF Gaps
<1>4. Cardinality(Gaps(new, f)) <= Cardinality(Gaps(list, f))
    BY <1>2, <1>3, GapsFinite, FS_Subset
<1>5. Cardinality(Gaps(new, f)) <= f.shifted
    <2>1. /\ Cardinality(Gaps(new, f)) \in Nat /\ Cardinality(Gaps(list, f)) \in Nat
          /\ f.shifted \in Nat
        BY <1>2, GapsFinite DEF Frame
    <2>2. Cardinality(Gaps(list, f)) <= f.shifted
        BY DEF LoopInv
    <2> QED
        BY <1>4, <2>1, <2>2
<1>6. f.shifted = 0 =>
           /\ Called(f) <= Len(new)
           /\ \A m \in 1 .. Called(f) : f.served[m] = new[m]
    BY <1>1, <1>2 DEF LoopInv
<1>7. LoopInv(new, f)
    BY <1>5, <1>6 DEF LoopInv
<1> QED
    BY <1>7 DEF new

\* removeEventListener, below and above the index: each position from k on has
\* what stood behind it, so that the gaps move along and at most one comes in.
LEMMA LoopAfterRemove ==
    ASSUME NEW list \in Seq(Listeners), Len(list) <= MaxListeners,
           NEW f \in Frame, LoopInv(list, f), f.running, NEW k \in 1 .. Len(list)
    PROVE  LET new == RemoveAt(list, k)
               g == [f EXCEPT !.shifted = IF k <= f.j THEN MoreShifted(@) ELSE @]
           IN  g \in Frame /\ LoopInv(new, g)
<1> DEFINE new == RemoveAt(list, k)
           g == [f EXCEPT !.shifted = IF k <= f.j THEN MoreShifted(@) ELSE @]
<1>1. /\ Len(new) = Len(list) - 1
      /\ \A p \in 1 .. Len(list) - 1 : new[p] = IF p < k THEN list[p] ELSE list[p + 1]
    BY Removed
<1> HIDE DEF new
<1>2. /\ g.event = f.event /\ g.i = f.i /\ g.j = f.j /\ g.running = f.running
      /\ g.stopped = f.stopped /\ g.served = f.served
      /\ g.shifted = IF k <= f.j THEN MoreShifted(f.shifted) ELSE f.shifted
    BY DEF Frame
<1>3. f.shifted \in Nat /\ f.shifted <= MaxListeners /\ f.j \in 1 .. MaxListeners + 1
    BY DEF LoopInv, Frame
<1>4. g.shifted \in Nat /\ g.shifted <= MaxListeners
    BY <1>2, <1>3, BoundAssumption DEF MoreShifted
<1>5. g \in Frame
    BY <1>4 DEF Frame
<1> HIDE DEF g
<1>6. Called(g) = f.j /\ Called(f) = f.j /\ f.j \in Nat /\ f.j <= MaxListeners
    BY <1>2, <1>3 DEF Called, LoopInv
<1>7. g.j >= 1 /\ f.j >= 1
    BY <1>2, <1>3
<1>8. /\ IsFiniteSet(Gaps(list, f)) /\ Cardinality(Gaps(list, f)) \in Nat
      /\ Cardinality(Gaps(list, f)) <= f.shifted
      /\ Cardinality(Gaps(new, g)) \in Nat /\ Cardinality(Gaps(new, g)) <= f.j
    BY <1>5, <1>6, <1>7, GapsFinite DEF LoopInv
<1>9. CASE k <= f.j
    <2> DEFINE old == Gaps(list, f) \cup {f.j + 1}
               h == [p \in Gaps(new, g) |-> IF p < k THEN p ELSE p + 1]
    <2>1. ASSUME NEW p \in Gaps(new, g) PROVE h[p] \in old
        <3>1. p \in 1 .. f.j /\ ~(p <= Len(list) - 1 /\ new[p] \in Range(f.served))
            BY <1>1, <1>2, <1>6 DEF Gaps
        <3>2. CASE p < k
            <4>1. p \in 1 .. Len(list) - 1 /\ new[p] = list[p]
                BY <1>1, <3>1, <3>2
            <4>2. p \in Gaps(list, f)
                BY <1>6, <3>1, <4>1 DEF Gaps
            <4> QED
                BY <3>2, <4>2
        <3>3. CASE ~(p < k) /\ p = f.j
            BY <3>3
        <3>4. CASE ~(p < k) /\ p # f.j
            <4>1. p + 1 \in 1 .. f.j
                BY <1>6, <3>1, <3>4
            <4>2. ~(p + 1 <= Len(list) /\ list[p + 1] \in Range(f.served))
                <5> SUFFICES ASSUME p + 1 <= Len(list) PROVE list[p + 1] \notin Range(f.served)
                    OBVIOUS
                <5>1. p \in 1 .. Len(list) - 1
                    BY <3>1
                <5>2. new[p] = list[p + 1]
                    BY <1>1, <3>4, <5>1
                <5> QED
                    BY <3>1, <5>1, <5>2
            <4>3. p + 1 \in Gaps(list, f)
                BY <1>6, <4>1, <4>2 DEF Gaps
            <4> QED
                BY <3>4, <4>3
        <3> QED
            BY <3>2, <3>3, <3>4
    <2>2. h \in Injection(Gaps(new, g), old)
        <3>1. \A p, q \in Gaps(new, g) : h[p] = h[q] => p = q
            <4>1. Gaps(new, g) \in SUBSET Nat
                BY <1>6 DEF Gaps
            <4> QED
                BY <4>1
        <3>2. h \in [Gaps(new, g) -> old] /\ DOMAIN h = Gaps(new, g)
            BY <2>1
        <3> HIDE DEF h
        <3> QED
            BY <3>1, <3>2 DEF Injection, IsInjective
    <2>3. IsFiniteSet(old) /\ Cardinality(old) = Cardinality(Gaps(list, f)) + 1
        <3>1. f.j + 1 \notin Gaps(list, f)
            BY <1>6 DEF Gaps
        <3> QED
            BY <1>8, <3>1, FS_AddElement
    <2> HIDE DEF h, old
    <2>4. Cardinality(Gaps(new, g)) <= Cardinality(old)
        BY <2>2, <2>3, FS_Injection
    <2>5. Cardinality(Gaps(new, g)) <= g.shifted
        BY <1>2, <1>3, <1>6, <1>8, <1>9, <2>3, <2>4, BoundAssumption DEF MoreShifted
    <2>6. g.shifted # 0
        BY <1>2, <1>3, <1>9, BoundAssumption DEF MoreShifted
    <2> QED
        BY <1>2, <1>4, <1>5, <1>6, <2>5, <2>6 DEF LoopInv, new, g
<1>10. CASE ~(k <= f.j)
    <2>1. \A p \in 1 .. f.j : p \in 1 .. Len(list) - 1 /\ new[p] = list[p]
        BY <1>1, <1>6, <1>10
    <2>2. Gaps(new, g) \in SUBSET Gaps(list, f)
        BY <1>1, <1>2, <1>6, <2>1 DEF Gaps
    <2>3. Cardinality(Gaps(new, g)) <= Cardinality(Gaps(list, f))
        BY <1>8, <2>2, FS_Subset
    <2>4. Cardinality(Gaps(new, g)) <= g.shifted
        BY <1>2, <1>3, <1>8, <1>10, <2>3
    <2>5. f.j <= Len(new)
        BY <1>1, <1>6, <1>7, <2>1
    <2>6. g.shifted = 0 => \A m \in 1 .. f.j : g.served[m] = new[m]
        BY <1>2, <1>6, <1>10, <2>1 DEF LoopInv
    <2> QED
        BY <1>2, <1>4, <1>5, <1>6, <2>4, <2>5, <2>6 DEF LoopInv, new, g
<1> QED
    BY <1>9, <1>10

\* A call of onEvent closes no gap and opens none.
LEMMA LoopAfterCall ==
    ASSUME NEW list \in Seq(Listeners), Len(list) <= MaxListeners,
           NEW f \in Frame, LoopInv(list, f), ~f.running, ~f.stopped, f.j <= Len(list)
    PROVE  LET g == [f EXCEPT !.running = TRUE, !.served = Append(@, list[f.j])]
           IN  g \in Frame /\ LoopInv(list, g)
<1> DEFINE g == [f EXCEPT !.running = TRUE, !.served = Append(@, list[f.j])]
<1>1. f.j \in 1 .. Len(list) /\ f.j \in Nat /\ list[f.j] \in Listeners
    BY ElementOfSeq DEF LoopInv, Frame
<1>2. f.served \in Seq(Listeners) /\ Len(f.served) = f.j - 1
    BY DEF LoopInv, Called, Frame
<1>3. /\ Append(f.served, list[f.j]) \in Seq(Listeners)
      /\ Len(Append(f.served, list[f.j])) = f.j
      /\ \A m \in 1 .. f.j - 1 : Append(f.served, list[f.j])[m] = f.served[m]
      /\ Append(f.served, list[f.j])[f.j] = list[f.j]
    BY <1>1, <1>2, AppendProperties
<1>4. /\ g.event = f.event /\ g.j = f.j /\ g.running = TRUE /\ g.stopped = FALSE
      /\ g.served = Append(f.served, list[f.j]) /\ g.shifted = f.shifted
    BY DEF Frame
<1>5. g \in Frame
    BY <1>3 DEF Frame
<1> HIDE DEF g
<1>6. Called(g) = f.j /\ Called(f) = f.j - 1 /\ f.j >= 1 /\ f.shifted \in Nat
    BY <1>1, <1>4 DEF Called, Frame
<1>7. list[f.j] \in Range(g.served) /\ Range(f.served) \subseteq Range(g.served)
    <2>1. DOMAIN g.served = 1 .. f.j /\ DOMAIN f.served = 1 .. f.j - 1
        BY <1>2, <1>3, <1>4, LenProperties
    <2>2. f.j \in DOMAIN g.served /\ list[f.j] = g.served[f.j]
        BY <1>3, <1>4, <1>6, <1>1, <2>1
    <2>3. \A m \in DOMAIN f.served : m \in DOMAIN g.served /\ f.served[m] = g.served[m]
        BY <1>3, <1>4, <1>1, <2>1
    <2> QED
        BY <2>2, <2>3 DEF Range
<1>8. Gaps(list, g) \in SUBSET Gaps(list, f)
    <2> SUFFICES ASSUME NEW p \in Gaps(list, g) PROVE p \in Gaps(list, f)
        OBVIOUS
    <2>1. p \in 1 .. f.j /\ ~(p <= Len(list) /\ list[p] \in Range(g.served))
        BY <1>6 DEF Gaps
    <2>2. p # f.j
        BY <1>1, <1>7, <2>1
    <2>3. p \in 1 .. Called(f)
        BY <1>1, <1>6, <2>1, <2>2
    <2> QED
        BY <1>7, <2>1, <2>3 DEF Gaps
<1>9. Cardinality(Gaps(list, g)) <= g.shifted
    <2>1. /\ IsFiniteSet(Gaps(list, f)) /\ Cardinality(Gaps(list, f)) \in Nat
          /\ Cardinality(Gaps(list, g)) \in Nat
        BY <1>4, <1>5, <1>6, GapsFinite
    <2>2. Cardinality(Gaps(list, g)) <= Cardinality(Gaps(list, f))
        BY <1>8, <2>1, FS_Subset
    <2>3. Cardinality(Gaps(list, f)) <= f.shifted
        BY DEF LoopInv
    <2> QED
        BY <1>4, <1>6, <2>1, <2>2, <2>3
<1>10. g.shifted = 0 =>
           /\ Called(g) <= Len(list)
           /\ \A m \in 1 .. Called(g) : g.served[m] = list[m]
    BY <1>1, <1>3, <1>4, <1>6 DEF LoopInv
<1>11. g.j \in 1 .. MaxListeners + 1 /\ Called(g) <= MaxListeners /\ g.shifted <= MaxListeners
    BY <1>1, <1>4, <1>6, BoundAssumption DEF LoopInv
<1> QED
    BY <1>3, <1>4, <1>5, <1>6, <1>9, <1>10, <1>11 DEF LoopInv, g

\* onEvent returns: the index moves, or the loop stops where it is.
LEMMA LoopAfterReturn ==
    ASSUME NEW list, NEW f \in Frame, LoopInv(list, f), f.running,
           NEW consumed \in BOOLEAN, consumed => f.event \in Usable
    PROVE  LET g == [f EXCEPT !.running = FALSE, !.stopped = consumed,
                              !.j = IF consumed THEN @ ELSE @ + 1]
           IN  g \in Frame /\ LoopInv(list, g)
<1> DEFINE g == [f EXCEPT !.running = FALSE, !.stopped = consumed,
                          !.j = IF consumed THEN @ ELSE @ + 1]
<1>1. /\ g.event = f.event /\ g.j = IF consumed THEN f.j ELSE f.j + 1
      /\ g.running = FALSE /\ g.stopped = consumed
      /\ g.served = f.served /\ g.shifted = f.shifted
    BY DEF Frame
<1>2. g \in Frame
    <2>1. f.j \in Nat /\ f.j + 1 \in Nat
        BY DEF Frame
    <2>2. CASE consumed = TRUE
        BY <2>1, <2>2 DEF Frame
    <2>3. CASE consumed = FALSE
        <3>1. g = [f EXCEPT !.running = FALSE, !.stopped = FALSE, !.j = f.j + 1]
            BY <2>3
        <3> HIDE DEF g
        <3> QED
            BY <2>1, <3>1 DEF Frame
    <2> QED
        BY <2>2, <2>3
<1> HIDE DEF g
<1>3. Called(f) = f.j /\ Called(g) = f.j /\ f.j \in Nat
    BY <1>1 DEF Called, Frame
<1>4. Gaps(list, g) = Gaps(list, f)
    BY <1>1, <1>3 DEF Gaps
<1>5. g.j \in 1 .. MaxListeners + 1
    BY <1>1, <1>3, BoundAssumption DEF LoopInv
<1>6. LoopInv(list, g)
    BY <1>1, <1>3, <1>4, <1>5 DEF LoopInv
<1> QED
    BY <1>2, <1>6 DEF g

-----------------------------------------------------------------------------
(* The stack *)

LEMMA StackTop ==
    ASSUME Types, stack # <<>>
    PROVE  /\ Len(stack) \in Nat /\ Len(stack) >= 1
           /\ Top = stack[Len(stack)]
           /\ Top \in Frame
<1>1. Len(stack) \in Nat /\ Len(stack) >= 1
    BY EmptySeq DEF Types
<1>2. Top = stack[Len(stack)]
    BY DEF Top, Last
<1>3. Len(stack) \in 1 .. Len(stack)
    BY <1>1
<1>4. stack[Len(stack)] \in Frame
    BY <1>3, ElementOfSeq DEF Types
<1> QED
    BY <1>1, <1>2, <1>4

\* While the application or a listener has control, every loop waits for an
\* onEvent to return.
LEMMA UserStack ==
    ASSUME Types, Nested, UserCode
    PROVE  \A n \in 1 .. Len(stack) : stack[n].running
<1> SUFFICES ASSUME NEW n \in 1 .. Len(stack) PROVE stack[n].running
    OBVIOUS
<1>1. stack # <<>>
    OBVIOUS
<1>2. Len(stack) \in Nat /\ Top = stack[Len(stack)] /\ Top.running
    BY <1>1, StackTop DEF UserCode
<1>3. CASE n = Len(stack)
    BY <1>2, <1>3
<1>4. CASE n < Len(stack)
    BY <1>4 DEF Nested
<1> QED
    BY <1>2, <1>3, <1>4

\* The loop of update() is alone on the stack when it has control.
LEMMA UpdateAlone ==
    ASSUME Types, Nested, stack # <<>>, Top.i > 0
    PROVE  /\ Len(stack) = 1 /\ Top = stack[1] /\ Remaining = Top.i
           /\ Top.i \in 1 .. Len(onNextUpdate) /\ Top.event = onNextUpdate[Top.i]
<1>1. /\ Len(stack) \in Nat /\ Len(stack) >= 1 /\ Top = stack[Len(stack)]
      /\ Top.i \in Nat
    BY StackTop DEF Frame
<1>2. ~(Len(stack) > 1)
    <2> SUFFICES ASSUME Len(stack) > 1 PROVE FALSE
        OBVIOUS
    <2>1. Len(stack) \in 1 .. Len(stack)
        BY <1>1
    <2>2. stack[Len(stack)].i = 0
        BY <2>1 DEF Nested
    <2> QED
        BY <1>1, <2>2
<1>3. Len(stack) = 1 /\ 1 \in 1 .. Len(stack) /\ Top = stack[1]
    <2>1. Len(stack) \in Nat /\ Len(stack) >= 1
        BY <1>1
    <2>2. Len(stack) = 1
        BY ONLY <1>2, <2>1
    <2>3. 1 \in 1 .. Len(stack)
        BY ONLY <2>1
    <2> QED
        BY <1>1, <2>2, <2>3
<1>4. Top.i <= Len(onNextUpdate) /\ Top.event = onNextUpdate[Top.i]
    BY <1>3 DEF Nested
<1>5. Remaining = Top.i
    BY <1>1, <1>3 DEF Remaining
<1>6. Len(onNextUpdate) \in Nat
    BY DEF Types
<1> QED
    BY <1>1, <1>3, <1>4, <1>5, <1>6

\* The loop of update() is never past the end of the queue.
LEMMA RemainingInQueue ==
    ASSUME Types, Nested
    PROVE  Remaining \in 1 .. Len(onNextUpdate) + 1
<1>1. Len(onNextUpdate) \in Nat
    BY DEF Types
<1>2. CASE stack = <<>> \/ stack[1].i = 0
    BY <1>1, <1>2 DEF Remaining
<1>3. CASE stack # <<>> /\ stack[1].i # 0
    <2>1. 1 \in 1 .. Len(stack)
        BY <1>3, StackTop
    <2>2. stack[1].i \in Nat
        <3>1. stack[1] \in Frame
            BY <2>1, ElementOfSeq DEF Types
        <3> QED
            BY <3>1 DEF Frame
    <2>3. stack[1].i > 0
        BY <1>3, <2>2
    <2>4. stack[1].i <= Len(onNextUpdate)
        BY <2>1, <2>3 DEF Nested
    <2>5. Remaining = stack[1].i
        BY <1>3 DEF Remaining
    <2> QED
        BY <1>1, <2>2, <2>3, <2>4, <2>5
<1> QED
    BY <1>2, <1>3

\* The loops keep their events and positions; only waiting ones are below others.
LEMMA NestedKept ==
    ASSUME Types, Nested, stack' \in Seq(Frame), Len(stack') = Len(stack),
           \A n \in 1 .. Len(stack) : /\ stack'[n].event = stack[n].event
                                      /\ stack'[n].i = stack[n].i
                                      /\ n < Len(stack) => stack'[n].running,
           UNCHANGED <<onNextUpdate, deleted>>
    PROVE  Nested' /\ Remaining' = Remaining
<1>1. Nested'
    <2>1. ASSUME NEW n \in 1 .. Len(stack)
          PROVE  /\ n > 1 => stack'[n].i = 0
                 /\ n < Len(stack) => stack'[n].running
                 /\ stack'[n].i = 0 => stack'[n].event \notin deleted
                 /\ stack'[n].i > 0 =>
                        /\ stack'[n].i <= Len(onNextUpdate)
                        /\ stack'[n].event = onNextUpdate[stack'[n].i]
        <3>1. /\ n > 1 => stack[n].i = 0
              /\ stack[n].i = 0 => stack[n].event \notin deleted
              /\ stack[n].i > 0 => /\ stack[n].i <= Len(onNextUpdate)
                                   /\ stack[n].event = onNextUpdate[stack[n].i]
            BY DEF Nested
        <3>2. /\ stack'[n].i = stack[n].i
              /\ stack'[n].event = stack[n].event
              /\ n < Len(stack) => stack'[n].running
            OBVIOUS
        <3> QED
            BY <3>1, <3>2
    <2>2. onNextUpdate' = onNextUpdate /\ deleted' = deleted /\ Len(stack') = Len(stack)
        OBVIOUS
    <2> QED
        BY ONLY <2>1, <2>2 DEF Nested
<1>2. Remaining' = Remaining
    <2>1. stack = <<>> <=> stack' = <<>>
        BY EmptySeq DEF Types
    <2>2. stack # <<>> => 1 \in 1 .. Len(stack)
        BY StackTop
    <2>3. stack # <<>> => stack'[1].i = stack[1].i
        BY <2>2
    <2> QED
        BY <2>1, <2>3 DEF Remaining
<1> QED
    BY <1>1, <1>2

\* The innermost loop becomes g, with the same event and position.
LEMMA TopReplaced ==
    ASSUME Types, Loops, Nested, stack # <<>>, NEW g \in Frame,
           LoopInv(listener, g), g.i = Top.i, g.event = Top.event,
           stack' = [stack EXCEPT ![Len(stack)] = g],
           UNCHANGED <<listener, onNextUpdate, deleted>>
    PROVE  /\ stack' \in Seq(Frame) /\ Len(stack') = Len(stack)
           /\ Loops' /\ Nested' /\ Remaining' = Remaining
<1>1. Len(stack) \in Nat /\ Len(stack) \in 1 .. Len(stack) /\ Top = stack[Len(stack)]
    BY StackTop
<1>2. /\ stack' \in Seq(Frame) /\ Len(stack') = Len(stack)
      /\ \A n \in 1 .. Len(stack) :
             stack'[n] = IF n = Len(stack) THEN g ELSE stack[n]
    BY <1>1, ExceptSeq DEF Types
<1>3. Loops'
    <2> SUFFICES ASSUME NEW n \in 1 .. Len(stack) PROVE LoopInv(listener, stack'[n])
        BY <1>2 DEF Loops
    <2>1. CASE n = Len(stack)
        BY <1>2, <2>1
    <2>2. CASE n # Len(stack)
        BY <1>2, <2>2 DEF Loops
    <2> QED
        BY <2>1, <2>2
<1>4. ASSUME NEW n \in 1 .. Len(stack)
      PROVE  /\ stack'[n].event = stack[n].event
             /\ stack'[n].i = stack[n].i
             /\ n < Len(stack) => stack'[n].running
    <2>1. CASE n = Len(stack)
        BY <1>1, <1>2, <2>1
    <2>2. CASE n # Len(stack)
        BY <1>2, <2>2 DEF Nested
    <2> QED
        BY <2>1, <2>2
<1>5. Nested' /\ Remaining' = Remaining
    BY <1>2, <1>4, NestedKept
<1> QED
    BY <1>2, <1>3, <1>5

\* What the queue holds is not touched.
LEMMA QueueKept ==
    ASSUME Queue, NothingLost, Remaining' = Remaining,
           UNCHANGED <<onNextUpdate, deleted, requeued, owed>>
    PROVE  Queue' /\ NothingLost'
BY DEF Queue, NothingLost

-----------------------------------------------------------------------------
(* Each operation keeps the invariant *)

LEMMA InitIInv == Init => IInv
<1> SUFFICES ASSUME Init PROVE IInv
    OBVIOUS
<1>1. Types
    <2>1. <<>> \in Seq(Listeners) /\ <<>> \in Seq(Events) /\ <<>> \in Seq(Frame)
          /\ Len(<<>>) = 0
        BY EmptySeq
    <2>2. /\ listener = <<>> /\ listenerIDs = <<>> /\ onNextUpdate = <<>>
          /\ stack = <<>>
        BY DEF Init
    <2>3. deleted = {} /\ gone = {} /\ requeued = {} /\ undefined = FALSE
        BY DEF Init
    <2>4. owed \in [Events -> Int]
        <3>1. owed = [e \in Events |-> 0]
            BY DEF Init
        <3> QED
            BY ONLY <3>1
    <2>5. /\ Len(listener) <= MaxListeners /\ Len(onNextUpdate) <= MaxQueue
          /\ Len(stack) <= MaxDepth
        BY <2>1, <2>2, BoundAssumption
    <2> QED
        BY <2>1, <2>2, <2>3, <2>4, <2>5 DEF Types
<1>2. Loops /\ Nested /\ Queue /\ UndefinedOnlyByMisuse
    BY DEF Init, Loops, Nested, Queue, UndefinedOnlyByMisuse
<1>3. NothingLost
    <2> SUFFICES ASSUME NEW e \in Events
                 PROVE  owed[e] = Cardinality({k \in Remaining .. Len(onNextUpdate) :
                                                  onNextUpdate[k] = e})
        BY DEF NothingLost
    <2>1. Remaining .. Len(onNextUpdate) = {}
        BY DEF Init, Remaining
    <2>2. {k \in Remaining .. Len(onNextUpdate) : onNextUpdate[k] = e} = {}
        BY <2>1
    <2> QED
        BY <2>2, FS_EmptySet DEF Init
<1> QED
    BY <1>1, <1>2, <1>3 DEF IInv

\* A listener that is appended comes after every loop's index.
LEMMA AddStep ==
    ASSUME IInv, NEW l \in Listeners, addEventListener(l)
    PROVE  IInv'
<1> USE DEF IInv
<1>1. /\ listener' \in Seq(Listeners) /\ Len(listener') = Len(listener) + 1
      /\ Len(listener) \in Nat
    BY AppendProperties DEF addEventListener, Types
<1>2. Types'
    BY <1>1, BoundAssumption DEF addEventListener, Types
<1>3. Loops'
    <2> SUFFICES ASSUME NEW n \in 1 .. Len(stack)
                 PROVE  LoopInv(listener', stack[n])
        BY DEF Loops, addEventListener
    <2>1. stack[n] \in Frame
        BY ElementOfSeq DEF Types
    <2>2. LoopInv(listener, stack[n]) /\ listener \in Seq(Listeners)
        BY DEF Loops, Types
    <2>3. LoopInv(Append(listener, l), stack[n])
        BY <2>1, <2>2, LoopAfterAppend
    <2> QED
        BY <2>3 DEF addEventListener
<1>4. Nested' /\ Remaining' = Remaining
    BY DEF Nested, Remaining, addEventListener
<1>5. Queue' /\ NothingLost'
    BY <1>4, QueueKept DEF addEventListener
<1>6. UndefinedOnlyByMisuse'
    BY DEF UndefinedOnlyByMisuse, addEventListener, UserCode
<1> QED
    BY <1>2, <1>3, <1>4, <1>5, <1>6

\* The loops that run, once a listener at position k is gone
LEMMA FramesShifted ==
    ASSUME Types, Loops, Nested, UserCode, NEW k \in 1 .. Len(listener)
    PROVE  /\ LoopsShifted(k) \in Seq(Frame)
           /\ Len(LoopsShifted(k)) = Len(stack)
           /\ \A n \in 1 .. Len(stack) :
                  /\ LoopInv(RemoveAt(listener, k), LoopsShifted(k)[n])
                  /\ LoopsShifted(k)[n].event = stack[n].event
                  /\ LoopsShifted(k)[n].i = stack[n].i
                  /\ LoopsShifted(k)[n].running
<1> DEFINE frames == LoopsShifted(k)
           g(f) == [f EXCEPT !.shifted = IF k <= f.j THEN MoreShifted(@) ELSE @]
<1>1. DOMAIN stack = 1 .. Len(stack) /\ Len(stack) \in Nat
    BY LenProperties DEF Types
<1>2. frames = [n \in 1 .. Len(stack) |-> g(stack[n])]
    BY <1>1 DEF LoopsShifted
<1>3. ASSUME NEW n \in 1 .. Len(stack)
      PROVE  /\ g(stack[n]) \in Frame
             /\ LoopInv(RemoveAt(listener, k), g(stack[n]))
             /\ g(stack[n]).event = stack[n].event
             /\ g(stack[n]).i = stack[n].i
             /\ g(stack[n]).running
    <2>1. stack[n] \in Frame /\ LoopInv(listener, stack[n]) /\ stack[n].running
        BY ElementOfSeq, UserStack DEF Types, Loops
    <2>2. /\ g(stack[n]) \in Frame
          /\ LoopInv(RemoveAt(listener, k), g(stack[n]))
        BY <2>1, LoopAfterRemove DEF Types
    <2> QED
        BY <2>1, <2>2 DEF Frame
<1> HIDE DEF g
<1>4. frames \in [1 .. Len(stack) -> Frame]
    BY <1>2, <1>3
<1>5. frames \in Seq(Frame) /\ Len(frames) = Len(stack)
    BY <1>1, <1>4
<1>6. \A n \in 1 .. Len(stack) : frames[n] = g(stack[n])
    BY <1>2
<1> HIDE DEF frames
<1> SUFFICES /\ frames \in Seq(Frame)
             /\ Len(frames) = Len(stack)
             /\ \A n \in 1 .. Len(stack) :
                    /\ LoopInv(RemoveAt(listener, k), frames[n])
                    /\ frames[n].event = stack[n].event
                    /\ frames[n].i = stack[n].i
                    /\ frames[n].running
    BY DEF frames
<1> QED
    BY <1>3, <1>5, <1>6

\* erase moves the later listeners down, which at most adds one gap per loop.
LEMMA RemoveStep ==
    ASSUME IInv, NEW l \in Listeners, removeEventListener(l)
    PROVE  IInv'
<1> DEFINE k == IndexOf(l)
<1> USE DEF IInv
<1>1. /\ UserCode /\ k > 0
      /\ listener' = RemoveAt(listener, k) /\ listenerIDs' = RemoveAt(listenerIDs, k)
      /\ stack' = LoopsShifted(k)
      /\ UNCHANGED <<onNextUpdate, deleted, gone, undefined, owed, requeued>>
    BY DEF removeEventListener, RemoveEntry
<1> HIDE DEF k
<1>2. Len(listener) \in Nat /\ Len(stack) \in Nat
    BY DEF Types
<1>3. k \in 1 .. Len(listener)
    BY <1>1, <1>2, IndexInVector DEF k
<1>4. /\ listener' \in Seq(Listeners) /\ Len(listener') = Len(listener) - 1
      /\ listenerIDs' = listener'
    BY <1>1, <1>3, Removed DEF Types
<1>5. /\ stack' \in Seq(Frame) /\ Len(stack') = Len(stack)
      /\ \A n \in 1 .. Len(stack) : LoopInv(listener', stack'[n])
    BY <1>1, <1>3, FramesShifted
<1>6. \A n \in 1 .. Len(stack) : /\ stack'[n].event = stack[n].event
                                 /\ stack'[n].i = stack[n].i
                                 /\ stack'[n].running
    BY <1>1, <1>3, FramesShifted
<1>7. Types'
    <2>1. Len(listener') <= MaxListeners
        BY <1>2, <1>4, BoundAssumption DEF Types
    <2> QED
        BY <1>1, <1>4, <1>5, <2>1 DEF Types
<1>8. Loops'
    BY <1>5 DEF Loops
<1>9. Nested' /\ Remaining' = Remaining
    BY <1>1, <1>5, <1>6, NestedKept
<1>10. Queue' /\ NothingLost'
    BY <1>1, <1>9, QueueKept
<1>11. UndefinedOnlyByMisuse'
    BY <1>1 DEF UndefinedOnlyByMisuse, UserCode
<1> QED
    BY <1>7, <1>8, <1>9, <1>10, <1>11

\* A loop is appended to those that run: what is left in the queue stays, as
\* the loop of update() is not among those that come in.
LEMMA LoopPushed ==
    ASSUME Types, Loops, Nested, UserCode, NEW g \in Frame, g.i = 0,
           g.event \notin deleted, LoopInv(listener, g),
           stack' = Append(stack, g), UNCHANGED <<listener, onNextUpdate, deleted>>
    PROVE  /\ stack' \in Seq(Frame) /\ Len(stack') = Len(stack) + 1
           /\ Loops' /\ Nested' /\ Remaining' = Remaining
<1>1. /\ stack' \in Seq(Frame) /\ Len(stack') = Len(stack) + 1 /\ stack' # <<>>
      /\ \A n \in 1 .. Len(stack) : stack'[n] = stack[n]
      /\ stack'[Len(stack) + 1] = g
      /\ Len(stack) \in Nat
    BY AppendProperties DEF Types
<1>2. \A n \in 1 .. Len(stack') : n = Len(stack) + 1 \/ n \in 1 .. Len(stack)
    BY <1>1
<1>3. Loops'
    <2> SUFFICES ASSUME NEW n \in 1 .. Len(stack') PROVE LoopInv(listener, stack'[n])
        BY DEF Loops
    <2>1. CASE n = Len(stack) + 1
        BY <1>1, <2>1
    <2>2. CASE n \in 1 .. Len(stack)
        BY <1>1, <2>2 DEF Loops
    <2> QED
        BY <1>2, <2>1, <2>2
<1>4. Nested'
    <2>1. ASSUME NEW n \in 1 .. Len(stack')
          PROVE  /\ n > 1 => stack'[n].i = 0
                 /\ n < Len(stack') => stack'[n].running
                 /\ stack'[n].i = 0 => stack'[n].event \notin deleted
                 /\ stack'[n].i > 0 =>
                        /\ stack'[n].i <= Len(onNextUpdate)
                        /\ stack'[n].event = onNextUpdate[stack'[n].i]
        <3>1. CASE n = Len(stack) + 1
            BY <1>1, <3>1
        <3>2. CASE n \in 1 .. Len(stack)
            <4>1. stack[n].running
                BY <3>2, UserStack
            <4>2. /\ n > 1 => stack[n].i = 0
                  /\ stack[n].i = 0 => stack[n].event \notin deleted
                  /\ stack[n].i > 0 => /\ stack[n].i <= Len(onNextUpdate)
                                       /\ stack[n].event = onNextUpdate[stack[n].i]
                BY <3>2 DEF Nested
            <4>3. stack'[n] = stack[n]
                BY <1>1, <3>2
            <4> QED
                BY <4>1, <4>2, <4>3
        <3> QED
            BY <1>2, <3>1, <3>2
    <2>2. onNextUpdate' = onNextUpdate /\ deleted' = deleted
        OBVIOUS
    <2> QED
        BY ONLY <2>1, <2>2 DEF Nested
<1>5. Remaining' = Remaining
    <2>1. CASE stack = <<>>
        <3>1. Len(stack) = 0
            BY <2>1, EmptySeq
        <3>2. stack'[1].i = 0
            BY <1>1, <3>1
        <3> QED
            BY <1>1, <2>1, <3>2 DEF Remaining
    <2>2. CASE stack # <<>>
        <3>1. 1 \in 1 .. Len(stack)
            BY <2>2, StackTop
        <3>2. stack'[1] = stack[1]
            BY <1>1, <3>1
        <3> QED
            BY <1>1, <2>2, <3>2 DEF Remaining
    <2> QED
        BY <2>1, <2>2
<1> QED
    BY <1>1, <1>3, <1>4, <1>5

\* addInstantTrigger starts a loop with nothing called yet.
LEMMA InstantStep ==
    ASSUME IInv, NEW e \in Events, addInstantTrigger(e)
    PROVE  IInv'
<1> DEFINE g == Loop(e, 0)
<1> USE DEF IInv
<1>1. /\ UserCode /\ e \notin deleted /\ Len(stack) < MaxDepth
      /\ stack' = Append(stack, g)
      /\ UNCHANGED <<listener, listenerIDs, onNextUpdate, deleted, gone,
                     undefined, owed, requeued>>
    BY DEF addInstantTrigger
<1>2. g \in Frame /\ LoopInv(listener, g)
    <2>1. Len(listener) \in Nat
        BY DEF Types
    <2> QED
        BY <2>1, LoopNew
<1>3. g.i = 0 /\ g.event = e
    BY DEF Loop
<1> HIDE DEF g
<1>4. /\ stack' \in Seq(Frame) /\ Len(stack') = Len(stack) + 1
      /\ Loops' /\ Nested' /\ Remaining' = Remaining
    BY <1>1, <1>2, <1>3, LoopPushed
<1>5. Types'
    <2>1. Len(stack') <= MaxDepth
        BY <1>1, <1>4, BoundAssumption DEF Types
    <2> QED
        BY <1>1, <1>4, <2>1 DEF Types
<1>6. Queue' /\ NothingLost'
    BY <1>1, <1>4, QueueKept
<1>7. UndefinedOnlyByMisuse'
    BY <1>1 DEF UndefinedOnlyByMisuse, UserCode
<1> QED
    BY <1>4, <1>5, <1>6, <1>7

\* The positions of an event that are still to come
ToCome(from, queue, e) == {k \in from .. Len(queue) : queue[k] = e}

\* There are finitely many entries still to come.
LEMMA ToComeFinite ==
    ASSUME NEW from \in Nat, NEW queue \in Seq(Events), NEW e
    PROVE  IsFiniteSet(ToCome(from, queue, e)) /\ Cardinality(ToCome(from, queue, e)) \in Nat
<1>1. Len(queue) \in Nat
    BY LenProperties
<1>2. from \in Int /\ Len(queue) \in Int
    BY <1>1
<1>3. IsFiniteSet(from .. Len(queue))
    BY <1>2, FS_Interval
<1>4. ToCome(from, queue, e) \in SUBSET (from .. Len(queue))
    BY DEF ToCome
<1>5. IsFiniteSet(ToCome(from, queue, e))
    BY <1>3, <1>4, FS_Subset
<1> QED
    BY <1>5, FS_CardinalityType

\* addUpdateTrigger appends one entry, which is owed.
LEMMA QueueStep ==
    ASSUME IInv, NEW e \in Events, addUpdateTrigger(e)
    PROVE  IInv'
<1> DEFINE N == Len(onNextUpdate)
<1> USE DEF IInv
<1>1. /\ UserCode /\ e \notin deleted /\ N < MaxQueue
      /\ onNextUpdate' = Append(onNextUpdate, e)
      /\ owed' = [owed EXCEPT ![e] = @ + 1]
      /\ requeued' = IF e \in Range(onNextUpdate) THEN requeued \cup {e} ELSE requeued
      /\ UNCHANGED <<listener, listenerIDs, deleted, gone, stack, undefined>>
    BY DEF addUpdateTrigger
<1>2. /\ onNextUpdate' \in Seq(Events) /\ Len(onNextUpdate') = N + 1 /\ N \in Nat
      /\ \A k \in 1 .. N : onNextUpdate'[k] = onNextUpdate[k]
      /\ onNextUpdate'[N + 1] = e
    BY <1>1, AppendProperties DEF Types
<1>3. Remaining' = Remaining /\ Remaining \in 1 .. N + 1
    <2>1. Remaining \in 1 .. N + 1
        BY RemainingInQueue
    <2> QED
        BY <1>1, <2>1 DEF Remaining
<1>4. requeued \subseteq requeued' /\ requeued' \subseteq Events
    BY <1>1 DEF Types
<1>5. Types'
    <2>1. owed' \in [Events -> Int]
        BY <1>1 DEF Types
    <2>2. Len(onNextUpdate') <= MaxQueue
        BY <1>1, <1>2, BoundAssumption
    <2> QED
        BY <1>1, <1>2, <1>4, <2>1, <2>2 DEF Types
<1>6. Loops'
    BY <1>1 DEF Loops
<1>7. Nested'
    <2>1. ASSUME NEW n \in 1 .. Len(stack)
          PROVE  /\ n > 1 => stack[n].i = 0
                 /\ n < Len(stack) => stack[n].running
                 /\ stack[n].i = 0 => stack[n].event \notin deleted
                 /\ stack[n].i > 0 =>
                        /\ stack[n].i <= Len(onNextUpdate')
                        /\ stack[n].event = onNextUpdate'[stack[n].i]
        <3>1. /\ n > 1 => stack[n].i = 0
              /\ n < Len(stack) => stack[n].running
              /\ stack[n].i = 0 => stack[n].event \notin deleted
              /\ stack[n].i > 0 => /\ stack[n].i <= N
                                   /\ stack[n].event = onNextUpdate[stack[n].i]
            BY DEF Nested
        <3>2. stack[n].i \in Nat
            <4>1. stack[n] \in Frame
                BY ElementOfSeq DEF Types
            <4> QED
                BY <4>1 DEF Frame
        <3>3. stack[n].i > 0 => /\ stack[n].i <= N + 1
                                /\ onNextUpdate'[stack[n].i] = onNextUpdate[stack[n].i]
            BY <1>2, <3>1, <3>2
        <3> QED
            BY <1>2, <3>1, <3>3
    <2>2. stack' = stack /\ deleted' = deleted
        BY <1>1
    <2> QED
        BY ONLY <2>1, <2>2 DEF Nested
<1>8. Queue'
    <2>1. ASSUME NEW k \in 1 .. N + 1, NEW m \in 1 .. N + 1, k < m,
                 onNextUpdate'[k] = onNextUpdate'[m]
          PROVE  onNextUpdate'[k] \in requeued'
        <3>1. k \in 1 .. N /\ onNextUpdate'[k] = onNextUpdate[k]
            BY <1>2, <2>1
        <3>2. CASE m = N + 1
            <4>1. onNextUpdate[k] = e
                BY <1>2, <2>1, <3>1, <3>2
            <4>2. DOMAIN onNextUpdate = 1 .. N
                BY LenProperties DEF Types
            <4>3. e \in Range(onNextUpdate)
                BY <3>1, <4>1, <4>2 DEF Range
            <4> QED
                BY <1>1, <3>1, <4>1, <4>3
        <3>3. CASE m # N + 1
            <4>1. m \in 1 .. N /\ onNextUpdate'[m] = onNextUpdate[m]
                BY <1>2, <3>3
            <4>2. onNextUpdate[k] \in requeued
                BY <2>1, <3>1, <4>1 DEF Queue
            <4> QED
                BY <1>4, <3>1, <4>2
        <3> QED
            BY <3>2, <3>3
    <2>2. ASSUME NEW k \in Remaining .. N + 1, onNextUpdate'[k] \in deleted
          PROVE  onNextUpdate'[k] \in requeued' \cap Destroy
        <3>1. k # N + 1
            BY <1>1, <1>2, <2>2
        <3>2. k \in Remaining .. N /\ onNextUpdate'[k] = onNextUpdate[k]
            BY <1>2, <1>3, <3>1
        <3>3. onNextUpdate[k] \in requeued \cap Destroy
            BY <2>2, <3>2 DEF Queue
        <3> QED
            BY <1>4, <3>2, <3>3
    <2>3. deleted' = deleted
        BY <1>1
    <2> QED
        BY <1>2, <1>3, <2>1, <2>2, <2>3 DEF Queue
<1>9. NothingLost'
    <2>1. ASSUME NEW f \in Events
          PROVE  owed'[f] = Cardinality(ToCome(Remaining, onNextUpdate', f))
        <3>1. owed[f] = Cardinality(ToCome(Remaining, onNextUpdate, f))
            BY DEF NothingLost, ToCome
        <3>2. Remaining \in Nat
            BY <1>3
        <3>3. /\ IsFiniteSet(ToCome(Remaining, onNextUpdate, f))
              /\ Cardinality(ToCome(Remaining, onNextUpdate, f)) \in Nat
            BY <3>2, ToComeFinite DEF Types
        <3>4. CASE f = e
            <4>1. ToCome(Remaining, onNextUpdate', f) =
                      ToCome(Remaining, onNextUpdate, f) \cup {N + 1}
                BY <1>2, <1>3, <3>4 DEF ToCome
            <4>2. N + 1 \notin ToCome(Remaining, onNextUpdate, f)
                BY <1>2 DEF ToCome
            <4>3. Cardinality(ToCome(Remaining, onNextUpdate', f)) =
                      Cardinality(ToCome(Remaining, onNextUpdate, f)) + 1
                BY <3>3, <4>1, <4>2, FS_AddElement
            <4>4. owed'[f] = owed[f] + 1
                BY <1>1, <3>4 DEF Types
            <4> QED
                BY <3>1, <4>3, <4>4
        <3>5. CASE f # e
            <4>1. ToCome(Remaining, onNextUpdate', f) = ToCome(Remaining, onNextUpdate, f)
                BY <1>2, <1>3, <3>5 DEF ToCome
            <4>2. owed'[f] = owed[f]
                BY <1>1, <3>5 DEF Types
            <4> QED
                BY <3>1, <4>1, <4>2
        <3> QED
            BY <3>4, <3>5
    <2> QED
        BY <1>3, <2>1 DEF NothingLost, ToCome
<1>10. UndefinedOnlyByMisuse'
    BY <1>1 DEF UndefinedOnlyByMisuse, UserCode
<1> QED
    BY <1>5, <1>6, <1>7, <1>8, <1>9, <1>10

\* Deleting listeners changes no vector.
LEMMA ClearStep ==
    ASSUME IInv, NEW components \in SUBSET Listeners, clearObjects(components)
    PROVE  IInv'
<1> USE DEF IInv
<1>1. /\ ~undefined /\ gone' = gone \cup components
      /\ UNCHANGED <<listener, listenerIDs, onNextUpdate, deleted, stack,
                     undefined, owed, requeued>>
    BY DEF clearObjects
<1>2. Types'
    BY <1>1 DEF Types
<1>3. Loops' /\ Nested' /\ Remaining' = Remaining
    BY <1>1 DEF Loops, Nested, Remaining
<1>4. Queue' /\ NothingLost'
    BY <1>1, <1>3, QueueKept
<1>5. UndefinedOnlyByMisuse'
    BY <1>1 DEF UndefinedOnlyByMisuse
<1> QED
    BY <1>2, <1>3, <1>4, <1>5

\* The loop of update() is alone and stands at position k of the queue.
LEMMA UpdateFrame ==
    ASSUME NEW queue \in Seq(Events), NEW k \in 1 .. Len(queue),
           NEW list \in Seq(Listeners), stack' = <<Loop(queue[k], k)>>
    PROVE  /\ stack' \in Seq(Frame) /\ Len(stack') = 1 /\ stack' # <<>>
           /\ stack'[1].event = queue[k] /\ stack'[1].i = k
           /\ LoopInv(list, stack'[1])
<1> DEFINE g == Loop(queue[k], k)
<1>1. queue[k] \in Events /\ k \in Nat /\ Len(list) \in Nat
    BY ElementOfSeq, LenProperties
<1>2. g \in Frame /\ LoopInv(list, g)
    BY <1>1, LoopNew
<1>3. g.event = queue[k] /\ g.i = k
    BY DEF Loop
<1> HIDE DEF g
<1>4. stack' = <<g>>
    BY DEF g
<1> QED
    BY <1>2, <1>3, <1>4

\* update() starts its loop at the front of the queue.
LEMMA UpdateStep ==
    ASSUME IInv, update
    PROVE  IInv'
<1> USE DEF IInv
<1>1. /\ stack = <<>> /\ ~undefined /\ onNextUpdate # <<>>
      /\ stack' = <<Loop(onNextUpdate[1], 1)>>
      /\ UNCHANGED <<listener, listenerIDs, onNextUpdate, deleted, gone,
                     undefined, owed, requeued>>
    BY DEF update
<1>2. 1 \in 1 .. Len(onNextUpdate)
    BY <1>1, EmptySeq DEF Types
<1>3. /\ stack' \in Seq(Frame) /\ Len(stack') = 1 /\ stack' # <<>>
      /\ stack'[1].event = onNextUpdate[1] /\ stack'[1].i = 1
      /\ LoopInv(listener, stack'[1])
    BY <1>1, <1>2, UpdateFrame DEF Types
<1>4. Types'
    <2>1. Len(stack') <= MaxDepth
        BY <1>3, BoundAssumption
    <2> QED
        BY <1>1, <1>3, <2>1 DEF Types
<1>5. Loops'
    BY <1>1, <1>3 DEF Loops
<1>6. Nested'
    BY <1>1, <1>2, <1>3 DEF Nested
<1>7. Remaining' = Remaining
    BY <1>1, <1>3 DEF Remaining
<1>8. Queue' /\ NothingLost'
    BY <1>1, <1>7, QueueKept
<1>9. UndefinedOnlyByMisuse'
    BY <1>1 DEF UndefinedOnlyByMisuse
<1> QED
    BY <1>4, <1>5, <1>6, <1>7, <1>8, <1>9

\* The event of the loop that has control is deleted only if it was in the
\* queue twice.
LEMMA TopDeleted ==
    ASSUME IInv, stack # <<>>, Top.event \in deleted
    PROVE  requeued \cap Destroy # {}
<1>1. Len(stack) \in 1 .. Len(stack) /\ Top = stack[Len(stack)] /\ Top \in Frame
    BY StackTop DEF IInv
<1>2. Top.i # 0
    BY <1>1 DEF IInv, Nested
<1>3. Top.i > 0
    BY <1>1, <1>2 DEF Frame
<1>4. /\ Remaining = Top.i /\ Top.i \in 1 .. Len(onNextUpdate)
      /\ Top.event = onNextUpdate[Top.i]
    BY <1>3, UpdateAlone DEF IInv
<1>5. Top.i \in Remaining .. Len(onNextUpdate)
    BY <1>4
<1>6. Top.event \in requeued \cap Destroy
    BY <1>4, <1>5 DEF IInv, Queue
<1> QED
    BY <1>6

\* A call goes to the listener at the index.
LEMMA CallStep ==
    ASSUME IInv, callOnEvent
    PROVE  IInv'
<1> DEFINE l == listener[Top.j]
           g == [Top EXCEPT !.running = TRUE, !.served = Append(@, l)]
<1> USE DEF IInv
<1>1. /\ stack # <<>> /\ ~Top.running /\ ~Top.stopped /\ Top.j <= Len(listener)
      /\ undefined' = (l \in gone \/ Top.event \in deleted)
      /\ stack' = [stack EXCEPT ![Len(stack)].running = TRUE,
                                ![Len(stack)].served = Append(@, l)]
      /\ UNCHANGED <<listener, listenerIDs, onNextUpdate, deleted, gone, owed, requeued>>
    BY DEF callOnEvent, LoopCode
<1>2. /\ Len(stack) \in 1 .. Len(stack) /\ Top = stack[Len(stack)] /\ Top \in Frame
      /\ Len(stack) \in Nat
    BY <1>1, StackTop
<1>3. LoopInv(listener, Top)
    BY <1>2 DEF Loops
<1>4. g \in Frame /\ LoopInv(listener, g)
    BY <1>1, <1>2, <1>3, LoopAfterCall DEF Types
<1>5. g.i = Top.i /\ g.event = Top.event
    BY <1>2 DEF Frame
<1>6. stack' = [stack EXCEPT ![Len(stack)] = g]
    BY <1>1, <1>2 DEF Types, Frame
<1>7. l \in Range(listener)
    <2>1. Top.j \in 1 .. Len(listener) /\ DOMAIN listener = 1 .. Len(listener)
        BY <1>1, <1>3, LenProperties DEF LoopInv, Types
    <2> QED
        BY <2>1 DEF Range
<1> HIDE DEF l, g
<1>8. /\ stack' \in Seq(Frame) /\ Len(stack') = Len(stack)
      /\ Loops' /\ Nested' /\ Remaining' = Remaining
    BY <1>1, <1>4, <1>5, <1>6, TopReplaced
<1>9. Types'
    <2>1. undefined' \in BOOLEAN
        BY <1>1
    <2> QED
        BY <1>1, <1>8, <2>1 DEF Types
<1>10. Queue' /\ NothingLost'
    BY <1>1, <1>8, QueueKept
<1>11. UndefinedOnlyByMisuse'
    <2>1. CASE l \in gone
        <3>1. Range(listener) \cap gone # {}
            BY <1>7, <2>1
        <3> QED
            BY <1>1, <3>1 DEF UndefinedOnlyByMisuse
    <2>2. CASE Top.event \in deleted
        <3>1. requeued \cap Destroy # {}
            BY <1>1, <2>2, TopDeleted
        <3> QED
            BY <1>1, <3>1 DEF UndefinedOnlyByMisuse
    <2>3. CASE ~undefined'
        BY <2>3 DEF UndefinedOnlyByMisuse
    <2> QED
        BY <1>1, <2>1, <2>2, <2>3
<1> QED
    BY <1>8, <1>9, <1>10, <1>11

\* When onEvent returns, the loop goes on behind the listener it called.
LEMMA ReturnStep ==
    ASSUME IInv, NEW answer \in BOOLEAN, onEventReturns(answer)
    PROVE  IInv'
<1> DEFINE consumed == answer /\ Top.event \in Usable
           g == [Top EXCEPT !.running = FALSE, !.stopped = consumed,
                            !.j = IF consumed THEN @ ELSE @ + 1]
<1> USE DEF IInv
<1>1. /\ ~undefined /\ stack # <<>> /\ Top.running
      /\ stack' = [stack EXCEPT ![Len(stack)].running = FALSE,
                                ![Len(stack)].stopped = consumed,
                                ![Len(stack)].j = IF consumed THEN @ ELSE @ + 1]
      /\ UNCHANGED <<listener, listenerIDs, onNextUpdate, deleted, gone,
                     undefined, owed, requeued>>
    BY DEF onEventReturns, Returns
<1>2. consumed \in BOOLEAN /\ (consumed => Top.event \in Usable)
    OBVIOUS
<1> HIDE DEF consumed
<1>3. /\ Len(stack) \in 1 .. Len(stack) /\ Top = stack[Len(stack)] /\ Top \in Frame
      /\ Len(stack) \in Nat
    BY <1>1, StackTop
<1>4. LoopInv(listener, Top)
    BY <1>3 DEF Loops
<1>5. g \in Frame /\ LoopInv(listener, g)
    BY <1>1, <1>2, <1>3, <1>4, LoopAfterReturn
<1>6. g.i = Top.i /\ g.event = Top.event
    BY <1>3 DEF Frame
<1>7. stack' = [stack EXCEPT ![Len(stack)] = g]
    BY <1>1, <1>3 DEF Types, Frame
<1> HIDE DEF g
<1>8. /\ stack' \in Seq(Frame) /\ Len(stack') = Len(stack)
      /\ Loops' /\ Nested' /\ Remaining' = Remaining
    BY <1>1, <1>5, <1>6, <1>7, TopReplaced
<1>9. Types'
    BY <1>1, <1>8 DEF Types
<1>10. Queue' /\ NothingLost'
    BY <1>1, <1>8, QueueKept
<1>11. UndefinedOnlyByMisuse'
    BY <1>1 DEF UndefinedOnlyByMisuse
<1> QED
    BY <1>8, <1>9, <1>10, <1>11

\* A finished loop of addInstantTrigger returns to the one that waits for it.
LEMMA EndInstantStep ==
    ASSUME IInv, endInstantTrigger
    PROVE  IInv'
<1> USE DEF IInv
<1>1. /\ ~undefined /\ stack # <<>> /\ Top.i = 0
      /\ stack' = Front(stack)
      /\ UNCHANGED <<listener, listenerIDs, onNextUpdate, deleted, gone,
                     undefined, owed, requeued>>
    BY DEF endInstantTrigger, LoopEnds, LoopCode
<1>2. Len(stack) \in Nat /\ Len(stack) >= 1 /\ Top = stack[Len(stack)]
    BY <1>1, StackTop
<1>3. /\ stack' \in Seq(Frame) /\ Len(stack') = Len(stack) - 1
      /\ \A n \in 1 .. Len(stack) - 1 : stack'[n] = stack[n]
    <2> DEFINE m == Len(stack) - 1
    <2>1. 1 \in Int /\ m \in Int
        BY <1>2
    <2>2. \A n \in 1 .. m : stack[n] \in Frame
        <3> SUFFICES ASSUME NEW n \in 1 .. m PROVE stack[n] \in Frame
            OBVIOUS
        <3>1. n \in 1 .. Len(stack)
            BY <1>2
        <3> QED
            BY <3>1, ElementOfSeq DEF Types
    <2>3. stack' = SubSeq(stack, 1, m)
        BY <1>1 DEF Front
    <2> HIDE DEF m
    <2>4. /\ SubSeq(stack, 1, m) \in Seq(Frame)
          /\ Len(SubSeq(stack, 1, m)) = IF 1 <= m THEN m - 1 + 1 ELSE 0
          /\ \A n \in 1 .. m - 1 + 1 : SubSeq(stack, 1, m)[n] = stack[1 + n - 1]
        BY <2>1, <2>2, SubSeqProperties
    <2>5. m \in Nat
        BY <1>2 DEF m
    <2>6. Len(stack') = m /\ \A n \in 1 .. m : stack'[n] = stack[n]
        BY <2>3, <2>4, <2>5
    <2> QED
        BY <2>3, <2>4, <2>6 DEF m
<1>4. Types'
    <2>1. Len(stack') <= MaxDepth
        BY <1>2, <1>3, BoundAssumption DEF Types
    <2> QED
        BY <1>1, <1>3, <2>1 DEF Types
<1>5. \A n \in 1 .. Len(stack') : n \in 1 .. Len(stack) /\ stack'[n] = stack[n] /\ n < Len(stack)
    BY <1>2, <1>3
<1>6. Loops'
    BY <1>1, <1>5 DEF Loops
<1>7. Nested'
    <2>1. ASSUME NEW n \in 1 .. Len(stack')
          PROVE  /\ n > 1 => stack'[n].i = 0
                 /\ n < Len(stack') => stack'[n].running
                 /\ stack'[n].i = 0 => stack'[n].event \notin deleted
                 /\ stack'[n].i > 0 =>
                        /\ stack'[n].i <= Len(onNextUpdate)
                        /\ stack'[n].event = onNextUpdate[stack'[n].i]
        BY <1>5 DEF Nested
    <2>2. onNextUpdate' = onNextUpdate /\ deleted' = deleted
        BY <1>1
    <2> QED
        BY ONLY <2>1, <2>2 DEF Nested
<1>8. Remaining' = Remaining
    <2>1. CASE ~(Len(stack) > 1)
        <3> Len(stack) = 1
            <4>1. Len(stack) \in Nat /\ Len(stack) >= 1
                BY <1>2
            <4> QED
                BY ONLY <2>1, <4>1
        <3>1. stack' = <<>>
            BY <1>3, EmptySeq
        <3>2. stack[1].i = 0
            BY <1>1, <1>2
        <3> QED
            BY <1>1, <3>1, <3>2 DEF Remaining
    <2>2. CASE Len(stack) > 1
        <3>1. 1 \in 1 .. Len(stack) - 1
            BY <1>2, <2>2
        <3>2. stack'[1] = stack[1]
            BY <1>3, <3>1
        <3>3. Len(stack') # 0
            BY <1>2, <1>3, <2>2
        <3>4. stack' # <<>>
            BY <3>3, EmptySeq
        <3> QED
            BY <1>1, <3>2, <3>4 DEF Remaining
    <2> QED
        BY <2>1, <2>2
<1>9. Queue' /\ NothingLost'
    BY <1>1, <1>8, QueueKept
<1>10. UndefinedOnlyByMisuse'
    BY <1>1 DEF UndefinedOnlyByMisuse
<1> QED
    BY <1>4, <1>6, <1>7, <1>8, <1>9, <1>10

\* The loop of update() is done with the event at position p.
LEMMA EndUpdateStep ==
    ASSUME IInv, endUpdateEvent
    PROVE  IInv'
<1> DEFINE p == Top.i
           e == Top.event
           N == Len(onNextUpdate)
<1> USE DEF IInv
<1>1. /\ stack # <<>> /\ p > 0
      /\ undefined' = (e \in deleted)
      /\ deleted' = IF e \in Destroy THEN deleted \cup {e} ELSE deleted
      /\ owed' = [owed EXCEPT ![e] = @ - 1]
      /\ UNCHANGED <<listener, listenerIDs, gone, requeued>>
    BY DEF endUpdateEvent, UpdateGoesOn, LoopEnds, LoopCode
<1>2. \/ /\ p < N
         /\ stack' = <<[Loop(onNextUpdate[p + 1], p + 1) EXCEPT !.j = 1]>>
         /\ UNCHANGED onNextUpdate
      \/ p >= N /\ stack' = <<>> /\ onNextUpdate' = <<>>
    <2>1. p \in Nat /\ N \in Nat
        <3>1. Top \in Frame
            BY <1>1, StackTop
        <3> QED
            BY <3>1 DEF Types, Frame
    <2> QED
        BY <2>1 DEF endUpdateEvent, UpdateGoesOn
<1>3. /\ Remaining = p /\ p \in 1 .. N /\ N \in Nat /\ e = onNextUpdate[p]
      /\ e \in Events
    <2>1. Remaining = p /\ p \in 1 .. N /\ e = onNextUpdate[p]
        BY <1>1, UpdateAlone
    <2> QED
        BY <2>1, ElementOfSeq, LenProperties DEF Types
<1>4. undefined' => requeued \cap Destroy # {}
    BY <1>1, TopDeleted
<1> HIDE DEF p, e, N
<1>5. UndefinedOnlyByMisuse'
    BY <1>1, <1>4 DEF UndefinedOnlyByMisuse
<1>6. /\ owed' \in [Events -> Int] /\ deleted' \subseteq Events
      /\ undefined' \in BOOLEAN
    BY <1>1, <1>3 DEF Types
<1>7. ASSUME NEW f \in Events
      PROVE  owed'[f] = Cardinality(ToCome(p + 1, onNextUpdate, f))
    <2>1. owed[f] = Cardinality(ToCome(p, onNextUpdate, f))
        BY <1>3 DEF NothingLost, ToCome, N
    <2>2. /\ IsFiniteSet(ToCome(p, onNextUpdate, f))
          /\ Cardinality(ToCome(p, onNextUpdate, f)) \in Nat
        <3>1. p \in Nat
            BY <1>3
        <3> QED
            BY <3>1, ToComeFinite DEF Types
    <2>3. ToCome(p + 1, onNextUpdate, f) = ToCome(p, onNextUpdate, f) \ {p}
        BY <1>3 DEF ToCome, N
    <2>4. p \in ToCome(p, onNextUpdate, f) <=> f = e
        BY <1>3 DEF ToCome, N
    <2>5. Cardinality(ToCome(p + 1, onNextUpdate, f)) =
              IF f = e THEN Cardinality(ToCome(p, onNextUpdate, f)) - 1
              ELSE Cardinality(ToCome(p, onNextUpdate, f))
        BY <2>2, <2>3, <2>4, FS_RemoveElement
    <2>6. owed'[f] = IF f = e THEN owed[f] - 1 ELSE owed[f]
        BY <1>1, <1>3 DEF Types
    <2> QED
        BY <2>1, <2>5, <2>6
<1>8. CASE p < N /\ onNextUpdate' = onNextUpdate
                 /\ stack' = <<[Loop(onNextUpdate[p + 1], p + 1) EXCEPT !.j = 1]>>
    <2>1. p + 1 \in 1 .. N /\ p + 1 > 0
        BY <1>3, <1>8
    <2>2. stack' = <<Loop(onNextUpdate[p + 1], p + 1)>>
        <3> DEFINE g == Loop(onNextUpdate[p + 1], p + 1)
        <3>1. g.j = 1 /\ g \in Frame
            <4>1. onNextUpdate[p + 1] \in Events /\ p + 1 \in Nat
                BY <2>1, ElementOfSeq DEF Types, N
            <4> QED
                BY <4>1, LoopNew DEF Loop
        <3> HIDE DEF g
        <3>2. [g EXCEPT !.j = 1] = g
            BY <3>1 DEF Frame
        <3> QED
            BY <1>8, <3>2 DEF g
    <2>3. /\ stack' \in Seq(Frame) /\ Len(stack') = 1 /\ stack' # <<>>
          /\ stack'[1].event = onNextUpdate[p + 1] /\ stack'[1].i = p + 1
          /\ LoopInv(listener, stack'[1])
        BY <2>1, <2>2, UpdateFrame DEF Types, N
    <2>4. Types'
        <3>1. Len(stack') <= MaxDepth
            BY <2>3, BoundAssumption
        <3> QED
            BY <1>1, <1>6, <1>8, <2>3, <3>1 DEF Types
    <2>5. Loops'
        BY <1>1, <2>3 DEF Loops
    <2>6. Nested'
        BY <1>8, <2>1, <2>3 DEF Nested, N
    <2>7. Remaining' = p + 1
        BY <2>1, <2>3 DEF Remaining
    <2>8. NothingLost'
        BY <1>7, <1>8, <2>7 DEF NothingLost, ToCome
    <2>9. Queue'
        <3>1. ASSUME NEW k \in p + 1 .. N, onNextUpdate[k] \in deleted'
              PROVE  onNextUpdate[k] \in requeued \cap Destroy
            <4>1. k \in Remaining .. N
                BY <1>3
            <4>2. CASE onNextUpdate[k] \in deleted
                BY <4>1, <4>2 DEF Queue, N
            <4>3. CASE onNextUpdate[k] \notin deleted
                <5>1. onNextUpdate[k] = e /\ e \in Destroy
                    BY <1>1, <3>1, <4>3
                <5>2. p \in 1 .. N /\ k \in 1 .. N /\ p < k
                    BY <1>3
                <5>3. onNextUpdate[p] \in requeued
                    BY <1>3, <5>1, <5>2 DEF Queue, N
                <5> QED
                    BY <1>3, <5>1, <5>3
            <4> QED
                BY <4>2, <4>3
        <3> QED
            BY <1>1, <1>8, <2>7, <3>1 DEF Queue, N
    <2> QED
        BY <1>5, <2>4, <2>5, <2>6, <2>8, <2>9
<1>9. CASE p >= N /\ stack' = <<>> /\ onNextUpdate' = <<>>
    <2>1. <<>> \in Seq(Frame) /\ <<>> \in Seq(Events) /\ Len(<<>>) = 0
        BY EmptySeq
    <2>2. Types'
        <3>1. Len(stack') <= MaxDepth /\ Len(onNextUpdate') <= MaxQueue
            BY <1>9, <2>1, BoundAssumption
        <3> QED
            BY <1>1, <1>6, <1>9, <2>1, <3>1 DEF Types
    <2>3. Loops' /\ Nested'
        BY <1>9, <2>1 DEF Loops, Nested
    <2>4. Remaining' = 1
        BY <1>9 DEF Remaining
    <2>5. NothingLost'
        <3>1. ASSUME NEW f \in Events
              PROVE  owed'[f] = Cardinality({k \in 1 .. Len(<<>>) : <<>>[k] = f})
            <4>1. ToCome(p + 1, onNextUpdate, f) = {}
                BY <1>3, <1>9 DEF ToCome, N
            <4>2. {k \in 1 .. Len(<<>>) : <<>>[k] = f} = {}
                BY <2>1
            <4> QED
                BY <1>7, <4>1, <4>2
        <3> QED
            BY <1>9, <2>4, <3>1 DEF NothingLost
    <2>6. Queue'
        BY <1>9, <2>1, <2>4 DEF Queue
    <2> QED
        BY <1>5, <2>2, <2>3, <2>5, <2>6
<1> QED
    BY <1>2, <1>8, <1>9

\* Every step keeps the invariant.
LEMMA NextIInv == IInv /\ [Next]_vars => IInv'
<1> SUFFICES ASSUME IInv, [Next]_vars PROVE IInv'
    OBVIOUS
<1>1. ASSUME NEW l \in Listeners, addEventListener(l) PROVE IInv'
    BY <1>1, AddStep
<1>2. ASSUME NEW l \in Listeners, removeEventListener(l) PROVE IInv'
    BY <1>2, RemoveStep
<1>3. ASSUME NEW e \in Events, addInstantTrigger(e) PROVE IInv'
    BY <1>3, InstantStep
<1>4. ASSUME NEW e \in Events, addUpdateTrigger(e) PROVE IInv'
    BY <1>4, QueueStep
<1>5. ASSUME NEW components \in SUBSET Listeners, clearObjects(components) PROVE IInv'
    BY <1>5, ClearStep
<1>6. CASE update
    BY <1>6, UpdateStep
<1>7. CASE callOnEvent
    BY <1>7, CallStep
<1>8. ASSUME NEW answer \in BOOLEAN, onEventReturns(answer) PROVE IInv'
    BY <1>8, ReturnStep
<1>9. CASE endInstantTrigger
    BY <1>9, EndInstantStep
<1>10. CASE endUpdateEvent
    BY <1>10, EndUpdateStep
<1>11. CASE UNCHANGED vars
    BY <1>11 DEF vars, IInv, Types, Loops, Nested, Queue, NothingLost, Remaining,
                 UndefinedOnlyByMisuse
<1> QED
    BY <1>1, <1>2, <1>3, <1>4, <1>5, <1>6, <1>7, <1>8, <1>9, <1>10, <1>11 DEF Next

\* Every reachable state satisfies the invariant.
LEMMA Invariant == Spec => []IInv
<1> QED
    BY InitIInv, NextIInv, PTL DEF Spec

-----------------------------------------------------------------------------
(* What the invariant says of the properties *)

\* onNextUpdate.clear() at the end of update() drops no event, however many
\* listeners queue while update() runs.
THEOREM NothingIsLost == Spec => []NothingLost
<1>1. IInv => NothingLost
    BY DEF IInv
<1> QED
    BY <1>1, Invariant, PTL

\* update() and the triggers use no deleted event and call no deleted listener,
\* unless the program queued an event twice that update() deletes or cleared
\* game objects with registered components.
THEOREM UseIsSafe == Spec => []UndefinedOnlyByMisuse
<1>1. IInv => UndefinedOnlyByMisuse
    BY DEF IInv
<1> QED
    BY <1>1, Invariant, PTL

\* A dispatch loop of addInstantTrigger or update() leaves out at most one
\* listener for each that removeEventListener took away at or before its index.
THEOREM SkipsAreBounded == Spec => []SkipsBounded
<1>1. IInv => SkipsBounded
    <2> SUFFICES ASSUME IInv, NEW n \in DOMAIN stack
                 PROVE  Cardinality({k \in DOMAIN listener :
                            k < stack[n].j /\ listener[k] \notin Range(stack[n].served)})
                          <= stack[n].shifted
        BY DEF SkipsBounded
    <2> DEFINE f == stack[n]
               Missed == {k \in DOMAIN listener :
                              k < f.j /\ listener[k] \notin Range(f.served)}
    <2>1. n \in 1 .. Len(stack)
        BY LenProperties DEF IInv, Types
    <2>2. f \in Frame /\ LoopInv(listener, f)
        BY <2>1, ElementOfSeq DEF IInv, Types, Loops
    <2> HIDE DEF f
    <2>3. f.j \in Nat /\ f.j >= 1 /\ f.shifted \in Nat
        BY <2>2 DEF Frame, LoopInv
    <2>4. /\ IsFiniteSet(Gaps(listener, f)) /\ Cardinality(Gaps(listener, f)) \in Nat
          /\ Called(f) \in Nat
        BY <2>2, <2>3, GapsFinite
    <2>5. DOMAIN listener = 1 .. Len(listener) /\ Len(listener) \in Nat
        BY LenProperties DEF IInv, Types
    <2>6. Called(f) = f.j \/ Called(f) = f.j - 1
        BY DEF Called
    <2>7. Missed \in SUBSET Gaps(listener, f)
        BY <2>3, <2>4, <2>5, <2>6 DEF Gaps
    <2> HIDE DEF Missed
    <2>8. IsFiniteSet(Missed) /\ Cardinality(Missed) <= Cardinality(Gaps(listener, f))
        BY <2>4, <2>7, FS_Subset
    <2>9. Cardinality(Missed) \in Nat
        BY <2>8, FS_CardinalityType
    <2>10. Cardinality(Gaps(listener, f)) <= f.shifted
        BY <2>2 DEF LoopInv
    <2>11. Cardinality(Missed) <= f.shifted
        BY <2>3, <2>4, <2>8, <2>9, <2>10
    <2> QED
        BY <2>11 DEF Missed, f
<1> QED
    BY <1>1, Invariant, PTL

\* A loop under whose index nothing was removed has called all the listeners in
\* order when it ends, or the first of them up to the one that consumed the event.
THEOREM ServedInOrderHolds == Spec => []ServedInOrder
<1>1. IInv => ServedInOrder
    <2> SUFFICES ASSUME IInv, LoopEnds, Top.shifted = 0
                 PROVE  \/ Top.served = listener
                        \/ Top.event \in Usable /\ IsPrefix(Top.served, listener)
        BY DEF ServedInOrder
    <2> USE DEF IInv
    <2>1. stack # <<>> /\ ~Top.running /\ (Top.stopped \/ Top.j > Len(listener))
        BY DEF LoopEnds, LoopCode
    <2>2. /\ Len(stack) \in 1 .. Len(stack) /\ Top = stack[Len(stack)]
          /\ Top \in Frame
        BY <2>1, StackTop
    <2>3. LoopInv(listener, Top)
        BY <2>2 DEF Loops
    <2>4. /\ Called(Top) <= Len(listener) /\ Len(Top.served) = Called(Top)
          /\ \A m \in 1 .. Called(Top) : Top.served[m] = listener[m]
          /\ Top.stopped => Top.event \in Usable
        BY <2>3 DEF LoopInv
    <2>5. /\ Top.served \in Seq(Listeners) /\ listener \in Seq(Listeners)
          /\ Len(listener) \in Nat /\ Top.j \in Nat
        BY <2>2 DEF Frame, Types
    <2>6. CASE Top.stopped
        <3>1. SubSeq(Top.served, 1, Len(Top.served)) = Top.served
            BY <2>5, SubSeqFull
        <3> DEFINE m == Len(Top.served)
        <3>2. m \in Nat /\ m <= Len(listener)
            BY <2>4, <2>5
        <3>3. \A i \in 1 .. m : listener[i] \in Listeners
            <4> SUFFICES ASSUME NEW i \in 1 .. m PROVE listener[i] \in Listeners
                OBVIOUS
            <4>1. i \in 1 .. Len(listener)
                BY <2>5, <3>2
            <4> QED
                BY <2>5, <4>1, ElementOfSeq
        <3>4. 1 \in Int /\ m \in Int
            BY <3>2
        <3> HIDE DEF m
        <3>5. /\ SubSeq(listener, 1, m) \in Seq(Listeners)
              /\ Len(SubSeq(listener, 1, m)) = IF 1 <= m THEN m - 1 + 1 ELSE 0
              /\ \A i \in 1 .. m - 1 + 1 : SubSeq(listener, 1, m)[i] = listener[1 + i - 1]
            BY <3>3, <3>4, SubSeqProperties
        <3>6. /\ Len(SubSeq(listener, 1, m)) = m
              /\ \A i \in 1 .. m : SubSeq(listener, 1, m)[i] = listener[i]
            BY <3>2, <3>5
        <3>7. \A i \in 1 .. m : Top.served[i] = SubSeq(listener, 1, m)[i]
            BY <2>4, <3>6 DEF m
        <3>8. Top.served = SubSeq(listener, 1, m)
            BY <2>5, <3>5, <3>6, <3>7, SeqEqual DEF m
        <3>9. IsPrefix(Top.served, listener)
            BY <3>1, <3>2, <3>8 DEF IsPrefix, m
        <3> QED
            BY <2>4, <2>6, <3>9
    <2>7. CASE ~Top.stopped
        <3>1. Called(Top) = Top.j - 1 /\ Top.j > Len(listener)
            BY <2>1, <2>7 DEF Called
        <3>2. Called(Top) = Len(listener)
            BY <2>4, <2>5, <3>1
        <3>3. Top.served = listener
            BY <2>4, <2>5, <3>2, SeqEqual
        <3> QED
            BY <3>3
    <2> QED
        BY <2>6, <2>7
<1> QED
    BY <1>1, Invariant, PTL

\* The vectors, the queue and the loops keep their types and bounds, and
\* listenerIDs names what listener holds, inside dispatch loops too.
THEOREM TypeCorrect == Spec => []TypeOK
<1>1. IInv => TypeOK
    <2> SUFFICES ASSUME IInv PROVE TypeOK
        OBVIOUS
    <2> USE DEF IInv
    <2>1. listener \in BoundedSeq(Listeners, MaxListeners)
        <3>1. /\ listener \in [1 .. Len(listener) -> Listeners]
              /\ Len(listener) \in 0 .. MaxListeners
            BY LenProperties, BoundAssumption DEF Types
        <3> QED
            BY <3>1 DEF BoundedSeq, SeqOf
    <2>2. onNextUpdate \in BoundedSeq(Events, MaxQueue)
        <3>1. /\ onNextUpdate \in [1 .. Len(onNextUpdate) -> Events]
              /\ Len(onNextUpdate) \in 0 .. MaxQueue
            BY LenProperties, BoundAssumption DEF Types
        <3> QED
            BY <3>1 DEF BoundedSeq, SeqOf
    <2>3. ASSUME NEW n \in DOMAIN stack
          PROVE  /\ stack[n].shifted \in 0 .. MaxListeners
                 /\ stack[n].event \in Events
                 /\ stack[n].i \in 0 .. MaxQueue
                 /\ stack[n].j \in 1 .. MaxListeners + 1
                 /\ Len(stack[n].served) <= MaxListeners
        <3>1. n \in 1 .. Len(stack)
            BY LenProperties DEF Types
        <3>2. stack[n] \in Frame /\ LoopInv(listener, stack[n])
            BY <3>1, ElementOfSeq DEF Types, Loops
        <3>3. stack[n].i > 0 => stack[n].i <= Len(onNextUpdate)
            BY <3>1 DEF Nested
        <3>4. /\ stack[n].i \in Nat /\ stack[n].shifted \in Nat
              /\ stack[n].event \in Events
            BY <3>2 DEF Frame
        <3>5. stack[n].i \in 0 .. MaxQueue
            <4>1. Len(onNextUpdate) \in Nat /\ Len(onNextUpdate) <= MaxQueue
                BY DEF Types
            <4> QED
                BY <3>3, <3>4, <4>1, BoundAssumption
        <3>6. /\ stack[n].shifted \in 0 .. MaxListeners
              /\ stack[n].j \in 1 .. MaxListeners + 1
              /\ Len(stack[n].served) <= MaxListeners
            BY <3>2, <3>4, BoundAssumption DEF LoopInv
        <3> QED
            BY <3>4, <3>5, <3>6
    <2>4. owed \in [Events -> 0 .. MaxQueue]
        <3>1. ASSUME NEW e \in Events PROVE owed[e] \in 0 .. MaxQueue
            <4>1. owed[e] = Cardinality(ToCome(Remaining, onNextUpdate, e))
                BY DEF NothingLost, ToCome
            <4>2. /\ Remaining \in Nat /\ Remaining >= 1 /\ Len(onNextUpdate) \in Nat
                  /\ Len(onNextUpdate) <= MaxQueue
                BY RemainingInQueue DEF Types
            <4>3. Cardinality(ToCome(Remaining, onNextUpdate, e)) \in Nat
                BY <4>2, ToComeFinite DEF Types
            <4>4. /\ IsFiniteSet(1 .. Len(onNextUpdate))
                  /\ Cardinality(1 .. Len(onNextUpdate)) = Len(onNextUpdate)
                <5>1. 1 \in Int /\ Len(onNextUpdate) \in Int
                    BY <4>2
                <5>2. /\ IsFiniteSet(1 .. Len(onNextUpdate))
                      /\ Cardinality(1 .. Len(onNextUpdate)) =
                             IF 1 > Len(onNextUpdate) THEN 0
                             ELSE Len(onNextUpdate) - 1 + 1
                    BY <5>1, FS_Interval
                <5> QED
                    BY <4>2, <5>2
            <4>5. ToCome(Remaining, onNextUpdate, e) \in SUBSET (1 .. Len(onNextUpdate))
                BY <4>2 DEF ToCome
            <4>6. Cardinality(ToCome(Remaining, onNextUpdate, e)) <= Len(onNextUpdate)
                BY <4>4, <4>5, FS_Subset
            <4> QED
                BY <4>1, <4>2, <4>3, <4>6, BoundAssumption
        <3>2. owed \in [Events -> Int]
            BY DEF Types
        <3> QED
            BY <3>1, <3>2
    <2>5. /\ listenerIDs = listener /\ deleted \subseteq Events /\ gone \subseteq Listeners
          /\ Len(stack) <= MaxDepth /\ undefined \in BOOLEAN /\ requeued \subseteq Events
        BY DEF Types
    <2> QED
        BY <2>1, <2>2, <2>3, <2>4, <2>5 DEF TypeOK
<1> QED
    BY <1>1, Invariant, PTL
=============================================================================
