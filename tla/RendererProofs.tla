---------------------------- MODULE RendererProofs ----------------------------
(***************************************************************************)
(* Proofs about Renderer for any drawables, shaders and buttons and any    *)
(* number of calls: that a save reads back as what it was made from, which *)
(* mistakes alone lead to an invalid pointer or to a leak, and what the    *)
(* flags of a button remember of the mouse.                                *)
(***************************************************************************)
EXTENDS Renderer, FiniteSetTheorems, SequenceTheorems, NaturalsInduction,
        WellFoundedInduction, TLAPS

-----------------------------------------------------------------------------
(* The invariant *)

Events == {"press", "release"}

Types ==
    /\ device \in {"unset", "live", "null"}
    /\ camera \in BOOLEAN /\ undefined \in BOOLEAN /\ failed \in BOOLEAN
    /\ LButton \in BOOLEAN
    /\ m_allDrawable \in Seq(Drawables) /\ m_allDrawableIDs \in Seq(Drawables)
    /\ m_buttons \in Seq(Buttons) /\ m_buttonGameObjectIDs \in Seq(Buttons)
    /\ held \subseteq Drawables
    /\ flags \in [Watched -> Flags]
    /\ mouse \in [Watched -> SUBSET Events]
    /\ klicked \subseteq Watched

\* The drawables that have never been taken out
Never == Drawables \ (removed \cup unloaded)

\* What is shown is a part of what is saved, and the whole of it as far as drawables
\* are concerned that have never been taken out.
Shown ==
    /\ Range(m_allDrawable) \subseteq Range(m_allDrawableIDs)
    /\ Never \cap Range(m_allDrawableIDs) \subseteq Range(m_allDrawable)
    /\ \A d, e \in Never :
           Before(m_allDrawableIDs, d, e) <=> Before(m_allDrawable, d, e)
    /\ \A d \in Never : ~Before(m_allDrawableIDs, d, d)

\* What is in the file can be read, and shows nothing twice that has never been
\* taken out.
Filed ==
    file # NoFile =>
        LET scene == Read(file) IN
        /\ scene.ok
        /\ scene.drawables \in Seq(Drawables) /\ scene.buttons \in Seq(Buttons)
        /\ \A d \in Never : ~Before(scene.drawables, d, d)

\* serialize indexes the ids of the buttons by the number of the pointers.
InStep ==
    /\ Len(m_buttons) <= Len(m_buttonGameObjectIDs)
    /\ ~cleared => m_buttons = m_buttonGameObjectIDs

\* Without a device only drawables that were taken out hold resources.
Released == device # "live" => held \subseteq removed

\* After an Initialize that succeeded, what it found has what LoadContent gives it.
HasContent(d) == container[d] = "valid" /\ d \in held

Loaded ==
    device = "live" /\ ~failed =>
        \A d \in Range(m_allDrawable) \ (late \cup uncompiled) : HasContent(d)

\* What the mouse did over a button since the last klick
Seen(b) == IF b \in klicked THEN {} ELSE mouse[b]

Remembered ==
    \A b \in Watched \ unseen :
        /\ flags[b].down => "press" \in Seen(b)
        /\ flags[b].up => "release" \in Seen(b)

IInv == /\ Types /\ Shown /\ Filed /\ InStep /\ NothingLeaks /\ Released /\ Loaded
        /\ UndefinedOnlyByMisuse /\ Remembered /\ KlickedOverButton

-----------------------------------------------------------------------------
(* Reading reverses writing *)

\* The units of a file of the renderer
Units == [width : {IntWidth, ParamsWidth}, value : Int]

\* operator>> takes the value off the end that operator<< has put there.
LEMMA GotValue ==
    ASSUME NEW body \in Seq(Units), NEW width \in {IntWidth, ParamsWidth}, NEW value \in Int,
           NEW r, r.ok = TRUE, r.body = PutValue(body, width, value)
    PROVE  GetValue(r, width) = [ok |-> TRUE, body |-> body, value |-> value]
<1> DEFINE S == Units
           u == Unit(width, value)
           long == PutValue(body, width, value)
           n == Len(body)
<1>1. n \in Nat /\ u \in S /\ body \in Seq(S)
    BY DEF Unit, Units
<1> HIDE DEF S
<1>2. /\ long \in Seq(S) /\ Len(long) = n + 1 /\ long[n + 1] = u
      /\ \A k \in 1 .. n : long[k] = body[k]
    <2> HIDE DEF u
    <2>1. long = Append(body, u)
        BY DEF PutValue, u
    <2> HIDE DEF long
    <2> QED
        BY <1>1, <2>1, AppendProperties
<1>3. long # <<>> /\ Last(long) = u /\ u.width = width /\ u.value = value
    <2>1. u.width = width /\ u.value = value
        BY DEF Unit
    <2> HIDE DEF u, long
    <2>2. Last(long) = u
        BY <1>2 DEF Last
    <2>3. long # <<>>
        BY <1>1, <1>2, EmptySeq
    <2> QED
        BY <2>1, <2>2, <2>3
<1>4. Front(long) = body
    <2> HIDE DEF long, n, u
    <2>1. 1 \in Int /\ n \in Int /\ (n + 1) - 1 = n
        BY <1>1
    <2>2. \A k \in 1 .. n : long[k] \in S
        BY <1>1, <1>2, ElementOfSeq DEF n
    <2>3. Front(long) = SubSeq(long, 1, n)
        BY <1>2, <2>1 DEF Front
    <2>4. /\ SubSeq(long, 1, n) \in Seq(S)
          /\ Len(SubSeq(long, 1, n)) = IF 1 <= n THEN n - 1 + 1 ELSE 0
          /\ \A k \in 1 .. n - 1 + 1 : SubSeq(long, 1, n)[k] = long[1 + k - 1]
        BY <2>1, <2>2, SubSeqProperties
    <2>5. Len(SubSeq(long, 1, n)) = Len(body)
        BY <1>1, <2>4 DEF n
    <2>6. \A k \in 1 .. Len(body) : SubSeq(long, 1, n)[k] = body[k]
        BY <1>1, <1>2, <2>4 DEF n
    <2> QED
        BY <2>3, <2>4, <2>5, <2>6, SeqEqual
<1>5. r.body = long
    OBVIOUS
<1> HIDE DEF long, u
<1> QED
    BY <1>3, <1>4, <1>5 DEF GetValue

\* A vector's values come off the end in the opposite order.
LEMMA GotValues ==
    ASSUME NEW body \in Seq(Units), NEW width \in {IntWidth, ParamsWidth},
           NEW values \in Seq(Int),
           NEW r, r.ok = TRUE, r.body = PutValues(body, width, values)
    PROVE  GetValues(r, width, Len(values)) =
               [ok |-> TRUE, body |-> body,
                value |-> [k \in 1 .. Len(values) |-> values[Len(values) + 1 - k]]]
<1> DEFINE S == Units
           us == [k \in DOMAIN values |-> Unit(width, values[k])]
           long == PutValues(body, width, values)
           n == Len(body)
           m == Len(values)
<1>1. n \in Nat /\ m \in Nat /\ DOMAIN values = 1 .. m
    BY LenProperties
<1>2. us \in Seq(S) /\ Len(us) = m /\ \A k \in 1 .. m : us[k] = Unit(width, values[k])
    <2>1. \A k \in 1 .. m : Unit(width, values[k]) \in S
        BY ElementOfSeq DEF Unit, Units
    <2>2. us = [k \in 1 .. m |-> Unit(width, values[k])]
        BY <1>1
    <2> HIDE DEF m, us, S
    <2> QED
        BY <1>1, <2>1, <2>2
<1>14. body \in Seq(S)
    OBVIOUS
<1> HIDE DEF S
<1>3. long = body \o us
    BY DEF PutValues
<1> HIDE DEF us, long, n, m
<1>4. /\ long \in Seq(S) /\ Len(long) = n + m
      /\ \A k \in 1 .. n + m : long[k] = IF k <= n THEN body[k] ELSE us[k - n]
    BY <1>2, <1>3, <1>14, ConcatProperties DEF n
<1>5. ~(m < 0) /\ (n + m) - m = n /\ n \in Int /\ n + 1 \in Int /\ 1 \in Int /\ n + m \in Int
    BY <1>1
<1>6. \A k \in 1 .. n + m : long[k] \in S
    BY <1>4, ElementOfSeq
<1> DEFINE taken == SubSeq(long, n + 1, n + m)
           rest == SubSeq(long, 1, n)
<1>7. /\ taken \in Seq(S) /\ Len(taken) = m /\ DOMAIN taken = 1 .. m
      /\ \A k \in 1 .. m : taken[k] = us[k]
    <2>1. \A k \in n + 1 .. n + m : long[k] \in S
        BY <1>1, <1>6
    <2>2. /\ taken \in Seq(S)
          /\ Len(taken) = IF n + 1 <= n + m THEN (n + m) - (n + 1) + 1 ELSE 0
          /\ \A k \in 1 .. (n + m) - (n + 1) + 1 : taken[k] = long[(n + 1) + k - 1]
        BY <1>5, <2>1, SubSeqProperties
    <2> HIDE DEF taken
    <2>3. Len(taken) = m /\ (n + m) - (n + 1) + 1 = m
        BY <1>1, <2>2
    <2>4. ASSUME NEW k \in 1 .. m PROVE taken[k] = us[k]
        <3> DEFINE p == (n + 1) + k - 1
        <3>1. p \in 1 .. n + m /\ ~(p <= n) /\ p - n = k
            BY <1>1
        <3>2. taken[k] = long[p]
            BY <2>2, <2>3
        <3> HIDE DEF p
        <3>3. long[p] = us[p - n]
            BY <1>4, <3>1
        <3> QED
            BY <3>1, <3>2, <3>3
    <2> QED
        BY <2>2, <2>3, <2>4, LenProperties
<1>8. rest = body
    <2>1. \A k \in 1 .. n : long[k] \in S
        BY <1>1, <1>6
    <2>2. /\ rest \in Seq(S)
          /\ Len(rest) = IF 1 <= n THEN n - 1 + 1 ELSE 0
          /\ \A k \in 1 .. n - 1 + 1 : rest[k] = long[1 + k - 1]
        BY <1>5, <2>1, SubSeqProperties
    <2> HIDE DEF rest
    <2>3. Len(rest) = Len(body)
        BY <1>1, <2>2 DEF n
    <2>4. ASSUME NEW k \in 1 .. n PROVE rest[k] = body[k]
        <3>1. k \in 1 .. n - 1 + 1 /\ 1 + k - 1 = k /\ k \in 1 .. n + m /\ k <= n
            BY <1>1
        <3> QED
            BY <1>4, <2>2, <3>1
    <2> QED
        BY <2>2, <2>3, <2>4, SeqEqual DEF n
<1>9. \A k \in 1 .. m : taken[k].width = width /\ taken[k].value = values[k]
    BY <1>2, <1>7 DEF Unit
<1>10. \A k \in 1 .. m : m + 1 - k \in 1 .. m
    BY <1>1
<1>11. [k \in 1 .. m |-> taken[m + 1 - k].value] = [k \in 1 .. m |-> values[m + 1 - k]]
    BY <1>9, <1>10
<1>12. r.body = long /\ Len(r.body) = n + m
    BY <1>4 DEF long
<1>13. GetValues(r, width, m) =
          [ok |-> TRUE, body |-> rest, value |-> [k \in 1 .. m |-> taken[m + 1 - k].value]]
    <2>1. /\ Len(r.body) - m = n /\ m >= 0 /\ n >= 0
          /\ SubSeq(r.body, n + 1, Len(r.body)) = taken /\ SubSeq(r.body, 1, n) = rest
        BY <1>1, <1>5, <1>12
    <2> HIDE DEF taken, rest
    <2> QED
        BY <1>7, <1>9, <2>1 DEF GetValues
<1> QED
    BY <1>8, <1>11, <1>13 DEF m

\* The ids of a pair are read in the order in which the constructor takes them.
LEMMA PairsBack ==
    ASSUME NEW list \in Seq(Drawables)
    PROVE  /\ Pairs(list) \in Seq(Int) /\ Len(Pairs(list)) = 2 * Len(list)
           /\ \A n \in 1 .. Len(list) :
                  /\ 2 * n \in 1 .. 2 * Len(list) /\ 2 * n - 1 \in 1 .. 2 * Len(list)
                  /\ <<Pairs(list)[2 * Len(list) + 1 - 2 * n],
                       Pairs(list)[2 * Len(list) + 1 - (2 * n - 1)]>> = list[n]
<1> DEFINE m == Len(list)
<1>1. m \in Nat /\ \A n \in 1 .. m : list[n] \in Int \X Int
    <2>1. m \in Nat
        OBVIOUS
    <2>2. \A n \in 1 .. m : list[n] \in Drawables
        BY ElementOfSeq
    <2> QED
        BY <2>1, <2>2, RendererAssumption
<1>2. Pairs(list) = [n \in 1 .. 2 * m |-> list[m - (n - 1) \div 2][2 - (n % 2)]]
    BY DEF Pairs
<1> HIDE DEF m
<1>3. \A n \in 1 .. 2 * m : /\ m - (n - 1) \div 2 \in 1 .. m
                            /\ 2 - (n % 2) \in {1, 2}
    BY <1>1
<1>4. \A n \in 1 .. 2 * m : list[m - (n - 1) \div 2][2 - (n % 2)] \in Int
    BY <1>1, <1>3
<1>5. Pairs(list) \in Seq(Int) /\ Len(Pairs(list)) = 2 * m
    <2>1. 2 * m \in Nat
        BY <1>1
    <2> QED
        BY <1>2, <1>4, <2>1
<1>6. ASSUME NEW n \in 1 .. m
      PROVE  /\ 2 * n \in 1 .. 2 * m /\ 2 * n - 1 \in 1 .. 2 * m
             /\ <<Pairs(list)[2 * m + 1 - 2 * n],
                  Pairs(list)[2 * m + 1 - (2 * n - 1)]>> = list[n]
    <2> DEFINE p == 2 * m + 1 - 2 * n
               q == 2 * m + 1 - (2 * n - 1)
    <2>1. /\ 2 * n \in 1 .. 2 * m /\ 2 * n - 1 \in 1 .. 2 * m
          /\ p \in 1 .. 2 * m /\ q \in 1 .. 2 * m
        BY <1>1
    <2>2. m - (p - 1) \div 2 = n /\ 2 - (p % 2) = 1
        BY <1>1
    <2>3. m - (q - 1) \div 2 = n /\ 2 - (q % 2) = 2
        BY <1>1
    <2> HIDE DEF p, q
    <2>4. Pairs(list)[p] = list[n][1] /\ Pairs(list)[q] = list[n][2]
        BY <1>2, <2>1, <2>2, <2>3
    <2>5. list[n] \in Int \X Int
        BY <1>1
    <2>6. list[n] = <<list[n][1], list[n][2]>>
        BY <2>5
    <2> QED
        BY <2>1, <2>4, <2>6 DEF p, q
<1> QED
    BY <1>5, <1>6 DEF m

\* DrawableRenderer::set reads what DrawableRenderer::serialize wrote.
LEMMA ReadBack ==
    ASSUME Types, Len(m_buttons) <= Len(m_buttonGameObjectIDs)
    PROVE  /\ Read(Serialized).ok
           /\ Read(Serialized).drawables = m_allDrawableIDs
           /\ Read(Serialized).buttons
                  = [n \in 1 .. Len(m_buttons) |-> m_buttonGameObjectIDs[n]]
           /\ Read(Serialized).camera <=> camera
<1> DEFINE S == Units
           size == Len(m_buttons)
           count == Len(m_allDrawableIDs)
           ids == [n \in 1 .. size |-> m_buttonGameObjectIDs[size + 1 - n]]
           pairs == Pairs(m_allDrawableIDs)
           cam == IF camera THEN CameraID ELSE -1
           b1 == PutValue(<<>>, IntWidth, cam)
           b2 == PutValue(b1, ParamsWidth, 0)
           b3 == PutValues(b2, IntWidth, ids)
           b4 == PutValue(b3, IntWidth, size)
           b5 == PutValues(b4, IntWidth, pairs)
           b6 == PutValue(b5, IntWidth, count)
<1>1. Serialized = b6
    BY DEF Serialized, PutInt
<1>2. /\ \A v \in Int : Unit(IntWidth, v) \in S /\ Unit(ParamsWidth, v) \in S
      /\ size \in Nat /\ count \in Nat /\ cam \in Int /\ 0 \in Int
    BY DEF Unit, Units, Types, CameraID
<1>3. ids \in Seq(Int) /\ Len(ids) = size /\ \A n \in 1 .. size : ids[n] = m_buttonGameObjectIDs[size + 1 - n]
    <2>1. \A n \in 1 .. size : size + 1 - n \in 1 .. Len(m_buttonGameObjectIDs)
        BY <1>2 DEF Types
    <2>2. \A n \in 1 .. Len(m_buttonGameObjectIDs) : m_buttonGameObjectIDs[n] \in Int
        BY RendererAssumption, ElementOfSeq DEF Types
    <2>3. \A n \in 1 .. size : m_buttonGameObjectIDs[size + 1 - n] \in Int
        BY <2>1, <2>2
    <2> HIDE DEF size
    <2> QED
        BY <1>2, <2>3
<1>4. pairs \in Seq(Int) /\ Len(pairs) = 2 * count
    BY PairsBack DEF Types
<1>5. /\ \A body, w, v : PutValue(body, w, v) = Append(body, Unit(w, v))
      /\ \A body \in Seq(S), v \in Int : PutValue(body, IntWidth, v) \in Seq(S)
                                         /\ PutValue(body, ParamsWidth, v) \in Seq(S)
    <2>1. \A body, w, v : PutValue(body, w, v) = Append(body, Unit(w, v))
        BY DEF PutValue
    <2> HIDE DEF S
    <2> QED
        BY <1>2, <2>1, AppendProperties
<1>6. \A body \in Seq(S), vs \in Seq(Int) : PutValues(body, IntWidth, vs) \in Seq(S)
    <2> SUFFICES ASSUME NEW body \in Seq(S), NEW vs \in Seq(Int)
                 PROVE  PutValues(body, IntWidth, vs) \in Seq(S)
        OBVIOUS
    <2> DEFINE us == [k \in DOMAIN vs |-> Unit(IntWidth, vs[k])]
    <2> HIDE DEF S
    <2>1. Len(vs) \in Nat /\ DOMAIN vs = 1 .. Len(vs)
        BY LenProperties
    <2>2. \A k \in 1 .. Len(vs) : Unit(IntWidth, vs[k]) \in S
        BY <1>2, ElementOfSeq
    <2>3. us \in Seq(S)
        BY <2>1, <2>2
    <2> HIDE DEF us
    <2> QED
        BY <2>3, ConcatProperties DEF PutValues, us
<1> HIDE DEF S, size, count, ids, pairs, cam
<1>7. b1 \in Seq(S) /\ b2 \in Seq(S) /\ b3 \in Seq(S) /\ b4 \in Seq(S) /\ b5 \in Seq(S)
    <2>1. b1 \in Seq(S)
        BY <1>2, <1>5
    <2>2. b2 \in Seq(S)
        BY <1>2, <1>5, <2>1
    <2>3. b3 \in Seq(S)
        BY <1>3, <1>6, <2>2
    <2>4. b4 \in Seq(S)
        BY <1>2, <1>5, <2>3
    <2>5. b5 \in Seq(S)
        BY <1>4, <1>6, <2>4
    <2> QED
        BY <2>1, <2>2, <2>3, <2>4, <2>5
<1> DEFINE r1 == GetValue(Reader(b6), IntWidth)
           r2 == GetValues(r1, IntWidth, 2 * r1.value)
           r3 == GetValue(r2, IntWidth)
           r4 == GetValues(r3, IntWidth, r3.value)
           r5 == GetValue(r4, ParamsWidth)
           r6 == GetValue(r5, IntWidth)
<1>8. Reader(b6).ok = TRUE /\ Reader(b6).body = b6
    BY DEF Reader
<1> HIDE DEF b1, b2, b3, b4, b5, b6
<1>9. r1 = [ok |-> TRUE, body |-> b5, value |-> count]
    <2>1. b5 \in Seq(Units) /\ IntWidth \in {IntWidth, ParamsWidth} /\ count \in Int
        BY <1>2, <1>7 DEF S
    <2>2. Reader(b6).ok = TRUE /\ Reader(b6).body = PutValue(b5, IntWidth, count)
        BY <1>8 DEF b6
    <2> QED
        BY <2>1, <2>2, GotValue
<1>10. r2 = [ok |-> TRUE, body |-> b4,
             value |-> [k \in 1 .. 2 * count |-> pairs[2 * count + 1 - k]]]
    <2>1. r1.ok = TRUE /\ r1.body = PutValues(b4, IntWidth, pairs) /\ r1.value = count
        BY <1>9 DEF b5
    <2>3. b4 \in Seq(Units) /\ IntWidth \in {IntWidth, ParamsWidth} /\ pairs \in Seq(Int)
        BY <1>3, <1>4, <1>7 DEF S
    <2> HIDE DEF r1
    <2>2. GetValues(r1, IntWidth, Len(pairs)) =
              [ok |-> TRUE, body |-> b4,
               value |-> [k \in 1 .. Len(pairs) |-> pairs[Len(pairs) + 1 - k]]]
        BY <2>1, <2>3, GotValues
    <2> QED
        BY <1>4, <2>1, <2>2
<1>11. r3 = [ok |-> TRUE, body |-> b3, value |-> size]
    <2>1. r2.ok = TRUE /\ r2.body = PutValue(b3, IntWidth, size)
        BY <1>10 DEF b4
    <2>2. b3 \in Seq(Units) /\ IntWidth \in {IntWidth, ParamsWidth} /\ size \in Int
        BY <1>2, <1>7 DEF S
    <2> HIDE DEF r2
    <2> QED
        BY <2>1, <2>2, GotValue
<1>12. r4 = [ok |-> TRUE, body |-> b2, value |-> [k \in 1 .. size |-> ids[size + 1 - k]]]
    <2>1. r3.ok = TRUE /\ r3.body = PutValues(b2, IntWidth, ids) /\ r3.value = size
        BY <1>11 DEF b3
    <2>3. b2 \in Seq(Units) /\ IntWidth \in {IntWidth, ParamsWidth} /\ ids \in Seq(Int)
        BY <1>3, <1>4, <1>7 DEF S
    <2> HIDE DEF r3
    <2>2. GetValues(r3, IntWidth, Len(ids)) =
              [ok |-> TRUE, body |-> b2,
               value |-> [k \in 1 .. Len(ids) |-> ids[Len(ids) + 1 - k]]]
        BY <2>1, <2>3, GotValues
    <2> QED
        BY <1>3, <2>1, <2>2
<1>13. r5 = [ok |-> TRUE, body |-> b1, value |-> 0]
    <2>1. r4.ok = TRUE /\ r4.body = PutValue(b1, ParamsWidth, 0)
        BY <1>12 DEF b2
    <2>2. b1 \in Seq(Units) /\ ParamsWidth \in {IntWidth, ParamsWidth} /\ 0 \in Int
        BY <1>2, <1>7 DEF S
    <2> HIDE DEF r4
    <2> QED
        BY <2>1, <2>2, GotValue
<1>14. r6.ok = TRUE /\ r6.value = cam
    <2>1. r5.ok = TRUE /\ r5.body = PutValue(<<>>, IntWidth, cam)
        BY <1>13 DEF b1
    <2>3. <<>> \in Seq(Units) /\ IntWidth \in {IntWidth, ParamsWidth} /\ cam \in Int
        BY <1>2
    <2> HIDE DEF r5
    <2>2. r6 = [ok |-> TRUE, body |-> <<>>, value |-> cam]
        BY <2>1, <2>3, GotValue
    <2> QED
        BY <2>2
<1>15. Read(Serialized) =
           [ok |-> r6.ok,
            drawables |-> [n \in 1 .. r1.value |-> <<r2.value[2 * n], r2.value[2 * n - 1]>>],
            buttons |-> r4.value,
            camera |-> r6.value = CameraID]
    BY <1>1 DEF Read
<1> HIDE DEF r1, r2, r3, r4, r5, r6
<1>16. [n \in 1 .. r1.value |-> <<r2.value[2 * n], r2.value[2 * n - 1]>>] = m_allDrawableIDs
    <2>1. /\ r1.value = count
          /\ r2.value = [k \in 1 .. 2 * count |-> pairs[2 * count + 1 - k]]
        BY <1>9, <1>10
    <2>2. \A n \in 1 .. count : <<r2.value[2 * n], r2.value[2 * n - 1]>> = m_allDrawableIDs[n]
        <3> SUFFICES ASSUME NEW n \in 1 .. count
                     PROVE  <<r2.value[2 * n], r2.value[2 * n - 1]>> = m_allDrawableIDs[n]
            OBVIOUS
        <3>1. /\ 2 * n \in 1 .. 2 * count /\ 2 * n - 1 \in 1 .. 2 * count
              /\ <<pairs[2 * count + 1 - 2 * n], pairs[2 * count + 1 - (2 * n - 1)]>>
                     = m_allDrawableIDs[n]
            BY PairsBack DEF Types, count, pairs
        <3> QED
            BY <2>1, <3>1
    <2>3. m_allDrawableIDs = [n \in 1 .. count |-> m_allDrawableIDs[n]]
        BY DEF Types, count
    <2> QED
        BY <2>1, <2>2, <2>3
<1>17. r4.value = [n \in 1 .. size |-> m_buttonGameObjectIDs[n]]
    <2>1. r4.value = [k \in 1 .. size |-> ids[size + 1 - k]]
        BY <1>12
    <2>2. \A k \in 1 .. size : size + 1 - k \in 1 .. size /\ size + 1 - (size + 1 - k) = k
        BY <1>2
    <2>3. \A k \in 1 .. size : ids[size + 1 - k] = m_buttonGameObjectIDs[k]
        BY <1>3, <2>2
    <2> QED
        BY <2>1, <2>3
<1>18. (r6.value = CameraID) <=> camera
    BY <1>14 DEF cam, CameraID
<1>19. Read(Serialized).ok = TRUE
    BY <1>14, <1>15
<1>20. Read(Serialized).drawables = m_allDrawableIDs
    BY <1>15, <1>16
<1>21. Read(Serialized).buttons = [n \in 1 .. Len(m_buttons) |-> m_buttonGameObjectIDs[n]]
    BY <1>15, <1>17 DEF size
<1>22. Read(Serialized).camera = (r6.value = CameraID)
    <2> DEFINE found == (r6.value = CameraID)
    <2>1. \A ok, list, bs, c :
              [ok |-> ok, drawables |-> list, buttons |-> bs, camera |-> c].camera = c
        OBVIOUS
    <2> HIDE DEF found
    <2>2. Read(Serialized).camera = found
        BY <1>15, <2>1 DEF found
    <2> QED
        BY <2>2 DEF found
<1> QED
    BY <1>18, <1>19, <1>20, <1>21, <1>22, Zenon

-----------------------------------------------------------------------------
(* The lists *)

\* A set of numbers that is not empty has a smallest element.
LEMMA MinIsMember ==
    ASSUME NEW S \in SUBSET Nat, S # {}
    PROVE  Min(S) \in S
<1> DEFINE Less == {ss \in Nat \X Nat : ss[1] < ss[2]}
<1>1. IsWellFoundedOn(Less, Nat)
    BY NatLessThanWellFounded DEF OpToRel
<1> HIDE DEF Less
<1>2. PICK x \in S : \A y \in S : ~(<<y, x>> \in Less)
    BY <1>1, WFMin
<1>3. \A y \in S : x <= y
    <2> SUFFICES ASSUME NEW y \in S PROVE ~(y < x)
        OBVIOUS
    <2> QED
        BY <1>2 DEF Less
<1> QED
    BY <1>3 DEF Min

\* erase() at a position
LEMMA Removed ==
    ASSUME NEW S, NEW s \in Seq(S), NEW k \in 1 .. Len(s)
    PROVE  /\ RemoveAt(s, k) \in Seq(S)
           /\ Len(RemoveAt(s, k)) = Len(s) - 1
           /\ \A p \in 1 .. Len(s) - 1 :
                  RemoveAt(s, k)[p] = IF p < k THEN s[p] ELSE s[p + 1]
<1> DEFINE a == SubSeq(s, 1, k - 1)
           b == SubSeq(s, k + 1, Len(s))
<1>1. a \in Seq(S) /\ Len(a) = k - 1 /\ \A p \in 1 .. k - 1 : a[p] = s[p]
    <2>1. \A i \in 1 .. k - 1 : s[i] \in S
        BY ElementOfSeq
    <2>2. 1 \in Int /\ k - 1 \in Int
        OBVIOUS
    <2>3. /\ a \in Seq(S)
          /\ Len(a) = IF 1 <= k - 1 THEN (k - 1) - 1 + 1 ELSE 0
          /\ \A i \in 1 .. (k - 1) - 1 + 1 : a[i] = s[1 + i - 1]
        BY <2>1, <2>2, SubSeqProperties
    <2> QED
        BY <2>3
<1>2. b \in Seq(S) /\ Len(b) = Len(s) - k /\ \A p \in 1 .. Len(s) - k : b[p] = s[k + p]
    <2>1. \A i \in k + 1 .. Len(s) : s[i] \in S
        BY ElementOfSeq
    <2>2. k + 1 \in Int /\ Len(s) \in Int
        OBVIOUS
    <2>3. /\ b \in Seq(S)
          /\ Len(b) = IF k + 1 <= Len(s) THEN Len(s) - (k + 1) + 1 ELSE 0
          /\ \A i \in 1 .. Len(s) - (k + 1) + 1 : b[i] = s[k + 1 + i - 1]
        BY <2>1, <2>2, SubSeqProperties
    <2> QED
        BY <2>3
<1>3. RemoveAt(s, k) = a \o b
    BY DEF RemoveAt
<1>4. /\ a \o b \in Seq(S)
      /\ Len(a \o b) = Len(a) + Len(b)
      /\ \A i \in 1 .. Len(a) + Len(b) :
             (a \o b)[i] = IF i <= Len(a) THEN a[i] ELSE b[i - Len(a)]
    BY <1>1, <1>2, ConcatProperties
<1> HIDE DEF a, b
<1>5. ASSUME NEW p \in 1 .. Len(s) - 1
      PROVE  (a \o b)[p] = IF p < k THEN s[p] ELSE s[p + 1]
    <2>1. CASE p < k
        BY <1>1, <1>2, <1>4, <2>1
    <2>2. CASE ~(p < k)
        <3>1. p - (k - 1) \in 1 .. Len(s) - k /\ k + (p - (k - 1)) = p + 1
            BY <2>2
        <3>2. p \in 1 .. Len(a) + Len(b) /\ ~(p <= Len(a)) /\ Len(a) = k - 1
            BY <1>1, <1>2, <2>2
        <3>3. (a \o b)[p] = b[p - (k - 1)]
            BY <1>4, <3>2
        <3>4. b[p - (k - 1)] = s[k + (p - (k - 1))]
            BY <1>2, <3>1
        <3> QED
            BY <2>2, <3>1, <3>3, <3>4
    <2> QED
        BY <2>1, <2>2
<1> QED
    BY <1>1, <1>2, <1>3, <1>4, <1>5

\* The first occurrence of an element
Place(s, x) == SelectInSeq(s, LAMBDA v : v = x)

\* std::find of something that is there gives its first position.
LEMMA FirstFound ==
    ASSUME NEW S, NEW s \in Seq(S), NEW x \in Range(s)
    PROVE  /\ Place(s, x) \in 1 .. Len(s) /\ s[Place(s, x)] = x
           /\ RemoveFirst(s, x) = RemoveAt(s, Place(s, x))
<1> DEFINE Found == {i \in 1 .. Len(s) : s[i] = x}
           k == Place(s, x)
<1>1. PICK i \in 1 .. Len(s) : s[i] = x
    BY LenProperties DEF Range
<1>2. k = IF Found # {} THEN Min(Found) ELSE 0
    BY DEF SelectInSeq, Place
<1>3. Found # {} /\ Found \in SUBSET Nat
    BY <1>1
<1>4. Min(Found) \in Found
    BY <1>3, MinIsMember
<1>5. k \in Found
    BY <1>2, <1>3, <1>4
<1>6. RemoveFirst(s, x) = RemoveAt(s, k)
    BY <1>1 DEF RemoveFirst, Place
<1> QED
    BY <1>5, <1>6

\* push_back
LEMMA Added ==
    ASSUME NEW S, NEW s \in Seq(S), NEW x \in S
    PROVE  /\ Append(s, x) \in Seq(S) /\ Len(Append(s, x)) = Len(s) + 1
           /\ Range(Append(s, x)) = Range(s) \cup {x}
           /\ \A d, e : Before(Append(s, x), d, e) <=>
                            Before(s, d, e) \/ (d \in Range(s) /\ e = x)
<1> DEFINE t == Append(s, x)
           n == Len(s)
<1>1. /\ t \in Seq(S) /\ Len(t) = n + 1 /\ t[n + 1] = x
      /\ \A i \in 1 .. n : t[i] = s[i]
    BY AppendProperties
<1>2. n \in Nat /\ DOMAIN s = 1 .. n /\ DOMAIN t = 1 .. n + 1
    BY <1>1, LenProperties
<1> HIDE DEF t, n
<1>3. Range(t) = Range(s) \cup {x}
    <2>1. ASSUME NEW y \in Range(t) PROVE y \in Range(s) \cup {x}
        <3>1. PICK i \in 1 .. n + 1 : t[i] = y
            BY <1>2 DEF Range
        <3>2. CASE i = n + 1
            BY <1>1, <3>1, <3>2
        <3>3. CASE i # n + 1
            <4>1. i \in 1 .. n
                BY <1>2, <3>3
            <4>2. y = s[i]
                BY <1>1, <3>1, <4>1
            <4> QED
                BY <1>2, <4>1, <4>2 DEF Range
        <3> QED
            BY <3>2, <3>3
    <2>2. ASSUME NEW y \in Range(s) PROVE y \in Range(t)
        <3>1. PICK i \in 1 .. n : s[i] = y
            BY <1>2 DEF Range
        <3>2. i \in 1 .. n + 1 /\ t[i] = y
            BY <1>1, <1>2, <3>1
        <3> QED
            BY <1>2, <3>2 DEF Range
    <2>3. x \in Range(t)
        <3>1. n + 1 \in 1 .. n + 1
            BY <1>2
        <3> QED
            BY <1>1, <1>2, <3>1 DEF Range
    <2> QED
        BY <2>1, <2>2, <2>3
<1>4. ASSUME NEW d, NEW e
      PROVE  Before(t, d, e) <=> Before(s, d, e) \/ (d \in Range(s) /\ e = x)
    <2>1. ASSUME Before(t, d, e) PROVE Before(s, d, e) \/ (d \in Range(s) /\ e = x)
        <3>1. PICK i \in 1 .. n + 1, j \in 1 .. n + 1 : i < j /\ t[i] = d /\ t[j] = e
            BY <1>2, <2>1 DEF Before
        <3>2. i \in 1 .. n /\ s[i] = d
            BY <1>1, <1>2, <3>1
        <3>3. CASE j = n + 1
            BY <1>1, <1>2, <3>1, <3>2, <3>3 DEF Range
        <3>4. CASE j # n + 1
            <4>1. j \in 1 .. n
                BY <1>2, <3>4
            <4>2. s[j] = e
                BY <1>1, <3>1, <4>1
            <4> QED
                BY <1>2, <3>1, <3>2, <4>1, <4>2 DEF Before
        <3> QED
            BY <3>3, <3>4
    <2>2. ASSUME Before(s, d, e) PROVE Before(t, d, e)
        <3>1. PICK i \in 1 .. n, j \in 1 .. n : i < j /\ s[i] = d /\ s[j] = e
            BY <1>2, <2>2 DEF Before
        <3>2. i \in 1 .. n + 1 /\ j \in 1 .. n + 1 /\ t[i] = d /\ t[j] = e
            BY <1>1, <1>2, <3>1
        <3> QED
            BY <1>2, <3>1, <3>2 DEF Before
    <2>3. ASSUME d \in Range(s), e = x PROVE Before(t, d, e)
        <3>1. PICK i \in 1 .. n : s[i] = d
            BY <1>2, <2>3 DEF Range
        <3>2. i \in 1 .. n + 1 /\ n + 1 \in 1 .. n + 1 /\ i < n + 1 /\ t[i] = d /\ t[n + 1] = e
            BY <1>1, <1>2, <2>3, <3>1
        <3> QED
            BY <1>2, <3>2 DEF Before
    <2> QED
        BY <2>1, <2>2, <2>3
<1> QED
    BY <1>1, <1>3, <1>4 DEF t, n

\* erase() of the first occurrence: the others keep their order.
LEMMA Taken ==
    ASSUME NEW S, NEW s \in Seq(S), NEW x \in Range(s)
    PROVE  /\ RemoveFirst(s, x) \in Seq(S) /\ Len(RemoveFirst(s, x)) = Len(s) - 1
           /\ Range(s) = Range(RemoveFirst(s, x)) \cup {x}
           /\ \A d, e : d # x /\ e # x =>
                  (Before(RemoveFirst(s, x), d, e) <=> Before(s, d, e))
<1> DEFINE k == Place(s, x)
           t == RemoveFirst(s, x)
           n == Len(s)
           place(i) == IF i < k THEN i ELSE i - 1
<1>1. k \in 1 .. n /\ s[k] = x /\ t = RemoveAt(s, k)
    BY FirstFound
<1> HIDE DEF k, t
<1>2. /\ t \in Seq(S) /\ Len(t) = n - 1
      /\ \A p \in 1 .. n - 1 : t[p] = IF p < k THEN s[p] ELSE s[p + 1]
    BY <1>1, Removed
<1>3. n \in Nat /\ DOMAIN s = 1 .. n /\ DOMAIN t = 1 .. n - 1
    BY <1>2, LenProperties
<1> HIDE DEF n
<1>4. \A i \in 1 .. n : i # k => place(i) \in 1 .. n - 1 /\ t[place(i)] = s[i]
    <2> SUFFICES ASSUME NEW i \in 1 .. n, i # k
                 PROVE  place(i) \in 1 .. n - 1 /\ t[place(i)] = s[i]
        OBVIOUS
    <2>1. CASE i < k
        <3>1. i \in 1 .. n - 1
            BY <1>1, <1>3, <2>1
        <3> QED
            BY <1>2, <2>1, <3>1
    <2>2. CASE ~(i < k)
        <3>1. i - 1 \in 1 .. n - 1 /\ ~(i - 1 < k) /\ (i - 1) + 1 = i
            BY <1>1, <1>3, <2>2
        <3>2. t[i - 1] = s[(i - 1) + 1]
            BY <1>2, <3>1
        <3> QED
            BY <2>2, <3>1, <3>2
    <2> QED
        BY <2>1, <2>2
<1>5. \A i, j \in 1 .. n : i # k /\ j # k /\ i < j => place(i) < place(j)
    BY <1>1, <1>3
<1>6. \A p \in 1 .. n - 1 :
          LET i == IF p < k THEN p ELSE p + 1 IN
          i \in 1 .. n /\ t[p] = s[i]
    <2> SUFFICES ASSUME NEW p \in 1 .. n - 1
                 PROVE  LET i == IF p < k THEN p ELSE p + 1 IN
                        i \in 1 .. n /\ t[p] = s[i]
        OBVIOUS
    <2>1. (IF p < k THEN p ELSE p + 1) \in 1 .. n
        BY <1>1, <1>3
    <2>2. t[p] = IF p < k THEN s[p] ELSE s[p + 1]
        BY <1>2
    <2> QED
        BY <2>1, <2>2
<1> HIDE DEF place
<1>7. Range(s) = Range(t) \cup {x}
    <2>1. ASSUME NEW y \in Range(s), y # x PROVE y \in Range(t)
        <3>1. PICK i \in 1 .. n : s[i] = y
            BY <1>3 DEF Range
        <3>2. i # k
            BY <1>1, <2>1, <3>1
        <3>3. place(i) \in 1 .. n - 1 /\ t[place(i)] = y
            BY <1>4, <3>1, <3>2
        <3> QED
            BY <1>3, <3>3 DEF Range
    <2>2. ASSUME NEW y \in Range(t) PROVE y \in Range(s)
        <3>1. PICK p \in 1 .. n - 1 : t[p] = y
            BY <1>3 DEF Range
        <3> DEFINE i == IF p < k THEN p ELSE p + 1
        <3>2. i \in 1 .. n /\ s[i] = y
            BY <1>6, <3>1
        <3> HIDE DEF i
        <3> QED
            BY <1>3, <3>2 DEF Range
    <2> QED
        BY <2>1, <2>2
<1>8. ASSUME NEW d, NEW e, d # x, e # x
      PROVE  Before(t, d, e) <=> Before(s, d, e)
    <2>1. ASSUME Before(s, d, e) PROVE Before(t, d, e)
        <3>1. PICK i \in 1 .. n, j \in 1 .. n : i < j /\ s[i] = d /\ s[j] = e
            BY <1>3, <2>1 DEF Before
        <3>2. i # k /\ j # k
            BY <1>1, <1>8, <3>1
        <3>3. /\ place(i) \in 1 .. n - 1 /\ t[place(i)] = d
              /\ place(j) \in 1 .. n - 1 /\ t[place(j)] = e
            BY <1>4, <3>1, <3>2
        <3>4. place(i) < place(j)
            BY <1>5, <3>1, <3>2
        <3> QED
            BY <1>3, <3>3, <3>4 DEF Before
    <2>2. ASSUME Before(t, d, e) PROVE Before(s, d, e)
        <3>1. PICK p \in 1 .. n - 1, q \in 1 .. n - 1 : p < q /\ t[p] = d /\ t[q] = e
            BY <1>3, <2>2 DEF Before
        <3> DEFINE i == IF p < k THEN p ELSE p + 1
                   j == IF q < k THEN q ELSE q + 1
        <3>2. i \in 1 .. n /\ s[i] = d /\ j \in 1 .. n /\ s[j] = e
            BY <1>6, <3>1
        <3>3. i < j
            BY <1>1, <3>1
        <3> HIDE DEF i, j
        <3> QED
            BY <1>3, <3>2, <3>3 DEF Before
    <2> QED
        BY <2>1, <2>2
<1> QED
    BY <1>2, <1>7, <1>8 DEF t, n

\* What is listed more than once comes before itself.
LEMMA TimesFound ==
    ASSUME NEW S, NEW s \in Seq(S), NEW d
    PROVE  /\ Times(s, d) \in Nat
           /\ Times(s, d) > 1 => Before(s, d, d)
           /\ d \in Range(s) => Times(s, d) > 0
<1> DEFINE At == {n \in DOMAIN s : s[n] = d}
<1>1. Len(s) \in Nat /\ DOMAIN s = 1 .. Len(s)
    BY LenProperties
<1>2. IsFiniteSet(1 .. Len(s))
    BY <1>1, FS_Interval
<1>3. IsFiniteSet(At)
    BY <1>1, <1>2, FS_Subset
<1>4. Times(s, d) = Cardinality(At)
    BY DEF Times
<1>5. Times(s, d) \in Nat
    BY <1>3, <1>4, FS_CardinalityType
<1> HIDE DEF At
<1>6. ASSUME Times(s, d) > 1 PROVE Before(s, d, d)
    <2>1. At # {}
        <3>1. Cardinality(At) # 0
            BY <1>4, <1>5, <1>6
        <3> QED
            BY <1>3, <3>1, FS_EmptySet
    <2>2. PICK i \in At : TRUE
        BY <2>1
    <2>3. ~(At \subseteq {i})
        <3> SUFFICES ASSUME At \subseteq {i} PROVE FALSE
            OBVIOUS
        <3>1. IsFiniteSet({i}) /\ Cardinality({i}) = 1
            BY FS_Singleton
        <3>2. Cardinality(At) <= 1
            BY <3>1, FS_Subset
        <3> QED
            BY <1>4, <1>5, <1>6, <3>2
    <2>4. PICK j \in At : j # i
        BY <2>3
    <2>5. i < j \/ j < i
        BY <1>1, <2>4 DEF At
    <2> QED
        BY <2>5 DEF Before, At
<1>7. ASSUME d \in Range(s) PROVE Times(s, d) > 0
    <2>1. At # {}
        BY <1>7 DEF Range, At
    <2>2. Cardinality(At) # 0
        BY <1>3, <2>1, FS_EmptySet
    <2> QED
        BY <1>4, <1>5, <2>2
<1> QED
    BY <1>5, <1>6, <1>7

-----------------------------------------------------------------------------
(* Every step keeps the invariant *)

LEMMA InitIInv == Init => IInv
<1> SUFFICES ASSUME Init PROVE IInv
    OBVIOUS
<1>1. \A d, e : ~Before(<<>>, d, e)
    BY DEF Before
<1>2. Types
    <2>1. /\ device \in {"unset", "live", "null"}
          /\ camera \in BOOLEAN /\ undefined \in BOOLEAN /\ failed \in BOOLEAN
          /\ LButton \in BOOLEAN /\ flags \in [Watched -> Flags]
          /\ held \subseteq Drawables /\ klicked \subseteq Watched
        BY DEF Init
    <2>2. mouse \in [Watched -> SUBSET Events]
        BY DEF Init
    <2>3. /\ m_allDrawable \in Seq(Drawables) /\ m_allDrawableIDs \in Seq(Drawables)
          /\ m_buttons \in Seq(Buttons) /\ m_buttonGameObjectIDs \in Seq(Buttons)
        BY DEF Init
    <2> QED
        BY <2>1, <2>2, <2>3 DEF Types
<1>3. Shown
    BY <1>1 DEF Init, Shown, Range
<1>4. Filed /\ InStep /\ NothingLeaks /\ Released /\ Loaded /\ UndefinedOnlyByMisuse
    BY DEF Init, Filed, InStep, NothingLeaks, Released, Loaded, UndefinedOnlyByMisuse
<1>5. Remembered /\ KlickedOverButton
    BY DEF Init, Remembered, KlickedOverButton
<1> QED
    BY <1>2, <1>3, <1>4, <1>5 DEF IInv

\* What a call of the application leaves to the mouse
LEMMA InputKept ==
    ASSUME Remembered, KlickedOverButton, UNCHANGED input
    PROVE  Remembered' /\ KlickedOverButton'
<1>1. UNCHANGED <<flags, mouse, klicked, unseen>>
    BY DEF input
<1> QED
    BY <1>1 DEF Remembered, KlickedOverButton, Seen

\* A file keeps what it says of drawables that are still in place.
LEMMA FiledKept ==
    ASSUME Filed, UNCHANGED file, Never' \subseteq Never
    PROVE  Filed'
BY DEF Filed

\* addDrawable appends to the list and to its ids.
LEMMA AddDrawableStep ==
    ASSUME IInv, NEW d \in Drawables, addDrawable(d)
    PROVE  IInv'
<1>1. /\ undefined' = FALSE /\ d \notin Range(m_allDrawable)
      /\ m_allDrawable' = Append(m_allDrawable, d)
      /\ m_allDrawableIDs' = Append(m_allDrawableIDs, d)
      /\ late' = late \cup {d}
      /\ UNCHANGED <<device, camera, removed, unloaded, m_buttons,
                     m_buttonGameObjectIDs, cleared, container, held, leaked,
                     uncompiled, failed, input, file>>
    BY DEF addDrawable, Change, buttons, resources
<1>2. m_allDrawable \in Seq(Drawables) /\ m_allDrawableIDs \in Seq(Drawables)
    BY DEF IInv, Types
<1>3. /\ m_allDrawable' \in Seq(Drawables) /\ m_allDrawableIDs' \in Seq(Drawables)
      /\ Range(m_allDrawable') = Range(m_allDrawable) \cup {d}
      /\ Range(m_allDrawableIDs') = Range(m_allDrawableIDs) \cup {d}
      /\ \A a, b : Before(m_allDrawable', a, b) <=>
                       Before(m_allDrawable, a, b) \/ (a \in Range(m_allDrawable) /\ b = d)
      /\ \A a, b : Before(m_allDrawableIDs', a, b) <=>
                       Before(m_allDrawableIDs, a, b) \/ (a \in Range(m_allDrawableIDs) /\ b = d)
    BY <1>1, <1>2, Added
<1>4. UNCHANGED <<LButton, flags, mouse, klicked>>
    BY <1>1 DEF input
<1>5. Types'
    BY <1>1, <1>3, <1>4 DEF IInv, Types
<1>6. Never' = Never
    BY <1>1 DEF Never
<1>7. Shown'
    <2>1. /\ Range(m_allDrawable) \subseteq Range(m_allDrawableIDs)
          /\ Never \cap Range(m_allDrawableIDs) \subseteq Range(m_allDrawable)
          /\ \A a, b \in Never :
                 Before(m_allDrawableIDs, a, b) <=> Before(m_allDrawable, a, b)
          /\ \A a \in Never : ~Before(m_allDrawableIDs, a, a)
        BY DEF IInv, Shown
    <2>2. /\ Range(m_allDrawable') \subseteq Range(m_allDrawableIDs')
          /\ Never \cap Range(m_allDrawableIDs') \subseteq Range(m_allDrawable')
        BY <1>3, <2>1
    <2>3. \A a, b \in Never :
              Before(m_allDrawableIDs', a, b) <=> Before(m_allDrawable', a, b)
        BY <1>3, <2>1
    <2>4. \A a \in Never : ~Before(m_allDrawableIDs', a, a)
        BY <1>1, <1>3, <2>1
    <2> QED
        BY <1>6, <2>2, <2>3, <2>4 DEF Shown
<1>8. Filed'
    BY <1>1, <1>6, FiledKept DEF IInv
<1>9. InStep' /\ NothingLeaks' /\ Released'
    BY <1>1, <1>3 DEF IInv, InStep, NothingLeaks, Released
<1>10. Loaded'
    BY <1>1, <1>3 DEF IInv, Loaded, HasContent
<1>11. UndefinedOnlyByMisuse'
    BY <1>1 DEF UndefinedOnlyByMisuse
<1>12. Remembered' /\ KlickedOverButton'
    BY <1>1, InputKept DEF IInv
<1> QED
    BY <1>5, <1>7, <1>8, <1>9, <1>10, <1>11, <1>12 DEF IInv

\* remDrawable takes a drawable out of what is shown and leaves its id.
LEMMA RemDrawableStep ==
    ASSUME IInv, NEW d \in Drawables, remDrawable(d)
    PROVE  IInv'
<1>1. /\ undefined' = FALSE /\ d \in Range(m_allDrawable)
      /\ m_allDrawable' = RemoveFirst(m_allDrawable, d)
      /\ removed' = removed \cup {d}
      /\ UNCHANGED <<device, camera, m_allDrawableIDs, unloaded, m_buttons,
                     m_buttonGameObjectIDs, cleared, container, held, leaked,
                     late, uncompiled, failed, input, file>>
    BY DEF remDrawable, Change, buttons, resources, setup
<1>2. m_allDrawable \in Seq(Drawables)
    BY DEF IInv, Types
<1>3. /\ m_allDrawable' \in Seq(Drawables)
      /\ Range(m_allDrawable) = Range(m_allDrawable') \cup {d}
      /\ \A a, b : a # d /\ b # d =>
             (Before(m_allDrawable', a, b) <=> Before(m_allDrawable, a, b))
    BY <1>1, <1>2, Taken
<1>4. UNCHANGED <<LButton, flags, mouse, klicked>>
    BY <1>1 DEF input
<1>5. Types'
    BY <1>1, <1>3, <1>4 DEF IInv, Types
<1>6. Never' = Never \ {d}
    BY <1>1 DEF Never
<1>7. Shown'
    <2>1. /\ Range(m_allDrawable) \subseteq Range(m_allDrawableIDs)
          /\ Never \cap Range(m_allDrawableIDs) \subseteq Range(m_allDrawable)
          /\ \A a, b \in Never :
                 Before(m_allDrawableIDs, a, b) <=> Before(m_allDrawable, a, b)
          /\ \A a \in Never : ~Before(m_allDrawableIDs, a, a)
        BY DEF IInv, Shown
    <2>2. \A a, b \in Never \ {d} :
              Before(m_allDrawableIDs, a, b) <=> Before(m_allDrawable', a, b)
        BY <1>3, <2>1
    <2> QED
        BY <1>1, <1>3, <1>6, <2>1, <2>2 DEF Shown
<1>8. Filed'
    BY <1>1, <1>6, FiledKept DEF IInv
<1>9. InStep' /\ NothingLeaks' /\ Released'
    BY <1>1, <1>3 DEF IInv, InStep, NothingLeaks, Released
<1>10. Loaded'
    BY <1>1, <1>3 DEF IInv, Loaded, HasContent
<1>11. UndefinedOnlyByMisuse'
    BY <1>1 DEF UndefinedOnlyByMisuse
<1>12. Remembered' /\ KlickedOverButton'
    BY <1>1, InputKept DEF IInv
<1> QED
    BY <1>5, <1>7, <1>8, <1>9, <1>10, <1>11, <1>12 DEF IInv

\* addButton appends to the list and to its ids.
LEMMA AddButtonStep ==
    ASSUME IInv, NEW b \in Buttons, addButton(b)
    PROVE  IInv'
<1>1. /\ undefined' = FALSE
      /\ m_buttons' = Append(m_buttons, b)
      /\ m_buttonGameObjectIDs' = Append(m_buttonGameObjectIDs, b)
      /\ UNCHANGED <<device, camera, m_allDrawable, m_allDrawableIDs, removed, unloaded,
                     cleared, container, held, leaked, late, uncompiled, failed, input, file>>
    BY DEF addButton, Change, drawables, resources, setup
<1>2. m_buttons \in Seq(Buttons) /\ m_buttonGameObjectIDs \in Seq(Buttons)
    BY DEF IInv, Types
<1>3. /\ m_buttons' \in Seq(Buttons) /\ Len(m_buttons') = Len(m_buttons) + 1
      /\ m_buttonGameObjectIDs' \in Seq(Buttons)
      /\ Len(m_buttonGameObjectIDs') = Len(m_buttonGameObjectIDs) + 1
      /\ Len(m_buttons) \in Nat /\ Len(m_buttonGameObjectIDs) \in Nat
    BY <1>1, <1>2, Added
<1>4. UNCHANGED <<LButton, flags, mouse, klicked>>
    BY <1>1 DEF input
<1>5. Types'
    BY <1>1, <1>3, <1>4 DEF IInv, Types
<1>6. Never' = Never
    BY <1>1 DEF Never
<1>7. Shown'
    BY <1>1, <1>6 DEF IInv, Shown
<1>8. Filed'
    BY <1>1, <1>6, FiledKept DEF IInv
<1>9. InStep'
    BY <1>1, <1>3 DEF IInv, InStep
<1>10. NothingLeaks' /\ Released' /\ Loaded'
    BY <1>1 DEF IInv, NothingLeaks, Released, Loaded, HasContent
<1>11. UndefinedOnlyByMisuse'
    BY <1>1 DEF UndefinedOnlyByMisuse
<1>12. Remembered' /\ KlickedOverButton'
    BY <1>1, InputKept DEF IInv
<1> QED
    BY <1>5, <1>7, <1>8, <1>9, <1>10, <1>11, <1>12 DEF IInv

\* remButton takes one entry out of the list and of its ids, in step.
LEMMA RemButtonStep ==
    ASSUME IInv, NEW b \in Buttons, remButton(b)
    PROVE  IInv'
<1> DEFINE k == Place(m_buttons, b)
<1>1. /\ undefined' = FALSE /\ b \in Range(m_buttons)
      /\ m_buttons' = RemoveFirst(m_buttons, b)
      /\ UNCHANGED <<device, camera, m_allDrawable, m_allDrawableIDs, removed, unloaded,
                     cleared, container, held, leaked, late, uncompiled, failed, input, file>>
    BY DEF remButton, RemoveButton, Change, drawables, resources, setup
<1>2. m_buttonGameObjectIDs' = RemoveAt(m_buttonGameObjectIDs, k)
    BY DEF remButton, RemoveButton, Place
<1>3. /\ m_buttons \in Seq(Buttons) /\ m_buttonGameObjectIDs \in Seq(Buttons)
      /\ Len(m_buttons) \in Nat /\ Len(m_buttonGameObjectIDs) \in Nat
      /\ Len(m_buttons) <= Len(m_buttonGameObjectIDs)
    BY DEF IInv, Types, InStep
<1>4. k \in 1 .. Len(m_buttons) /\ m_buttons' = RemoveAt(m_buttons, k)
    BY <1>1, <1>3, FirstFound
<1> HIDE DEF k
<1>5. k \in 1 .. Len(m_buttonGameObjectIDs)
    BY <1>3, <1>4
<1>6. /\ m_buttons' \in Seq(Buttons) /\ Len(m_buttons') = Len(m_buttons) - 1
      /\ m_buttonGameObjectIDs' \in Seq(Buttons)
      /\ Len(m_buttonGameObjectIDs') = Len(m_buttonGameObjectIDs) - 1
    BY <1>2, <1>3, <1>4, <1>5, Removed
<1>7. UNCHANGED <<LButton, flags, mouse, klicked>>
    BY <1>1 DEF input
<1>8. Types'
    BY <1>1, <1>6, <1>7 DEF IInv, Types
<1>9. Never' = Never
    BY <1>1 DEF Never
<1>10. Shown'
    BY <1>1, <1>9 DEF IInv, Shown
<1>11. Filed'
    BY <1>1, <1>9, FiledKept DEF IInv
<1>12. InStep'
    BY <1>1, <1>2, <1>3, <1>4, <1>6 DEF IInv, InStep
<1>13. NothingLeaks' /\ Released' /\ Loaded'
    BY <1>1 DEF IInv, NothingLeaks, Released, Loaded, HasContent
<1>14. UndefinedOnlyByMisuse'
    BY <1>1 DEF UndefinedOnlyByMisuse
<1>15. Remembered' /\ KlickedOverButton'
    BY <1>1, InputKept DEF IInv
<1> QED
    BY <1>8, <1>10, <1>11, <1>12, <1>13, <1>14, <1>15 DEF IInv

\* setKamera changes what may be drawn only for the better.
LEMMA KameraStep ==
    ASSUME IInv, setKamera
    PROVE  IInv'
<1>1. /\ undefined' = FALSE /\ camera' = TRUE
      /\ UNCHANGED <<device, m_allDrawable, m_allDrawableIDs, removed, unloaded,
                     m_buttons, m_buttonGameObjectIDs, cleared, container, held, leaked,
                     late, uncompiled, failed, input, file>>
    BY DEF setKamera, Change, drawables, buttons, resources, setup
<1>2. UNCHANGED <<LButton, flags, mouse, klicked>>
    BY <1>1 DEF input
<1>3. Types'
    BY <1>1, <1>2 DEF IInv, Types
<1>4. Never' = Never
    BY <1>1 DEF Never
<1>5. Shown' /\ InStep'
    BY <1>1, <1>4 DEF IInv, Shown, InStep
<1>6. Filed'
    BY <1>1, <1>4, FiledKept DEF IInv
<1>7. NothingLeaks' /\ Released' /\ Loaded'
    BY <1>1 DEF IInv, NothingLeaks, Released, Loaded, HasContent
<1>8. UndefinedOnlyByMisuse'
    BY <1>1 DEF UndefinedOnlyByMisuse
<1>9. Remembered' /\ KlickedOverButton'
    BY <1>1, InputKept DEF IInv
<1> QED
    BY <1>3, <1>5, <1>6, <1>7, <1>8, <1>9 DEF IInv

\* serialize writes the ids of what is listed.
LEMMA SaveStep ==
    ASSUME IInv, save
    PROVE  IInv'
<1>1. /\ undefined' = FALSE /\ file' = Serialized
      /\ UNCHANGED <<device, camera, m_allDrawable, m_allDrawableIDs, removed, unloaded,
                     m_buttons, m_buttonGameObjectIDs, cleared, container, held, leaked,
                     late, uncompiled, failed, input>>
    BY DEF save, Change, drawables, buttons, resources, setup
<1>2. UNCHANGED <<LButton, flags, mouse, klicked>>
    BY <1>1 DEF input
<1>3. Types'
    BY <1>1, <1>2 DEF IInv, Types
<1>4. Never' = Never
    BY <1>1 DEF Never
<1>5. Shown' /\ InStep'
    BY <1>1, <1>4 DEF IInv, Shown, InStep
<1>6. Filed'
    <2> DEFINE scene == Read(Serialized)
    <2>1. /\ scene.ok /\ scene.drawables = m_allDrawableIDs
          /\ scene.buttons = [n \in 1 .. Len(m_buttons) |-> m_buttonGameObjectIDs[n]]
        BY ReadBack DEF IInv, InStep
    <2>2. scene.drawables \in Seq(Drawables) /\ \A d \in Never : ~Before(scene.drawables, d, d)
        BY <2>1 DEF IInv, Types, Shown
    <2>3. scene.buttons \in Seq(Buttons)
        <3>1. \A n \in 1 .. Len(m_buttons) : m_buttonGameObjectIDs[n] \in Buttons
            BY ElementOfSeq DEF IInv, Types, InStep
        <3>2. Len(m_buttons) \in Nat
            BY DEF IInv, Types
        <3> HIDE DEF scene
        <3> QED
            BY <2>1, <3>1, <3>2
    <2>4. file' = Serialized
        BY <1>1
    <2> QED
        BY <1>4, <2>1, <2>2, <2>3, <2>4 DEF Filed
<1>7. NothingLeaks' /\ Released' /\ Loaded'
    BY <1>1 DEF IInv, NothingLeaks, Released, Loaded, HasContent
<1>8. UndefinedOnlyByMisuse'
    BY <1>1 DEF UndefinedOnlyByMisuse
<1>9. Remembered' /\ KlickedOverButton'
    BY <1>1, InputKept DEF IInv
<1> QED
    BY <1>3, <1>5, <1>6, <1>7, <1>8, <1>9 DEF IInv

\* The drawables that a loop over the list has reached
LEMMA Prefix ==
    ASSUME NEW S, NEW s \in Seq(S), NEW k \in Int, k <= Len(s)
    PROVE  /\ SubSeq(s, 1, k) \in Seq(S) /\ Range(SubSeq(s, 1, k)) \subseteq Range(s)
           /\ \A d, e : Before(SubSeq(s, 1, k), d, e) => Before(s, d, e)
           /\ k = Len(s) => SubSeq(s, 1, k) = s
<1> DEFINE t == SubSeq(s, 1, k)
           m == IF 1 <= k THEN k ELSE 0
<1>1. /\ t \in Seq(S) /\ Len(t) = IF 1 <= k THEN k - 1 + 1 ELSE 0
      /\ \A i \in 1 .. k - 1 + 1 : t[i] = s[1 + i - 1]
    <2>1. \A i \in 1 .. k : s[i] \in S
        BY ElementOfSeq
    <2>2. 1 \in Int
        OBVIOUS
    <2> QED
        BY <2>1, <2>2, SubSeqProperties
<1> HIDE DEF t
<1>2. Len(s) \in Nat /\ DOMAIN s = 1 .. Len(s)
    BY LenProperties
<1>3. m \in Nat /\ Len(t) = m /\ m <= Len(s)
    BY <1>1, <1>2
<1>4. \A i \in 1 .. m : t[i] = s[i]
    BY <1>1
<1>5. DOMAIN t = 1 .. m
    BY <1>1, <1>3, LenProperties
<1> HIDE DEF m
<1>6. Range(t) \subseteq Range(s)
    BY <1>2, <1>3, <1>4, <1>5 DEF Range
<1>7. ASSUME NEW d, NEW e, Before(t, d, e) PROVE Before(s, d, e)
    <2>1. PICK i \in 1 .. m, j \in 1 .. m : i < j /\ t[i] = d /\ t[j] = e
        BY <1>5, <1>7 DEF Before
    <2>2. i \in 1 .. Len(s) /\ j \in 1 .. Len(s) /\ s[i] = d /\ s[j] = e
        BY <1>2, <1>3, <1>4, <2>1
    <2> QED
        BY <1>2, <2>1, <2>2 DEF Before
<1>8. ASSUME k = Len(s) PROVE t = s
    <2>1. m = Len(s)
        BY <1>2, <1>8 DEF m
    <2> QED
        BY <1>1, <1>3, <1>4, <2>1, SeqEqual
<1> QED
    BY <1>1, <1>6, <1>7, <1>8 DEF t

\* Initialize loads the drawables up to the one that fails.
LEMMA InitializeStep ==
    ASSUME IInv, NEW done \in 0 .. 2 * Len(m_allDrawable), NEW bad \in SUBSET Paths,
           Initialize(done, bad)
    PROVE  IInv'
<1> DEFINE size == Len(m_allDrawable)
           seen == SubSeq(m_allDrawable, 1, IF done < size THEN done ELSE size)
           filled == SubSeq(m_allDrawable, 1, done - size)
           compiled == addShaderByPath(seen, bad)
<1>1. /\ undefined' = FALSE /\ device # "live" /\ device' = "live" /\ late' = {}
      /\ UNCHANGED <<camera, m_allDrawable, m_allDrawableIDs, removed, unloaded,
                     m_buttons, m_buttonGameObjectIDs, cleared, input, file>>
    BY DEF Initialize, Change, drawables, buttons
<1>2. /\ registerShader(seen, bad) /\ loadAll(filled)
      /\ failed' = (done < 2 * size)
    BY DEF Initialize, LoadContent
<1>3. /\ container' = [d \in Drawables |->
              IF d \notin Range(seen) THEN container[d]
              ELSE IF PathOf[d] \in compiled THEN "valid" ELSE "null"]
      /\ uncompiled' = {d \in Range(seen) : PathOf[d] \notin compiled}
    BY <1>2 DEF registerShader
<1>4. /\ held' = held \cup Range(filled)
      /\ leaked' = leaked \cup {d \in Range(filled) : d \in held \/ Times(filled, d) > 1}
    BY <1>2 DEF loadAll
<1>5. size \in Nat /\ m_allDrawable \in Seq(Drawables)
    BY DEF IInv, Types
<1>6. Range(m_allDrawable) \subseteq Drawables
    BY <1>5, LenProperties, ElementOfSeq DEF Range
<1> HIDE DEF size, compiled
<1>7. /\ filled \in Seq(Drawables) /\ Range(filled) \subseteq Range(m_allDrawable)
      /\ \A d, e : Before(filled, d, e) => Before(m_allDrawable, d, e)
      /\ done - size = size => filled = m_allDrawable
    <2>1. done - size \in Int /\ done - size <= Len(m_allDrawable)
        BY <1>5 DEF size
    <2> QED
        BY <1>5, <2>1, Prefix DEF size
<1>8. ~(done < size) => seen = m_allDrawable
    BY <1>5, Prefix DEF size
<1> HIDE DEF seen, filled
<1>9. UNCHANGED <<LButton, flags, mouse, klicked>>
    BY <1>1 DEF input
<1>10. Types'
    <2>1. held' \subseteq Drawables /\ failed' \in BOOLEAN
        BY <1>2, <1>4, <1>6, <1>7 DEF IInv, Types
    <2> QED
        BY <1>1, <1>9, <2>1 DEF IInv, Types
<1>11. Never' = Never
    BY <1>1 DEF Never
<1>12. Shown' /\ InStep'
    BY <1>1, <1>11 DEF IInv, Shown, InStep
<1>13. Filed'
    BY <1>1, <1>11, FiledKept DEF IInv
<1>14. NothingLeaks'
    <2>1. held' \subseteq removed \cup Range(m_allDrawable)
        BY <1>4, <1>7 DEF IInv, NothingLeaks
    <2>2. ASSUME NEW d \in Range(filled), d \in held \/ Times(filled, d) > 1
          PROVE  d \in removed \cup unloaded
        <3>1. CASE d \in held
            BY <1>1, <3>1 DEF IInv, Released
        <3>2. CASE Times(filled, d) > 1
            <4>1. Before(m_allDrawable, d, d) /\ d \in Drawables
                BY <1>6, <1>7, <3>2, TimesFound
            <4> QED
                BY <4>1 DEF IInv, Shown, Never
        <3> QED
            BY <2>2, <3>1, <3>2
    <2>3. leaked' \subseteq removed \cup unloaded
        BY <1>4, <2>2 DEF IInv, NothingLeaks
    <2> QED
        BY <1>1, <2>1, <2>3 DEF NothingLeaks
<1>15. Released'
    BY <1>1 DEF Released
<1>16. Loaded'
    <2> SUFFICES ASSUME ~failed', NEW d \in Range(m_allDrawable) \ uncompiled'
                 PROVE  HasContent(d)'
        BY <1>1 DEF Loaded
    <2>1. ~(done < size) /\ done - size = size
        <3>1. ~(done < 2 * size)
            BY <1>2, Zenon
        <3>2. done \in 0 .. 2 * size
            BY DEF size
        <3> QED
            BY <1>5, <3>1, <3>2
    <2>2. seen = m_allDrawable /\ filled = m_allDrawable
        BY <1>7, <1>8, <2>1
    <2>3. PathOf[d] \in compiled /\ d \in Range(seen) /\ d \in Drawables
        BY <1>3, <1>6, <2>2
    <2>4. container'[d] = "valid" /\ d \in held'
        BY <1>3, <1>4, <2>2, <2>3
    <2> QED
        BY <2>4 DEF HasContent
<1>17. UndefinedOnlyByMisuse'
    BY <1>1 DEF UndefinedOnlyByMisuse
<1>18. Remembered' /\ KlickedOverButton'
    BY <1>1, InputKept DEF IInv
<1> QED
    BY <1>10, <1>12, <1>13, <1>14, <1>15, <1>16, <1>17, <1>18 DEF IInv

\* Without a device nothing is loaded.
LEMMA InitializeFailsStep ==
    ASSUME IInv, InitializeFails
    PROVE  IInv'
<1>1. /\ undefined' = FALSE /\ device # "live" /\ device' = "null" /\ failed' = TRUE
      /\ UNCHANGED <<camera, m_allDrawable, m_allDrawableIDs, removed, unloaded,
                     m_buttons, m_buttonGameObjectIDs, cleared, held, leaked, input, file>>
    BY DEF InitializeFails, Change, drawables, buttons, resources
<1>2. UNCHANGED <<LButton, flags, mouse, klicked>>
    BY <1>1 DEF input
<1>3. Types'
    BY <1>1, <1>2 DEF IInv, Types
<1>4. Never' = Never
    BY <1>1 DEF Never
<1>5. Shown' /\ InStep'
    BY <1>1, <1>4 DEF IInv, Shown, InStep
<1>6. Filed'
    BY <1>1, <1>4, FiledKept DEF IInv
<1>7. NothingLeaks' /\ Released' /\ Loaded'
    BY <1>1 DEF IInv, NothingLeaks, Released, Loaded
<1>8. UndefinedOnlyByMisuse'
    BY <1>1 DEF UndefinedOnlyByMisuse
<1>9. Remembered' /\ KlickedOverButton'
    BY <1>1, InputKept DEF IInv
<1> QED
    BY <1>3, <1>5, <1>6, <1>7, <1>8, <1>9 DEF IInv

\* UnloadContent takes every drawable out, and with it what it holds.
LEMMA UnloadedAll ==
    ASSUME IInv, UnloadContent
    PROVE  /\ m_allDrawable' = <<>>
           /\ Shown' /\ NothingLeaks' /\ held' \subseteq removed'
           /\ Never' \subseteq Never /\ held' \subseteq Drawables
           /\ UNCHANGED <<m_allDrawableIDs, removed>>
<1>1. /\ held' = held \ Range(m_allDrawable) /\ m_allDrawable' = <<>>
      /\ unloaded' = unloaded \cup Range(m_allDrawable)
      /\ UNCHANGED <<m_allDrawableIDs, removed, leaked>>
    BY DEF UnloadContent, Unload, unload
<1>2. /\ held \subseteq removed \cup Range(m_allDrawable) /\ leaked \subseteq removed \cup unloaded
      /\ held \subseteq Drawables
    BY DEF IInv, NothingLeaks, Types
<1>3. Never' = Never \ Range(m_allDrawable)
    BY <1>1 DEF Never
<1>4. Never' \cap Range(m_allDrawableIDs) = {}
    BY <1>3 DEF IInv, Shown
<1>5. \A d, e : /\ ~Before(<<>>, d, e)
                /\ Before(m_allDrawableIDs, d, e) => d \in Range(m_allDrawableIDs)
    BY DEF Before, Range
<1>6. Range(<<>>) = {}
    BY DEF Range
<1>7. Shown'
    BY <1>1, <1>4, <1>5, <1>6 DEF Shown
<1>8. NothingLeaks' /\ held' \subseteq removed' /\ held' \subseteq Drawables
    BY <1>1, <1>2 DEF NothingLeaks
<1> QED
    BY <1>1, <1>3, <1>7, <1>8

\* Terminate unloads the content, and needs to have been initialized.
LEMMA TerminateStep ==
    ASSUME IInv, Terminate
    PROVE  IInv'
<1>1. CASE device = "unset"
    <2>1. /\ undefined' = TRUE
          /\ UNCHANGED <<device, camera, m_allDrawable, m_allDrawableIDs, removed, unloaded,
                         m_buttons, m_buttonGameObjectIDs, cleared, container, held, leaked,
                         late, uncompiled, failed, input, file>>
        BY <1>1 DEF Terminate, GoesUndefined, drawables, buttons, resources, setup
    <2>2. UNCHANGED <<LButton, flags, mouse, klicked>>
        BY <2>1 DEF input
    <2>3. Types'
        BY <2>1, <2>2 DEF IInv, Types
    <2>4. Never' = Never
        BY <2>1 DEF Never
    <2>5. Shown' /\ InStep'
        BY <2>1, <2>4 DEF IInv, Shown, InStep
    <2>6. Filed'
        BY <2>1, <2>4, FiledKept DEF IInv
    <2>7. NothingLeaks' /\ Released' /\ Loaded'
        BY <1>1, <2>1 DEF IInv, NothingLeaks, Released, Loaded
    <2>8. UndefinedOnlyByMisuse'
        BY <1>1, <2>1 DEF UndefinedOnlyByMisuse
    <2>9. Remembered' /\ KlickedOverButton'
        BY <2>1, InputKept DEF IInv
    <2> QED
        BY <2>3, <2>5, <2>6, <2>7, <2>8, <2>9 DEF IInv
<1>2. CASE device # "unset"
    <2>1. /\ undefined' = FALSE /\ UnloadContent /\ device' = "null"
          /\ UNCHANGED <<camera, m_buttons, m_buttonGameObjectIDs, cleared, failed,
                         input, file>>
        BY <1>2 DEF Terminate, Change, buttons, setup
    <2>2. UNCHANGED <<LButton, flags, mouse, klicked>>
        BY <2>1 DEF input
    <2>3. /\ m_allDrawable' = <<>> /\ Shown' /\ NothingLeaks' /\ held' \subseteq removed'
          /\ Never' \subseteq Never /\ held' \subseteq Drawables
          /\ UNCHANGED <<m_allDrawableIDs, removed>>
        BY <2>1, UnloadedAll
    <2>9. m_allDrawable' \in Seq(Drawables)
        BY <2>3
    <2>4. Types'
        BY <2>1, <2>2, <2>3, <2>9 DEF IInv, Types
    <2>5. Filed'
        BY <2>1, <2>3, FiledKept DEF IInv
    <2>6. InStep' /\ Released' /\ Loaded'
        BY <2>1, <2>3 DEF IInv, InStep, Released, Loaded
    <2>7. UndefinedOnlyByMisuse'
        BY <2>1 DEF UndefinedOnlyByMisuse
    <2>8. Remembered' /\ KlickedOverButton'
        BY <2>1, InputKept DEF IInv
    <2> QED
        BY <2>3, <2>4, <2>5, <2>6, <2>7, <2>8 DEF IInv
<1> QED
    BY <1>1, <1>2

\* clear unloads the content and empties the buttons, but not their ids.
LEMMA ClearStep ==
    ASSUME IInv, clear
    PROVE  IInv'
<1>1. /\ undefined' = FALSE /\ UnloadContent /\ m_buttons' = <<>> /\ cleared' = TRUE
      /\ UNCHANGED <<device, camera, m_buttonGameObjectIDs, failed, input, file>>
    BY DEF clear, Change, setup
<1>2. UNCHANGED <<LButton, flags, mouse, klicked>>
    BY <1>1 DEF input
<1>3. /\ m_allDrawable' = <<>> /\ Shown' /\ NothingLeaks' /\ held' \subseteq removed'
      /\ Never' \subseteq Never /\ held' \subseteq Drawables
      /\ UNCHANGED <<m_allDrawableIDs, removed>>
    BY <1>1, UnloadedAll
<1>11. m_allDrawable' \in Seq(Drawables) /\ m_buttons' \in Seq(Buttons)
    BY <1>1, <1>3
<1>4. Types'
    BY <1>1, <1>2, <1>3, <1>11 DEF IInv, Types
<1>5. Filed'
    BY <1>1, <1>3, FiledKept DEF IInv
<1>6. InStep'
    BY <1>1 DEF IInv, InStep, Types
<1>7. Released'
    BY <1>3 DEF Released
<1>8. Loaded'
    <2>1. Range(m_allDrawable') = {}
        BY <1>3 DEF Range
    <2> QED
        BY <2>1 DEF Loaded
<1>9. UndefinedOnlyByMisuse'
    BY <1>1 DEF UndefinedOnlyByMisuse
<1>10. Remembered' /\ KlickedOverButton'
    BY <1>1, InputKept DEF IInv
<1> QED
    BY <1>3, <1>4, <1>5, <1>6, <1>7, <1>8, <1>9, <1>10 DEF IInv

\* Render changes nothing that is listed.
LEMMA RenderStep ==
    ASSUME IInv, Render
    PROVE  IInv'
<1>1. UNCHANGED <<device, camera, noTransform, m_allDrawable, m_allDrawableIDs, removed,
                  unloaded, m_buttons, m_buttonGameObjectIDs, cleared, container, held,
                  leaked, late, uncompiled, failed, input, file>>
    BY DEF Render, drawables, buttons, resources, setup
<1>2. undefined' = \/ device = "unset"
                   \/ /\ device = "live"
                      /\ \E d \in Range(m_allDrawable) : ~(Projects /\ Ready(d))
    BY DEF Render
<1>3. UNCHANGED <<LButton, flags, mouse, klicked>>
    BY <1>1 DEF input
<1>4. undefined' \in BOOLEAN
    BY <1>2
<1>5. Types'
    BY <1>1, <1>3, <1>4 DEF IInv, Types
<1>6. Never' = Never
    BY <1>1 DEF Never
<1>7. Shown' /\ InStep'
    BY <1>1, <1>6 DEF IInv, Shown, InStep
<1>8. Filed'
    BY <1>1, <1>6, FiledKept DEF IInv
<1>9. NothingLeaks' /\ Released' /\ Loaded'
    BY <1>1 DEF IInv, NothingLeaks, Released, Loaded, HasContent
<1>10. UndefinedOnlyByMisuse'
    <2> SUFFICES ASSUME undefined', device # "unset", camera, ~failed, ~FromFile,
                        Range(m_allDrawable) \cap (late \cup uncompiled) = {}
                 PROVE  FALSE
        BY <1>1 DEF UndefinedOnlyByMisuse, FromFile
    <2>1. /\ device = "live"
          /\ \E d \in Range(m_allDrawable) : ~(Projects /\ Ready(d))
        BY <1>2, Zenon
    <2>2. PICK d \in Range(m_allDrawable) : ~HasContent(d)
        BY <2>1 DEF Projects, Ready, HasContent, FromFile
    <2>3. d \in Range(m_allDrawable) \ (late \cup uncompiled)
        BY <2>2
    <2> QED
        BY <2>1, <2>2, <2>3 DEF IInv, Loaded
<1>11. Remembered' /\ KlickedOverButton'
    BY <1>1, InputKept DEF IInv
<1> QED
    BY <1>5, <1>7, <1>8, <1>9, <1>10, <1>11 DEF IInv

\* set puts what serialize wrote into every list.
LEMMA LoadStep ==
    ASSUME IInv, load
    PROVE  IInv'
<1> DEFINE scene == Read(file)
<1>1. device # "live" /\ file # NoFile /\ undefined = FALSE
    BY DEF load, Change, IInv, Types
<1>2. /\ scene.ok /\ scene.drawables \in Seq(Drawables) /\ scene.buttons \in Seq(Buttons)
      /\ \A d \in Never : ~Before(scene.drawables, d, d)
    BY <1>1 DEF IInv, Filed
<1>3. CASE ~(scene.ok /\ scene.camera)
    <2>1. /\ undefined' = TRUE
          /\ UNCHANGED <<device, camera, m_allDrawable, m_allDrawableIDs, removed, unloaded,
                         m_buttons, m_buttonGameObjectIDs, cleared, container, held, leaked,
                         late, uncompiled, failed, input, file>>
        BY <1>3 DEF load, GoesUndefined, drawables, buttons, resources, setup
    <2>2. UNCHANGED <<LButton, flags, mouse, klicked>>
        BY <2>1 DEF input
    <2>3. Types'
        BY <2>1, <2>2 DEF IInv, Types
    <2>4. Never' = Never
        BY <2>1 DEF Never
    <2>5. Shown' /\ InStep'
        BY <2>1, <2>4 DEF IInv, Shown, InStep
    <2>6. Filed'
        BY <2>1, <2>4, FiledKept DEF IInv
    <2>7. NothingLeaks' /\ Released' /\ Loaded'
        BY <1>1, <2>1 DEF IInv, NothingLeaks, Released, Loaded
    <2>8. UndefinedOnlyByMisuse'
        BY <1>1, <1>2, <1>3, <2>1 DEF UndefinedOnlyByMisuse
    <2>9. Remembered' /\ KlickedOverButton'
        BY <2>1, InputKept DEF IInv
    <2> QED
        BY <2>3, <2>5, <2>6, <2>7, <2>8, <2>9 DEF IInv
<1>4. CASE scene.ok /\ scene.camera
    <2>1. /\ device' = "unset" /\ camera' = TRUE
          /\ m_allDrawable' = scene.drawables /\ m_allDrawableIDs' = scene.drawables
          /\ m_buttons' = scene.buttons /\ m_buttonGameObjectIDs' = scene.buttons
          /\ held' = {} /\ flags' \in [Watched -> Flags] /\ unseen' = Watched
          /\ late' = {} /\ uncompiled' = {} /\ failed' = FALSE /\ LButton' = FALSE
          /\ klicked' = {} /\ mouse' = [b \in Watched |-> {}]
          /\ UNCHANGED <<removed, unloaded, leaked, file, undefined>>
        BY <1>4 DEF load
    <2> HIDE DEF scene
    <2>2. /\ device' \in {"unset", "live", "null"} /\ camera' \in BOOLEAN
          /\ undefined' \in BOOLEAN /\ failed' \in BOOLEAN /\ LButton' \in BOOLEAN
          /\ m_allDrawable' \in Seq(Drawables) /\ m_allDrawableIDs' \in Seq(Drawables)
          /\ m_buttons' \in Seq(Buttons) /\ m_buttonGameObjectIDs' \in Seq(Buttons)
          /\ held' \subseteq Drawables /\ klicked' \subseteq Watched
        BY <1>1, <1>2, <2>1
    <2>3. mouse' \in [Watched -> SUBSET Events]
        BY <2>1
    <2>4. Types'
        BY <2>1, <2>2, <2>3 DEF Types
    <2>5. Never' = Never
        BY <2>1 DEF Never
    <2>6. Shown'
        BY <1>2, <2>1, <2>5 DEF Shown
    <2>7. InStep'
        <3>1. Len(m_buttons') \in Nat /\ m_buttons' = m_buttonGameObjectIDs'
            BY <2>1, <2>2
        <3> QED
            BY <3>1 DEF InStep
    <2>8. Filed'
        BY <2>1, <2>5, FiledKept DEF IInv
    <2>9. NothingLeaks' /\ Released' /\ Loaded'
        BY <2>1 DEF IInv, NothingLeaks, Released, Loaded
    <2>10. UndefinedOnlyByMisuse'
        BY <1>1, <2>1 DEF UndefinedOnlyByMisuse
    <2>11. Remembered' /\ KlickedOverButton'
        BY <2>1 DEF Remembered, KlickedOverButton
    <2> QED
        BY <2>4, <2>6, <2>7, <2>8, <2>9, <2>10, <2>11 DEF IInv
<1> QED
    BY <1>3, <1>4

\* checkKlicked keeps the flags of a button Boolean.
LEMMA CheckedFlags ==
    ASSUME NEW f \in Flags, NEW over, NEW down, NEW up
    PROVE  checkKlicked(f, over, down, up).flags \in Flags
<1>1. /\ Forgotten \in Flags
      /\ [f EXCEPT !.down = TRUE] \in Flags /\ [f EXCEPT !.up = TRUE] \in Flags
    BY DEF Flags, Forgotten
<1>2. \A g, k : Answer(g, k).flags = g
    BY DEF Answer
<1> QED
    BY <1>1, <1>2 DEF checkKlicked

\* So does asking a button once for each of its entries.
LEMMA AskedFlags ==
    ASSUME NEW b, flags[b] \in Flags, NEW over, NEW down, NEW up
    PROVE  Asked(b, over, down, up).flags \in Flags
<1> DEFINE once == checkKlicked(flags[b], over, down, up)
           again == checkKlicked(once.flags, over, down, up)
<1>1. once.flags \in Flags
    BY CheckedFlags
<1> HIDE DEF once
<1>2. again.flags \in Flags
    BY <1>1, CheckedFlags
<1>3. \A g, k : Answer(g, k) = [flags |-> g, klicked |-> k]
    BY DEF Answer
<1>4. \E g, k : again = Answer(g, k)
    BY DEF checkKlicked
<1> HIDE DEF again
<1>5. [again EXCEPT !.klicked = @ \/ once.klicked].flags = again.flags
    BY <1>3, <1>4
<1> QED
    BY <1>1, <1>2, <1>5 DEF Asked, once, again

\* A button that is listed once is asked once.
LEMMA AskedOnce ==
    ASSUME IInv, NEW b \in Range(m_buttons), ~(Times(m_buttons, b) > 1),
           NEW over, NEW down, NEW up
    PROVE  Asked(b, over, down, up) = checkKlicked(flags[b], over, down, up)
<1>1. Times(m_buttons, b) \in Nat /\ Times(m_buttons, b) > 0
    BY TimesFound DEF IInv, Types
<1>2. Times(m_buttons, b) = 1
    BY <1>1
<1> QED
    BY <1>2 DEF Asked

\* A turn changes flags only by what the mouse did.
LEMMA TurnStep ==
    ASSUME IInv, NEW over \in SUBSET Watched, NEW pressed \in BOOLEAN, turn(over, pressed)
    PROVE  IInv'
<1> DEFINE down == pressed /\ ~LButton
           up == ~pressed /\ LButton
           told == ~(dragFirst /\ pressed /\ LButton)
           asked(b) == told /\ b \in Range(m_buttons)
           answer(b) == IF asked(b) THEN Asked(b, b \in over, down, up)
                        ELSE Answer(flags[b], FALSE)
           event == IF down THEN {"press"} ELSE IF up THEN {"release"} ELSE {}
<1>1. /\ ~undefined /\ LButton' = pressed
      /\ undefined' = /\ told /\ m_buttons # <<>>
                      /\ \/ ~(Projects /\ device = "live")
                         \/ Range(m_buttons) \cap noTransform.buttons # {}
      /\ flags' = [b \in Watched |-> answer(b).flags]
      /\ klicked' = {b \in Watched : answer(b).klicked}
      /\ mouse' = [b \in Watched |->
             IF b \notin over THEN {} ELSE event \cup Seen(b)]
      /\ unseen' = {b \in Watched :
             \/ b \notin over /\ ~asked(b)
             \/ b \in over /\ b \in unseen /\ flags[b] # Forgotten
             \/ Times(m_buttons, b) > 1}
    BY DEF turn, Seen
<1>2. UNCHANGED <<device, camera, noTransform, m_allDrawable, m_allDrawableIDs, removed, unloaded,
                  m_buttons, m_buttonGameObjectIDs, cleared, container, held, leaked,
                  late, uncompiled, failed, file>>
    BY DEF turn, drawables, buttons, resources, setup
<1>3. Types
    BY DEF IInv
<1> HIDE DEF told, answer, event, down, up
<1>4. Never' = Never
    BY <1>2 DEF Never
<1>5. Shown' /\ InStep'
    BY <1>2, <1>4 DEF IInv, Shown, InStep
<1>6. Filed'
    BY <1>2, <1>4, FiledKept DEF IInv
<1>7. NothingLeaks' /\ Released' /\ Loaded'
    BY <1>2 DEF IInv, NothingLeaks, Released, Loaded, HasContent
<1>8. UndefinedOnlyByMisuse'
    <2>1. undefined' => /\ m_buttons # <<>>
                        /\ ~(camera /\ device = "live") \/ FromFile
        BY <1>1 DEF Projects, FromFile
    <2>2. FromFile' = FromFile
        BY <1>2 DEF FromFile
    <2> QED
        BY <1>2, <1>3, <2>1, <2>2, Zenon DEF UndefinedOnlyByMisuse, Types
<1>9. \A b \in Watched :
          /\ flags'[b] = answer(b).flags
          /\ b \in klicked' <=> answer(b).klicked
          /\ mouse'[b] = IF b \notin over THEN {} ELSE event \cup Seen(b)
    BY <1>1
<1>10. Types'
    <2>1. \A b \in Watched : flags[b] \in Flags
        BY <1>3 DEF Types
    <2>2. \A b \in Watched : answer(b).flags \in Flags
        BY <2>1, AskedFlags DEF answer, Answer
    <2>3. flags' \in [Watched -> Flags]
        BY <1>1, <2>2
    <2>4. event \subseteq Events
        BY DEF event, Events
    <2>5. \A b \in Watched : Seen(b) \subseteq Events
        BY <1>3 DEF Types, Seen
    <2>6. mouse' \in [Watched -> SUBSET Events]
        BY <1>1, <2>4, <2>5
    <2>7. undefined' \in BOOLEAN /\ LButton' \in BOOLEAN /\ klicked' \subseteq Watched
        BY <1>1
    <2> QED
        BY <1>2, <1>3, <2>3, <2>6, <2>7 DEF Types
\* What the flags of a button that is asked at most once say of the mouse
<1>11. ASSUME NEW b \in Watched, b \notin unseen'
       PROVE  /\ answer(b).klicked => mouse'[b] = Events
              /\ answer(b).flags.down => "press" \in mouse'[b] /\ ~answer(b).klicked
              /\ answer(b).flags.up => "release" \in mouse'[b] /\ ~answer(b).klicked
    <2> DEFINE f == flags[b]
    <2>1. /\ b \in over \/ asked(b)
          /\ b \in over => b \notin unseen \/ f = Forgotten
          /\ ~(Times(m_buttons, b) > 1)
        BY <1>1, <1>11
    <2>2. f \in Flags /\ Seen(b) \subseteq Events
        BY <1>3 DEF Types, Seen
    <2>3. f = [up |-> f.up, down |-> f.down] /\ f.up \in BOOLEAN /\ f.down \in BOOLEAN
        BY <2>2 DEF Flags
    <2>4. b \in over => /\ f.down => "press" \in Seen(b)
                        /\ f.up => "release" \in Seen(b)
        BY <2>1 DEF IInv, Remembered, Forgotten
    <2>5. \A g : /\ Answer(g, FALSE).flags = g /\ Answer(g, FALSE).klicked = FALSE
                /\ Answer(g, TRUE).flags = g
        BY DEF Answer
    <2>6. ~Forgotten.up /\ ~Forgotten.down
        BY DEF Forgotten
    <2>7. b \in over => mouse'[b] = event \cup Seen(b)
        BY <1>9
    <2>8. CASE ~asked(b)
        <3>1. answer(b).flags = f /\ answer(b).klicked = FALSE
            BY <2>5, <2>8 DEF answer
        <3> QED
            BY <2>1, <2>4, <2>7, <2>8, <3>1
    <2>9. CASE asked(b)
        <3>1. answer(b) = checkKlicked(f, b \in over, down, up)
            BY <2>1, <2>9, AskedOnce DEF answer
        <3>2. CASE b \notin over
            <4>1. answer(b) = Answer(Forgotten, FALSE)
                BY <3>1, <3>2 DEF checkKlicked
            <4>2. answer(b).flags = Forgotten /\ answer(b).klicked = FALSE
                BY <2>5, <4>1
            <4> QED
                BY <2>6, <4>2
        <3>3. CASE b \in over /\ down
            <4>1. "press" \in mouse'[b] /\ Seen(b) \subseteq mouse'[b]
                BY <2>7, <3>3 DEF event
            <4>2. mouse'[b] \subseteq Events
                BY <1>10, <1>11 DEF Types
            <4>3. CASE f.up
                <5>1. answer(b) = Answer(Forgotten, TRUE)
                    BY <3>1, <3>3, <4>3 DEF checkKlicked
                <5>2. mouse'[b] = Events
                    BY <2>4, <3>3, <4>1, <4>2, <4>3 DEF Events
                <5>3. answer(b).flags = Forgotten
                    BY <2>5, <5>1
                <5> QED
                    BY <2>6, <5>2, <5>3
            <4>4. CASE ~f.up
                <5>1. answer(b) = Answer([f EXCEPT !.down = TRUE], FALSE)
                    BY <3>1, <3>3, <4>4 DEF checkKlicked
                <5>2. ~[f EXCEPT !.down = TRUE].up
                    BY <2>3, <4>4
                <5>3. answer(b).flags = [f EXCEPT !.down = TRUE] /\ answer(b).klicked = FALSE
                    BY <2>5, <5>1
                <5> QED
                    BY <4>1, <5>2, <5>3
            <4> QED
                BY <4>3, <4>4
        <3>4. CASE b \in over /\ ~down /\ up
            <4>1. "release" \in mouse'[b] /\ Seen(b) \subseteq mouse'[b]
                BY <2>7, <3>4 DEF event
            <4>2. mouse'[b] \subseteq Events
                BY <1>10, <1>11 DEF Types
            <4>3. CASE f.down
                <5>1. answer(b) = Answer(Forgotten, TRUE)
                    BY <3>1, <3>4, <4>3 DEF checkKlicked
                <5>2. mouse'[b] = Events
                    BY <2>4, <3>4, <4>1, <4>2, <4>3 DEF Events
                <5>3. answer(b).flags = Forgotten
                    BY <2>5, <5>1
                <5> QED
                    BY <2>6, <5>2, <5>3
            <4>4. CASE ~f.down
                <5>1. answer(b) = Answer([f EXCEPT !.up = TRUE], FALSE)
                    BY <3>1, <3>4, <4>4 DEF checkKlicked
                <5>2. ~[f EXCEPT !.up = TRUE].down
                    BY <2>3, <4>4
                <5>3. answer(b).flags = [f EXCEPT !.up = TRUE] /\ answer(b).klicked = FALSE
                    BY <2>5, <5>1
                <5> QED
                    BY <4>1, <5>2, <5>3
            <4> QED
                BY <4>3, <4>4
        <3>5. CASE b \in over /\ ~down /\ ~up
            <4>1. answer(b) = Answer(f, FALSE)
                BY <3>1, <3>5 DEF checkKlicked
            <4>2. answer(b).flags = f /\ answer(b).klicked = FALSE
                BY <2>5, <4>1
            <4> QED
                BY <2>4, <2>7, <3>5, <4>2
        <3> QED
            BY <3>2, <3>3, <3>4, <3>5
    <2> QED
        BY <2>8, <2>9
<1>12. Remembered'
    <2> SUFFICES ASSUME NEW b \in Watched, b \notin unseen'
                 PROVE  /\ flags'[b].down => "press" \in Seen(b)'
                        /\ flags'[b].up => "release" \in Seen(b)'
        BY DEF Remembered
    <2>1. Seen(b)' = IF b \in klicked' THEN {} ELSE mouse'[b]
        BY DEF Seen
    <2> QED
        BY <1>9, <1>11, <2>1
<1>13. KlickedOverButton'
    <2> SUFFICES ASSUME NEW b \in klicked', b \notin unseen'
                 PROVE  mouse'[b] = Events
        BY DEF KlickedOverButton, Events
    <2>1. b \in Watched
        BY <1>1
    <2> QED
        BY <1>9, <1>11, <2>1
<1> QED
    BY <1>5, <1>6, <1>7, <1>8, <1>10, <1>12, <1>13 DEF IInv

\* Every step keeps the invariant.
LEMMA NextIInv == IInv /\ [Next]_vars => IInv'
<1> SUFFICES ASSUME IInv, [Next]_vars PROVE IInv'
    OBVIOUS
<1>1. ASSUME NEW d \in Drawables, addDrawable(d) PROVE IInv'
    BY <1>1, AddDrawableStep
<1>2. ASSUME NEW d \in Drawables, remDrawable(d) PROVE IInv'
    BY <1>2, RemDrawableStep
<1>3. ASSUME NEW b \in Buttons, addButton(b) PROVE IInv'
    BY <1>3, AddButtonStep
<1>4. ASSUME NEW b \in Buttons, remButton(b) PROVE IInv'
    BY <1>4, RemButtonStep
<1>5. CASE setKamera
    BY <1>5, KameraStep
<1>6. ASSUME NEW done \in 0 .. 2 * Len(m_allDrawable), NEW bad \in SUBSET Paths,
             Initialize(done, bad)
      PROVE  IInv'
    BY <1>6, InitializeStep
<1>7. CASE InitializeFails
    BY <1>7, InitializeFailsStep
<1>8. CASE Terminate
    BY <1>8, TerminateStep
<1>9. CASE clear
    BY <1>9, ClearStep
<1>10. CASE Render
    BY <1>10, RenderStep
<1>11. CASE save
    BY <1>11, SaveStep
<1>12. CASE load
    BY <1>12, LoadStep
<1>13. ASSUME NEW over \in SUBSET Watched, NEW pressed \in BOOLEAN, turn(over, pressed)
       PROVE  IInv'
    BY <1>13, TurnStep
<1>14. CASE UNCHANGED vars
    <2>1. UNCHANGED <<device, camera, noTransform, m_allDrawable, m_allDrawableIDs, removed, unloaded,
                      m_buttons, m_buttonGameObjectIDs, cleared, container, held, leaked,
                      late, uncompiled, failed, flags, LButton, klicked, mouse, unseen,
                      file, undefined>>
        BY <1>14 DEF vars, drawables, buttons, resources, setup, input
    <2>2. Types' /\ Never' = Never
        BY <2>1 DEF IInv, Types, Never
    <2>3. Shown' /\ InStep' /\ Filed'
        BY <2>1, <2>2, FiledKept DEF IInv, Shown, InStep
    <2>4. NothingLeaks' /\ Released' /\ Loaded'
        BY <2>1 DEF IInv, NothingLeaks, Released, Loaded, HasContent
    <2>5. UndefinedOnlyByMisuse'
        BY <2>1 DEF IInv, UndefinedOnlyByMisuse, FromFile
    <2>6. Remembered' /\ KlickedOverButton'
        BY <2>1 DEF IInv, Remembered, KlickedOverButton, Seen
    <2> QED
        BY <2>2, <2>3, <2>4, <2>5, <2>6 DEF IInv
<1> QED
    BY <1>1, <1>2, <1>3, <1>4, <1>5, <1>6, <1>7, <1>8, <1>9, <1>10, <1>11, <1>12, <1>13,
       <1>14 DEF Next

\* The invariant holds in every state.
LEMMA Invariant == Spec => []IInv
<1>1. Init => IInv
    BY InitIInv
<1>2. IInv /\ [Next]_vars => IInv'
    BY NextIInv
<1> QED
    BY <1>1, <1>2, PTL DEF Spec

-----------------------------------------------------------------------------
(* The theorems *)

\* Whatever drawables and buttons have come and gone, through any number of devices,
\* scenes and failures, serialize writes a file that set can read, with everything on
\* the screen in it and what was never taken out once and in its order; and the buttons
\* as they are, unless clear() has emptied one of their two lists.
\* DrawableRenderer::serialize, set, remDrawable, UnloadContent; Dx11Base::addButton,
\* remButton, clear
THEOREM SpecSavedIsShown == Spec => []SavedIsShown
<1>1. IInv => SavedIsShown
    <2> SUFFICES ASSUME IInv PROVE SavedIsShown
        OBVIOUS
    <2> DEFINE scene == Read(Serialized)
    <2>1. /\ scene.ok /\ scene.drawables = m_allDrawableIDs
          /\ scene.buttons = [n \in 1 .. Len(m_buttons) |-> m_buttonGameObjectIDs[n]]
        BY ReadBack DEF IInv, InStep
    <2>2. ~cleared => scene.buttons = m_buttons
        <3> SUFFICES ASSUME ~cleared PROVE scene.buttons = m_buttons
            OBVIOUS
        <3>1. m_buttons = m_buttonGameObjectIDs
            BY DEF IInv, InStep
        <3>2. m_buttons = [n \in 1 .. Len(m_buttons) |-> m_buttons[n]]
            BY DEF IInv, Types
        <3> HIDE DEF scene
        <3> QED
            BY <2>1, <3>1, <3>2
    <2> HIDE DEF scene
    <2> QED
        BY <2>1, <2>2 DEF SavedIsShown, scene, IInv, Shown, Never
<1> QED
    BY <1>1, Invariant, PTL

\* An invalid pointer is used only in one of the cases that the property names: a
\* mistake of the application, or a camera, drawable or button that came from a file,
\* whose transform GameObject::set leaves unset.  No order of Initialize, Terminate,
\* clear, save and load, of shaders that do not compile and of textures that cannot be
\* created leads to one otherwise.
\* DrawableRenderer::Render, LoadContent, UnloadContent; Dx11Base::checkButtons, Terminate;
\* GameObject::set
THEOREM SpecUndefinedOnlyByMisuse == Spec => []UndefinedOnlyByMisuse
<1>1. IInv => UndefinedOnlyByMisuse
    BY DEF IInv
<1> QED
    BY <1>1, Invariant, PTL

\* Resources are held by drawables that UnloadContent finds, and never overwritten,
\* unless the drawable was once taken out.
\* DrawableRenderer::LoadContent, UnloadContent, remDrawable
THEOREM SpecNothingLeaks == Spec => []NothingLeaks
<1>1. IInv => NothingLeaks
    BY DEF IInv
<1> QED
    BY <1>1, Invariant, PTL

\* A button is klicked by a press and a release of the mouse over it, whatever the mouse
\* did before and whichever buttons were added and removed meanwhile.
\* Button::checkKlicked, Dx11Base::checkButtons
THEOREM SpecKlickedOverButton == Spec => []KlickedOverButton
<1>1. IInv => KlickedOverButton
    BY DEF IInv
<1> QED
    BY <1>1, Invariant, PTL
=============================================================================
