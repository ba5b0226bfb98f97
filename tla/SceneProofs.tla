----------------------------- MODULE SceneProofs -----------------------------
(***************************************************************************)
(* Proofs about Scene for any objects, components and names, and any       *)
(* number of calls: that a scene of any size is read back as it was        *)
(* written, that ids stay contiguous and links agree in both directions,   *)
(* and which faults alone lead to undefined behaviour.                     *)
(***************************************************************************)
EXTENDS Scene, FiniteSetTheorems, SequenceTheorems, NaturalsInduction,
        WellFoundedInduction, TLAPS

-----------------------------------------------------------------------------
(* Reading one value reverses writing it *)

Widths == {CharWidth, IntWidth, SizeWidth, PlaceWidth}
Values == Int \cup Places
Units == [width : Widths, value : Values]

\* operator>> takes the unit off the end that operator<< has put there.
LEMMA GotValue ==
    ASSUME NEW body \in Seq(Units), NEW width \in Widths, NEW value \in Values,
           NEW r, r.ok = TRUE, r.body = PutValue(body, width, value)
    PROVE  /\ PutValue(body, width, value) \in Seq(Units)
           /\ GetValue(r, width) = [ok |-> TRUE, body |-> body, value |-> value]
<1> DEFINE S == Units
           u == Unit(width, value)
           long == PutValue(body, width, value)
           n == Len(body)
<1>1. n \in Nat /\ u \in S /\ body \in Seq(S)
    BY DEF Unit, Units
<1> HIDE DEF S
<1>2. /\ long \in Seq(S) /\ Len(long) = n + 1 /\ long[n + 1] = u
      /\ \A k \in 1 .. n : long[k] = body[k]
    <2> HIDE DEF u
    <2>1. long = Append(body, u)
        BY DEF PutValue, u
    <2> HIDE DEF long
    <2> QED
        BY <1>1, <2>1, AppendProperties
<1>3. long # <<>> /\ Last(long) = u /\ u.width = width /\ u.value = value
    <2>1. u.width = width /\ u.value = value
        BY DEF Unit
    <2> HIDE DEF u, long
    <2>2. Last(long) = u
        BY <1>2 DEF Last
    <2>3. long # <<>>
        BY <1>1, <1>2, EmptySeq
    <2> QED
        BY <2>1, <2>2, <2>3
<1>4. Front(long) = body
    <2> HIDE DEF long, n, u
    <2>1. 1 \in Int /\ n \in Int /\ (n + 1) - 1 = n
        BY <1>1
    <2>2. \A k \in 1 .. n : long[k] \in S
        BY <1>1, <1>2, ElementOfSeq DEF n
    <2>3. Front(long) = SubSeq(long, 1, n)
        BY <1>2, <2>1 DEF Front
    <2>4. /\ SubSeq(long, 1, n) \in Seq(S)
          /\ Len(SubSeq(long, 1, n)) = IF 1 <= n THEN n - 1 + 1 ELSE 0
          /\ \A k \in 1 .. n - 1 + 1 : SubSeq(long, 1, n)[k] = long[1 + k - 1]
        BY <2>1, <2>2, SubSeqProperties
    <2>5. Len(SubSeq(long, 1, n)) = Len(body)
        BY <1>1, <2>4 DEF n
    <2>6. \A k \in 1 .. Len(body) : SubSeq(long, 1, n)[k] = body[k]
        BY <1>1, <1>2, <2>4 DEF n
    <2> QED
        BY <2>3, <2>4, <2>5, <2>6, SeqEqual
<1>5. r.body = long
    OBVIOUS
<1>6. long \in Seq(Units)
    BY <1>2 DEF S
<1> HIDE DEF long, u
<1>7. GetValue(r, width) = [ok |-> TRUE, body |-> body, value |-> value]
    BY <1>3, <1>4, <1>5 DEF GetValue
<1> QED
    BY <1>6, <1>7 DEF long

\* A vector's values come off the end in the opposite order.
LEMMA GotValues ==
    ASSUME NEW body \in Seq(Units), NEW width \in Widths, NEW values \in Seq(Values),
           NEW r, r.ok = TRUE, r.body = PutValues(body, width, values)
    PROVE  /\ PutValues(body, width, values) \in Seq(Units)
           /\ GetValues(r, width, Len(values)) =
                  [ok |-> TRUE, body |-> body,
                   value |-> [k \in 1 .. Len(values) |-> values[Len(values) + 1 - k]]]
<1> DEFINE S == Units
           us == [k \in DOMAIN values |-> Unit(width, values[k])]
           long == PutValues(body, width, values)
           n == Len(body)
           m == Len(values)
<1>1. n \in Nat /\ m \in Nat /\ DOMAIN values = 1 .. m
    BY LenProperties
<1>2. us \in Seq(S) /\ Len(us) = m /\ \A k \in 1 .. m : us[k] = Unit(width, values[k])
    <2>1. \A k \in 1 .. m : Unit(width, values[k]) \in S
        BY ElementOfSeq DEF Unit, Units
    <2>2. us = [k \in 1 .. m |-> Unit(width, values[k])]
        BY <1>1
    <2> HIDE DEF m, us, S
    <2> QED
        BY <1>1, <2>1, <2>2
<1>14. body \in Seq(S)
    OBVIOUS
<1> HIDE DEF S
<1>3. long = body \o us
    BY DEF PutValues
<1> HIDE DEF us, long, n, m
<1>4. /\ long \in Seq(S) /\ Len(long) = n + m
      /\ \A k \in 1 .. n + m : long[k] = IF k <= n THEN body[k] ELSE us[k - n]
    BY <1>2, <1>3, <1>14, ConcatProperties DEF n
<1>5. ~(m < 0) /\ (n + m) - m = n /\ n \in Int /\ n + 1 \in Int /\ 1 \in Int /\ n + m \in Int
    BY <1>1
<1>6. \A k \in 1 .. n + m : long[k] \in S
    BY <1>4, ElementOfSeq
<1> DEFINE taken == SubSeq(long, n + 1, n + m)
           rest == SubSeq(long, 1, n)
<1>7. /\ taken \in Seq(S) /\ Len(taken) = m /\ DOMAIN taken = 1 .. m
      /\ \A k \in 1 .. m : taken[k] = us[k]
    <2>1. \A k \in n + 1 .. n + m : long[k] \in S
        BY <1>1, <1>6
    <2>2. /\ taken \in Seq(S)
          /\ Len(taken) = IF n + 1 <= n + m THEN (n + m) - (n + 1) + 1 ELSE 0
          /\ \A k \in 1 .. (n + m) - (n + 1) + 1 : taken[k] = long[(n + 1) + k - 1]
        BY <1>5, <2>1, SubSeqProperties
    <2> HIDE DEF taken
    <2>3. Len(taken) = m /\ (n + m) - (n + 1) + 1 = m
        BY <1>1, <2>2
    <2>4. ASSUME NEW k \in 1 .. m PROVE taken[k] = us[k]
        <3> DEFINE p == (n + 1) + k - 1
        <3>1. p \in 1 .. n + m /\ ~(p <= n) /\ p - n = k
            BY <1>1
        <3>2. taken[k] = long[p]
            BY <2>2, <2>3
        <3> HIDE DEF p
        <3>3. long[p] = us[p - n]
            BY <1>4, <3>1
        <3> QED
            BY <3>1, <3>2, <3>3
    <2> QED
        BY <2>2, <2>3, <2>4, LenProperties
<1>8. rest = body
    <2>1. \A k \in 1 .. n : long[k] \in S
        BY <1>1, <1>6
    <2>2. /\ rest \in Seq(S)
          /\ Len(rest) = IF 1 <= n THEN n - 1 + 1 ELSE 0
          /\ \A k \in 1 .. n - 1 + 1 : rest[k] = long[1 + k - 1]
        BY <1>5, <2>1, SubSeqProperties
    <2> HIDE DEF rest
    <2>3. Len(rest) = Len(body)
        BY <1>1, <2>2 DEF n
    <2>4. ASSUME NEW k \in 1 .. n PROVE rest[k] = body[k]
        <3>1. k \in 1 .. n - 1 + 1 /\ 1 + k - 1 = k /\ k \in 1 .. n + m /\ k <= n
            BY <1>1
        <3> QED
            BY <1>4, <2>2, <3>1
    <2> QED
        BY <2>2, <2>3, <2>4, SeqEqual DEF n
<1>9. \A k \in 1 .. m : taken[k].width = width /\ taken[k].value = values[k]
    BY <1>2, <1>7 DEF Unit
<1>10. \A k \in 1 .. m : m + 1 - k \in 1 .. m
    BY <1>1
<1>11. [k \in 1 .. m |-> taken[m + 1 - k].value] = [k \in 1 .. m |-> values[m + 1 - k]]
    BY <1>9, <1>10
<1>12. r.body = long /\ Len(r.body) = n + m
    BY <1>4 DEF long
<1>13. GetValues(r, width, m) =
          [ok |-> TRUE, body |-> rest, value |-> [k \in 1 .. m |-> taken[m + 1 - k].value]]
    <2>1. /\ Len(r.body) - m = n /\ m >= 0 /\ n >= 0
          /\ SubSeq(r.body, n + 1, Len(r.body)) = taken /\ SubSeq(r.body, 1, n) = rest
        BY <1>1, <1>5, <1>12
    <2> HIDE DEF taken, rest
    <2> QED
        BY <1>7, <1>9, <2>1 DEF GetValues
<1>15. long \in Seq(Units)
    BY <1>4 DEF S
<1>16. GetValues(r, width, m) =
           [ok |-> TRUE, body |-> body, value |-> [k \in 1 .. m |-> values[m + 1 - k]]]
    BY <1>8, <1>11, <1>13
<1> QED
    BY <1>15, <1>16 DEF m, long

\* A sequence over a set is one over a larger set.
LEMMA SeqMore ==
    ASSUME NEW S, NEW T, S \subseteq T, NEW s \in Seq(S)
    PROVE  s \in Seq(T)
<1>1. Len(s) \in Nat /\ DOMAIN s = 1 .. Len(s) /\ \A k \in 1 .. Len(s) : s[k] \in T
    BY ElementOfSeq, LenProperties
<1>2. s = [k \in 1 .. Len(s) |-> s[k]]
    BY <1>1
<1> QED
    BY <1>1, <1>2

\* A function on 1 .. n is a sequence of length n.
LEMMA AsSeq ==
    ASSUME NEW S, NEW n \in Nat, NEW t \in [1 .. n -> S]
    PROVE  t \in Seq(S) /\ Len(t) = n
<1>1. DOMAIN t = 1 .. n
    OBVIOUS
<1>2. t \in Seq(S)
    BY <1>1, SeqDef
<1>3. Len(t) \in Nat /\ DOMAIN t = 1 .. Len(t)
    BY <1>2, LenProperties
<1>4. 1 .. n = 1 .. Len(t)
    BY <1>1, <1>3
<1>5. \A a, b \in Nat : 1 .. a = 1 .. b => a = b
    <2> SUFFICES ASSUME NEW a \in Nat, NEW b \in Nat, 1 .. a = 1 .. b PROVE a = b
        OBVIOUS
    <2>1. \A k \in Int : (1 <= k /\ k <= a) <=> (1 <= k /\ k <= b)
        OBVIOUS
    <2>2. CASE a > 0
        BY <2>1, <2>2
    <2>3. CASE b > 0
        BY <2>1, <2>3
    <2> QED
        BY <2>2, <2>3
<1> QED
    BY <1>2, <1>3, <1>4, <1>5

\* The function that counts down from the end is Reverse, and its own inverse.
LEMMA ReverseTwice ==
    ASSUME NEW S, NEW s \in Seq(S), NEW t, t = [k \in 1 .. Len(s) |-> s[Len(s) + 1 - k]]
    PROVE  Reverse(t) = s /\ Reverse(s) = t /\ t \in Seq(S) /\ Len(t) = Len(s)
<1> DEFINE n == Len(s)
<1>1. n \in Nat /\ DOMAIN s = 1 .. n /\ s = [k \in 1 .. n |-> s[k]]
    BY LenProperties
<1>2. \A k \in 1 .. n : s[k] \in S
    BY ElementOfSeq
<1> HIDE DEF n
<1>3. \A k \in 1 .. n : n + 1 - k \in 1 .. n /\ (n - k) + 1 = n + 1 - k
                         /\ n + 1 - (n + 1 - k) = k
    BY <1>1
<1>4. t = [k \in 1 .. n |-> s[n + 1 - k]]
    BY DEF n
<1>5. t \in Seq(S) /\ Len(t) = n
    <2>1. \A k \in 1 .. n : t[k] \in S
        BY <1>2, <1>3, <1>4
    <2>2. t \in [1 .. n -> S]
        BY <1>4, <2>1
    <2> QED
        BY <1>1, <2>2, AsSeq
<1>6. Reverse(t) = [k \in 1 .. n |-> t[(n - k) + 1]]
    BY <1>5 DEF Reverse
<1>7. \A k \in 1 .. n : t[(n - k) + 1] = s[k]
    <2> SUFFICES ASSUME NEW k \in 1 .. n PROVE t[(n - k) + 1] = s[k]
        OBVIOUS
    <2> DEFINE m == n + 1 - k
    <2>1. m \in 1 .. n /\ (n - k) + 1 = m /\ n + 1 - m = k
        BY <1>3
    <2> HIDE DEF m
    <2>2. t[m] = s[n + 1 - m]
        BY <1>4, <2>1
    <2> QED
        BY <2>1, <2>2
<1>8. Reverse(s) = [k \in 1 .. n |-> s[(n - k) + 1]]
    BY DEF Reverse, n
<1> QED
    BY <1>1, <1>3, <1>4, <1>5, <1>6, <1>7, <1>8 DEF n

Turned(s) == [k \in 1 .. Len(s) |-> s[Len(s) + 1 - k]]

\* Turning a sequence round twice gives it back.
LEMMA TurnedTwice ==
    ASSUME NEW S, NEW s \in Seq(S)
    PROVE  /\ Reverse(Turned(s)) = s /\ Reverse(s) = Turned(s)
           /\ Turned(s) \in Seq(S) /\ Len(Turned(s)) = Len(s)
BY ReverseTwice DEF Turned

\* Writing a unit gives a body.
LEMMA Put ==
    ASSUME NEW body \in Seq(Units), NEW width \in Widths, NEW value \in Values
    PROVE  PutValue(body, width, value) \in Seq(Units)
<1>1. PICK r : r = [ok |-> TRUE, body |-> PutValue(body, width, value)]
    OBVIOUS
<1>2. r.ok = TRUE /\ r.body = PutValue(body, width, value)
    BY <1>1
<1> QED
    BY <1>2, GotValue

\* A string comes back in its own order: operator>> reverses what it
\* collected.
LEMMA GotString ==
    ASSUME NEW body \in Seq(Units), NEW string \in Seq(Nat),
           NEW r, r.ok = TRUE, r.body = PutString(body, string)
    PROVE  /\ PutString(body, string) \in Seq(Units)
           /\ GetString(r) = [ok |-> TRUE, body |-> body, value |-> string]
<1> DEFINE n == Len(string)
           chars == PutValues(body, CharWidth, string)
           turned == [k \in 1 .. n |-> string[n + 1 - k]]
           size == GetValue(r, IntWidth)
           got == GetValues(size, CharWidth, n)
<1>1. string \in Seq(Values) /\ n \in Values /\ CharWidth \in Widths /\ IntWidth \in Widths
    BY SeqMore, LenProperties DEF Values, Widths
<1>2. chars \in Seq(Units)
    <2>1. PICK q : q = [ok |-> TRUE, body |-> chars]
        OBVIOUS
    <2>2. q.ok = TRUE /\ q.body = chars
        BY <2>1
    <2> QED
        BY <1>1, <2>2, GotValues
<1>3. PutString(body, string) = PutValue(chars, IntWidth, n)
    BY DEF PutString
<1> HIDE DEF chars, n
<1>4. /\ PutString(body, string) \in Seq(Units)
      /\ size = [ok |-> TRUE, body |-> chars, value |-> n]
    <2>1. r.body = PutValue(chars, IntWidth, n)
        BY <1>3
    <2> QED
        BY <1>1, <1>2, <1>3, <2>1, GotValue
<1> HIDE DEF size
<1>5. got = [ok |-> TRUE, body |-> body, value |-> turned]
    <2>1. size.ok = TRUE /\ size.body = PutValues(body, CharWidth, string)
        BY <1>4 DEF chars
    <2> QED
        BY <1>1, <2>1, GotValues DEF n
<1>6. Reverse(turned) = string
    BY ReverseTwice DEF n
<1>7. GetString(r) =
          IF got.ok THEN [ok |-> TRUE, body |-> got.body, value |-> Reverse(got.value)]
          ELSE Failed
    BY <1>4 DEF GetString, size
<1> HIDE DEF got, turned
<1>8. got.ok = TRUE /\ got.body = body /\ Reverse(got.value) = string
    BY <1>5, <1>6
<1> QED
    BY <1>4, <1>7, <1>8

-----------------------------------------------------------------------------
(* Reading a component reverses writing it *)

Id == Nat \cup {EMPTY_ID}
Component == [kind : Kinds, place : Places, pGOID : Id, parrent : Id]

\* What only a Transform has, other components do not have.
Plain(c) == c.kind # "Transform" => c.place = 0 /\ c.pGOID = EMPTY_ID

\* What load makes of a component
Back(c) == [kind |-> WritesNameOf[c.kind], place |-> c.place, pGOID |-> c.pGOID,
            parrent |-> EMPTY_ID]

\* What is read last of a component
LastOf(c) == IF c.kind = "Transform" THEN c.place ELSE TypeName[WritesNameOf[c.kind]]

\* set of a component, found by the name that was written last, reads its data
\* and no more.
LEMMA ComponentBack ==
    ASSUME NEW body \in Seq(Units), NEW c \in Component, Plain(c), NEW so,
           so.r.ok = TRUE, so.r.body = WriteComponent(body, c)
    PROVE  /\ WriteComponent(body, c) \in Seq(Units)
           /\ ReadComponent(so) =
                  [r |-> [ok |-> TRUE, body |-> body, value |-> LastOf(c)],
                   value |-> Append(so.value, Back(c))]
<1> DEFINE type == TypeName[WritesNameOf[c.kind]]
           placed == PutValue(body, PlaceWidth, c.place)
           data == IF c.kind = "Transform" THEN PutInt(placed, c.pGOID) ELSE body
           name == GetString(so.r)
           kinds == {k \in Kinds : name.ok /\ TypeName[k] = name.value}
           kind == CHOOSE k \in kinds : TRUE
<1>1. /\ c.kind \in Kinds /\ c.place \in Values /\ c.pGOID \in Values /\ c.pGOID \in Id
      /\ WritesNameOf[c.kind] \in Kinds /\ type \in Seq(Nat)
      /\ WritesNameOf[c.kind] = "Transform" <=> c.kind = "Transform"
      /\ PlaceWidth \in Widths /\ IntWidth \in Widths
    BY KindAssumption, StringAssumption DEF Component, Values, Id, EMPTY_ID, Widths
<1>2. placed \in Seq(Units) /\ PutInt(placed, c.pGOID) \in Seq(Units)
    <2>1. placed \in Seq(Units)
        BY <1>1, Put
    <2> HIDE DEF placed
    <2> QED
        BY <1>1, <2>1, Put DEF PutInt
<1>3. data \in Seq(Units)
    BY <1>2
<1>4. WriteComponent(body, c) = PutString(data, type)
    BY DEF WriteComponent
<1> HIDE DEF data, type
<1>5. /\ WriteComponent(body, c) \in Seq(Units)
      /\ name = [ok |-> TRUE, body |-> data, value |-> type]
    BY <1>1, <1>3, <1>4, GotString
<1>6. kinds = {WritesNameOf[c.kind]}
    <2>1. /\ name.ok /\ name.value = type
        BY <1>5
    <2> HIDE DEF name
    <2>2. WritesNameOf[c.kind] \in kinds
        BY <1>1, <2>1 DEF type
    <2>3. ASSUME NEW k \in kinds PROVE k = WritesNameOf[c.kind]
        <3>1. k \in Kinds /\ TypeName[k] = TypeName[WritesNameOf[c.kind]]
            BY <2>1, <2>3 DEF type
        <3>2. k \in DOMAIN TypeName /\ WritesNameOf[c.kind] \in DOMAIN TypeName
            BY <1>1, <3>1, StringAssumption
        <3> QED
            BY <3>1, <3>2, KindAssumption DEF IsInjective
    <2> QED
        BY <2>2, <2>3
<1>7. kind = WritesNameOf[c.kind] /\ kinds # {}
    BY <1>6
<1> DEFINE pGOID == GetInt(name)
           place == GetValue(pGOID, PlaceWidth)
           part == [kind |-> kind, place |-> place.value, pGOID |-> pGOID.value,
                    parrent |-> EMPTY_ID]
<1>8. ReadComponent(so) =
          IF kinds = {} THEN [r |-> Failed, value |-> so.value]
          ELSE IF kind # "Transform"
          THEN [r |-> name, value |-> Append(so.value, NewComponent(kind))]
          ELSE [r |-> place, value |-> Append(so.value, part)]
    BY DEF ReadComponent
<1> HIDE DEF kinds, kind
<1>9. name.ok = TRUE /\ name.body = data
    BY <1>5
<1> HIDE DEF name
<1>10. CASE c.kind # "Transform"
    <2>1. ReadComponent(so) = [r |-> name, value |-> Append(so.value, NewComponent(kind))]
        BY <1>1, <1>7, <1>8, <1>10
    <2>2. NewComponent(kind) = Back(c)
        BY <1>7, <1>10 DEF NewComponent, Back, Plain
    <2>3. data = body
        BY <1>10 DEF data
    <2> QED
        BY <1>5, <1>10, <2>1, <2>2, <2>3 DEF LastOf, type
<1>11. CASE c.kind = "Transform"
    <2>1. data = PutValue(placed, IntWidth, c.pGOID)
        BY <1>11 DEF data, PutInt
    <2>2. pGOID = [ok |-> TRUE, body |-> placed, value |-> c.pGOID]
        <3>1. name.body = PutValue(placed, IntWidth, c.pGOID) /\ placed \in Seq(Units)
            BY <1>2, <1>9, <2>1
        <3> HIDE DEF placed
        <3> QED
            BY <1>1, <1>9, <3>1, GotValue DEF GetInt
    <2>3. pGOID.ok = TRUE /\ pGOID.body = placed /\ pGOID.value = c.pGOID
        BY <2>2
    <2> HIDE DEF pGOID
    <2>4. place = [ok |-> TRUE, body |-> body, value |-> c.place]
        BY <1>1, <2>3, GotValue DEF placed
    <2>5. place.ok = TRUE /\ place.body = body /\ place.value = c.place
        BY <2>4
    <2> HIDE DEF place
    <2>6. part = Back(c)
        BY <1>7, <2>3, <2>5 DEF Back
    <2>7. ReadComponent(so) = [r |-> place, value |-> Append(so.value, part)]
        BY <1>1, <1>7, <1>8, <1>11
    <2> HIDE DEF part
    <2> QED
        BY <1>5, <1>11, <2>4, <2>6, <2>7 DEF LastOf
<1> QED
    BY <1>10, <1>11

-----------------------------------------------------------------------------
(* Functions that are defined by what they are for the number before *)

LEMMA MinIsMember ==
    ASSUME NEW S \in SUBSET Nat, S # {}
    PROVE  Min(S) \in S /\ \A y \in S : Min(S) <= y
<1> DEFINE Less == {ss \in Nat \X Nat : ss[1] < ss[2]}
<1>1. IsWellFoundedOn(Less, Nat)
    BY NatLessThanWellFounded DEF OpToRel
<1> HIDE DEF Less
<1>2. PICK x \in S : \A y \in S : ~(<<y, x>> \in Less)
    BY <1>1, WFMin
<1>3. \A y \in S : x <= y
    <2> SUFFICES ASSUME NEW y \in S PROVE ~(y < x)
        OBVIOUS
    <2> QED
        BY <1>2 DEF Less
<1> QED
    BY <1>3 DEF Min

\* What holds at 0, and for a number when it holds for the one before
LEMMA UpTo ==
    ASSUME NEW size \in Nat, NEW S, 0 \in S,
           \A n \in 1 .. size : n - 1 \in S => n \in S
    PROVE  \A n \in 0 .. size : n \in S
<1> DEFINE Not == {n \in 0 .. size : n \notin S}
<1> SUFFICES ASSUME Not # {} PROVE FALSE
    OBVIOUS
<1>1. Not \in SUBSET Nat
    OBVIOUS
<1> DEFINE m == Min(Not)
<1>2. m \in Not /\ \A y \in Not : m <= y
    BY <1>1, MinIsMember
<1> HIDE DEF m
<1>3. m \in 1 .. size /\ m - 1 \in 0 .. size
    BY <1>2
<1>4. m - 1 \in S
    BY <1>2, <1>3
<1> QED
    BY <1>2, <1>3, <1>4

Recursive(f, D, base, size, step) ==
    /\ f \in [0 .. size -> D]
    /\ f[0] = base
    /\ \A n \in 1 .. size : f[n] = step[n][f[n - 1]]

\* For every base and every step there is a function that a loop of that many
\* turns computes.
LEMMA Recursion ==
    ASSUME NEW D, NEW base \in D, NEW size \in Nat, NEW step \in [1 .. size -> [D -> D]]
    PROVE  \E f : Recursive(f, D, base, size, step)
<1> DEFINE Good(m) == \E f \in [0 .. m -> D] :
                          f[0] = base /\ \A n \in 1 .. m : f[n] = step[n][f[n - 1]]
           S == {m \in 0 .. size : Good(m)}
<1>1. Good(0)
    <2>1. PICK f : f = [n \in 0 .. 0 |-> base]
        OBVIOUS
    <2>2. f \in [0 .. 0 -> D] /\ f[0] = base
        BY <2>1
    <2> QED
        BY <2>2
<1>2. ASSUME NEW m \in 1 .. size, Good(m - 1)
      PROVE  Good(m)
    <2>1. PICK g \in [0 .. m - 1 -> D] :
              g[0] = base /\ \A n \in 1 .. m - 1 : g[n] = step[n][g[n - 1]]
        BY <1>2
    <2>2. PICK f : f = [n \in 0 .. m |-> IF n < m THEN g[n] ELSE step[m][g[m - 1]]]
        OBVIOUS
    <2>3. g[m - 1] \in D /\ step[m][g[m - 1]] \in D
        BY <2>1
    <2>4. \A n \in 0 .. m : n < m => n \in 0 .. m - 1
        OBVIOUS
    <2>5. f \in [0 .. m -> D]
        BY <2>1, <2>2, <2>3, <2>4
    <2>6. f[0] = base
        BY <2>1, <2>2
    <2>7. ASSUME NEW n \in 1 .. m PROVE f[n] = step[n][f[n - 1]]
        <3>1. f[n - 1] = g[n - 1]
            <4>1. n - 1 \in 0 .. m /\ n - 1 < m
                OBVIOUS
            <4> QED
                BY <2>2, <4>1
        <3>2. CASE n = m
            BY <2>2, <3>1, <3>2
        <3>3. CASE n # m
            <4>1. n \in 1 .. m - 1 /\ n \in 0 .. m /\ n < m
                BY <3>3
            <4>2. f[n] = g[n]
                BY <2>2, <4>1
            <4> QED
                BY <2>1, <3>1, <4>1, <4>2
        <3> QED
            BY <3>2, <3>3
    <2> QED
        BY <2>5, <2>6, <2>7
<1> HIDE DEF Good
<1>3. \A n \in 0 .. size : n \in S
    <2>1. 0 \in S
        BY <1>1
    <2>2. \A n \in 1 .. size : n - 1 \in S => n \in S
        BY <1>2
    <2> HIDE DEF S
    <2> QED
        BY <2>1, <2>2, UpTo
<1>4. Good(size)
    BY <1>3
<1>5. PICK f \in [0 .. size -> D] :
          f[0] = base /\ \A n \in 1 .. size : f[n] = step[n][f[n - 1]]
    BY <1>4 DEF Good
<1> QED
    BY <1>5 DEF Recursive

-----------------------------------------------------------------------------
(* Reading the components of an object reverses writing them *)

Components == {cs \in Seq(Component) : \A n \in DOMAIN cs : Plain(cs[n])}

\* What the body is after each component has been written
IsWritten(w, body, components) ==
    w = [n \in 0 .. Len(components) |->
            IF n = 0 THEN body
            ELSE WriteComponent(w[n - 1], components[Len(components) + 1 - n])]

\* The loop over the components has a body after each turn.
LEMMA WrittenComponents ==
    ASSUME NEW body \in Seq(Units), NEW components \in Components
    PROVE  \E w \in [0 .. Len(components) -> Seq(Units)] :
               /\ w[0] = body
               /\ \A n \in 1 .. Len(components) :
                      w[n] = WriteComponent(w[n - 1], components[Len(components) + 1 - n])
               /\ WriteComponents(body, components) = w[Len(components)]
<1> DEFINE size == Len(components)
           D == Seq(Units)
           Q(w) == IsWritten(w, body, components)
           g == CHOOSE w : Q(w)
           step == [n \in 1 .. size |->
                       [b \in D |-> WriteComponent(b, components[size + 1 - n])]]
<1>1. /\ size \in Nat /\ DOMAIN components = 1 .. size
      /\ \A n \in 1 .. size : components[n] \in Component /\ Plain(components[n])
    BY LenProperties, ElementOfSeq DEF Components
<1>2. \A n \in 1 .. size : size + 1 - n \in 1 .. size
    BY <1>1
<1>3. ASSUME NEW b \in D, NEW n \in 1 .. size
      PROVE  WriteComponent(b, components[size + 1 - n]) \in D
    <2>1. PICK c : c = components[size + 1 - n]
        OBVIOUS
    <2>2. c \in Component /\ Plain(c)
        BY <1>1, <1>2, <2>1
    <2>3. PICK so : so = [r |-> [ok |-> TRUE, body |-> WriteComponent(b, c)]]
        OBVIOUS
    <2>4. so.r.ok = TRUE /\ so.r.body = WriteComponent(b, c)
        BY <2>3
    <2>5. WriteComponent(b, c) \in Seq(Units)
        BY <2>2, <2>4, ComponentBack
    <2> QED
        BY <2>1, <2>5
<1> HIDE DEF D
<1>4. step \in [1 .. size -> [D -> D]]
    BY <1>3
<1>5. \A n \in 1 .. size : \A b \in D :
          step[n][b] = WriteComponent(b, components[size + 1 - n])
    OBVIOUS
<1>6. body \in D
    BY DEF D
<1> HIDE DEF step, size
<1>7. PICK f : Recursive(f, D, body, size, step)
    BY <1>1, <1>4, <1>6, Recursion
<1>17. /\ f \in [0 .. size -> D] /\ f[0] = body
       /\ \A n \in 1 .. size : f[n] = step[n][f[n - 1]]
    BY <1>7 DEF Recursive
<1>8. \A n \in 1 .. size : n - 1 \in 0 .. size /\ n \in 0 .. size /\ n # 0
    BY <1>1
<1>9. \A n \in 1 .. size : f[n] = WriteComponent(f[n - 1], components[size + 1 - n])
    BY <1>5, <1>8, <1>17
<1>10. Q(f)
    <2>1. f = [n \in 0 .. size |-> f[n]]
        BY <1>17
    <2>2. \A n \in 0 .. size :
              f[n] = IF n = 0 THEN body
                     ELSE WriteComponent(f[n - 1], components[size + 1 - n])
        <3> SUFFICES ASSUME NEW n \in 0 .. size
                     PROVE  f[n] = IF n = 0 THEN body
                                   ELSE WriteComponent(f[n - 1], components[size + 1 - n])
            OBVIOUS
        <3>1. CASE n = 0
            BY <1>17, <3>1
        <3>2. CASE n # 0
            <4>1. n \in 1 .. size
                BY <1>1, <3>2
            <4> QED
                BY <1>9, <3>2, <4>1
        <3> QED
            BY <3>1, <3>2
    <2>3. f = [n \in 0 .. size |->
                  IF n = 0 THEN body
                  ELSE WriteComponent(f[n - 1], components[size + 1 - n])]
        BY <2>1, <2>2
    <2> QED
        BY <2>3 DEF IsWritten, size
<1>11. WriteComponents(body, components) = g[size]
    BY DEF WriteComponents, IsWritten, size
<1>12. Q(g)
    <2> HIDE DEF Q
    <2> QED
        BY <1>10
<1> HIDE DEF g
<1>13. g = [n \in 0 .. size |->
               IF n = 0 THEN body
               ELSE WriteComponent(g[n - 1], components[size + 1 - n])]
    BY <1>12 DEF IsWritten, size
<1>14. g[0] = body /\ \A n \in 1 .. size :
                          g[n] = WriteComponent(g[n - 1], components[size + 1 - n])
    BY <1>1, <1>8, <1>13
<1>15. \A n \in 0 .. size : g[n] \in D
    <2> DEFINE S == {n \in 0 .. size : g[n] \in D}
    <2>1. 0 \in S
        BY <1>1, <1>6, <1>14
    <2>2. \A n \in 1 .. size : n - 1 \in S => n \in S
        BY <1>3, <1>8, <1>14 DEF size
    <2> HIDE DEF S
    <2>3. \A n \in 0 .. size : n \in S
        BY <1>1, <2>1, <2>2, UpTo
    <2> QED
        BY <2>3 DEF S
<1>16. g \in [0 .. size -> D]
    BY <1>13, <1>15
<1> QED
    BY <1>11, <1>14, <1>16 DEF size, D

Backs(components, n) == [k \in 1 .. n |-> Back(components[k])]

\* The components read so far, one more after each turn of the reader.
LEMMA BacksAre ==
    ASSUME NEW components \in Components
    PROVE  /\ Backs(components, 0) = <<>>
           /\ \A n \in 1 .. Len(components) :
                  Append(Backs(components, n - 1), Back(components[n]))
                    = Backs(components, n)
           /\ Backs(components, Len(components)) \in Components
           /\ Len(Backs(components, Len(components))) = Len(components)
<1> DEFINE size == Len(components)
<1>1. size \in Nat /\ DOMAIN components = 1 .. size
    BY LenProperties DEF Components
<1>2. \A n \in 1 .. size : components[n] \in Component /\ Plain(components[n])
    BY <1>1, ElementOfSeq DEF Components
<1>3. \A n \in 1 .. size : Back(components[n]) \in Component /\ Plain(Back(components[n]))
    <2> SUFFICES ASSUME NEW n \in 1 .. size
                 PROVE  Back(components[n]) \in Component /\ Plain(Back(components[n]))
        OBVIOUS
    <2>1. PICK c : c = components[n]
        OBVIOUS
    <2>2. c \in Component /\ Plain(c)
        BY <1>2, <2>1
    <2>3. PICK b : b = Back(c)
        OBVIOUS
    <2>4. /\ b.kind = WritesNameOf[c.kind] /\ b.place = c.place /\ b.pGOID = c.pGOID
          /\ c.kind \in Kinds
        BY <2>2, <2>3 DEF Back, Component
    <2>5. WritesNameOf[c.kind] \in Kinds
          /\ (WritesNameOf[c.kind] = "Transform" <=> c.kind = "Transform")
        BY <2>4, KindAssumption
    <2>6. Plain(b)
        BY <2>2, <2>4, <2>5 DEF Plain
    <2>7. b \in Component
        BY <2>2, <2>3, <2>5 DEF Back, Component, Id
    <2> QED
        BY <2>1, <2>3, <2>6, <2>7
<1> HIDE DEF size
<1>4. ASSUME NEW n \in 0 .. size
      PROVE  /\ Backs(components, n) \in Seq(Component) /\ Len(Backs(components, n)) = n
             /\ \A k \in 1 .. n : Backs(components, n)[k] = Back(components[k])
    <2>1. PICK t : t = [k \in 1 .. n |-> Back(components[k])]
        OBVIOUS
    <2>2. n \in Nat /\ \A k \in 1 .. n : k \in 1 .. size
        BY <1>1
    <2>3. t \in [1 .. n -> Component] /\ \A k \in 1 .. n : t[k] = Back(components[k])
        BY <1>3, <2>1, <2>2
    <2>4. t \in Seq(Component) /\ Len(t) = n
        BY <2>2, <2>3, AsSeq
    <2>5. t = Backs(components, n)
        BY <2>1 DEF Backs
    <2> QED
        BY <2>3, <2>4, <2>5
<1>5. Backs(components, 0) = <<>>
    <2>1. 0 \in 0 .. size
        BY <1>1
    <2> QED
        BY <1>4, <2>1, EmptySeq
<1>6. ASSUME NEW n \in 1 .. size
      PROVE  Append(Backs(components, n - 1), Back(components[n])) = Backs(components, n)
    <2> DEFINE s == Backs(components, n - 1)
               e == Back(components[n])
    <2>1. n - 1 \in 0 .. size /\ n \in 0 .. size /\ (n - 1) + 1 = n
        BY <1>1
    <2>2. s \in Seq(Component) /\ Len(s) = n - 1
          /\ \A k \in 1 .. n - 1 : s[k] = Back(components[k])
        BY <1>4, <2>1
    <2>3. e \in Component
        BY <1>3
    <2> HIDE DEF s
    <2>4. /\ Append(s, e) \in Seq(Component) /\ Len(Append(s, e)) = n
          /\ \A k \in 1 .. n - 1 : Append(s, e)[k] = s[k]
          /\ Append(s, e)[n] = e
        <3> HIDE DEF e
        <3> QED
            BY <2>1, <2>2, <2>3, AppendProperties
    <2>5. \A k \in 1 .. n : Append(s, e)[k] = Backs(components, n)[k]
        <3> SUFFICES ASSUME NEW k \in 1 .. n PROVE Append(s, e)[k] = Backs(components, n)[k]
            OBVIOUS
        <3>1. Backs(components, n)[k] = Back(components[k])
            BY <1>4, <2>1
        <3>2. CASE k = n
            BY <2>4, <3>1, <3>2
        <3>3. CASE k # n
            <4>1. k \in 1 .. n - 1
                BY <3>3
            <4>2. Append(s, e)[k] = s[k] /\ s[k] = Back(components[k])
                BY <2>2, <2>4, <4>1
            <4> QED
                BY <3>1, <4>2
        <3> QED
            BY <3>2, <3>3
    <2>6. Append(s, e) = Backs(components, n)
        <3>1. Backs(components, n) \in Seq(Component) /\ Len(Backs(components, n)) = n
            BY <1>4, <2>1
        <3> HIDE DEF e
        <3> QED
            BY <2>4, <2>5, <3>1, SeqEqual
    <2> QED
        BY <2>6 DEF s
<1>7. Backs(components, size) \in Components /\ Len(Backs(components, size)) = size
    <2>1. size \in 0 .. size
        BY <1>1
    <2>2. PICK t : t = Backs(components, size)
        OBVIOUS
    <2>3. t \in Seq(Component) /\ Len(t) = size /\ \A k \in 1 .. size : t[k] = Back(components[k])
        BY <1>4, <2>1, <2>2
    <2>4. DOMAIN t = 1 .. size
        BY <2>3, LenProperties
    <2> QED
        BY <1>3, <2>2, <2>3, <2>4 DEF Components
<1> QED
    BY <1>5, <1>6, <1>7 DEF size

\* What the reader has after each component has been read
IsReadComponents(R, r, size) ==
    R = [n \in 0 .. size |->
            IF n = 0 THEN [r |-> r, value |-> <<>>] ELSE ReadComponent(R[n - 1])]

\* The components are read in their order, the last one written first.
LEMMA ComponentsBack ==
    ASSUME NEW body \in Seq(Units), NEW components \in Components, NEW r,
           r.ok = TRUE, r.body = WriteComponents(body, components),
           r.value = Len(components)
    PROVE  /\ WriteComponents(body, components) \in Seq(Units)
           /\ ReadComponents(r).r.ok = TRUE /\ ReadComponents(r).r.body = body
           /\ ReadComponents(r).value = Backs(components, Len(components))
<1> DEFINE size == Len(components)
           Q(R) == IsReadComponents(R, r, size)
           g == CHOOSE R : Q(R)
<1>1. /\ size \in Nat /\ DOMAIN components = 1 .. size
      /\ \A n \in 1 .. size : components[n] \in Component /\ Plain(components[n])
    BY LenProperties, ElementOfSeq DEF Components
<1>2. PICK w \in [0 .. size -> Seq(Units)] :
          /\ w[0] = body
          /\ \A n \in 1 .. size : w[n] = WriteComponent(w[n - 1], components[size + 1 - n])
          /\ WriteComponents(body, components) = w[size]
    BY WrittenComponents
<1>3. Times(r.value) = size
    <2> HIDE DEF size
    <2>1. r.value = size
        BY DEF size
    <2> QED
        BY <1>1, <2>1 DEF Times
<1> HIDE DEF size
<1> DEFINE reader(n) == IF n = 0 THEN r
                        ELSE [ok |-> TRUE, body |-> w[size - n], value |-> LastOf(components[n])]
           f == [n \in 0 .. size |-> [r |-> reader(n), value |-> Backs(components, n)]]
<1>4. \A n \in 0 .. size : size - n \in 0 .. size /\ w[size - n] \in Seq(Units)
    BY <1>1, <1>2
<1>5. \A n \in 0 .. size : reader(n).ok = TRUE /\ reader(n).body = w[size - n]
    <2> SUFFICES ASSUME NEW n \in 0 .. size
                 PROVE  reader(n).ok = TRUE /\ reader(n).body = w[size - n]
        OBVIOUS
    <2>1. CASE n = 0
        <3>1. size - n = size
            BY <1>1, <2>1
        <3>2. reader(n) = r
            BY <2>1
        <3> QED
            BY <1>2, <3>1, <3>2
    <2>2. CASE n # 0
        BY <2>2
    <2> QED
        BY <2>1, <2>2
<1>6. ASSUME NEW n \in 1 .. size
      PROVE  ReadComponent([r |-> reader(n - 1), value |-> Backs(components, n - 1)])
                 = [r |-> reader(n), value |-> Backs(components, n)]
    <2>1. PICK c : c = components[n]
        OBVIOUS
    <2>2. PICK b : b = w[size - n]
        OBVIOUS
    <2>3. PICK so : so = [r |-> reader(n - 1), value |-> Backs(components, n - 1)]
        OBVIOUS
    <2>4. c \in Component /\ Plain(c) /\ b \in Seq(Units)
        BY <1>1, <1>4, <2>1, <2>2
    <2>5. /\ n - 1 \in 0 .. size /\ n # 0
          /\ size - (n - 1) \in 1 .. size /\ (size - (n - 1)) - 1 = size - n
          /\ size + 1 - (size - (n - 1)) = n
        BY <1>1
    <2>6. w[size - (n - 1)] = WriteComponent(b, c)
        BY <1>2, <2>1, <2>2, <2>5
    <2>7. so.r.ok = TRUE /\ so.r.body = WriteComponent(b, c)
          /\ so.value = Backs(components, n - 1)
        <3> HIDE DEF reader
        <3> QED
            BY <1>5, <2>3, <2>5, <2>6
    <2>8. ReadComponent(so) =
              [r |-> [ok |-> TRUE, body |-> b, value |-> LastOf(c)],
               value |-> Append(so.value, Back(c))]
        BY <2>4, <2>7, ComponentBack
    <2>9. Append(so.value, Back(c)) = Backs(components, n)
        BY <2>1, <2>7, BacksAre DEF size
    <2>10. reader(n) = [ok |-> TRUE, body |-> b, value |-> LastOf(c)]
        BY <2>1, <2>2, <2>5
    <2> QED
        BY <2>3, <2>8, <2>9, <2>10
<1>7. \A n \in 1 .. size : n - 1 \in 0 .. size /\ n \in 0 .. size /\ n # 0
    BY <1>1
<1>15. f[0] = [r |-> r, value |-> <<>>]
    BY <1>1, BacksAre
<1>8. Q(f)
    <2> HIDE DEF reader
    <2>1. \A n \in 1 .. size : f[n] = ReadComponent(f[n - 1])
        BY <1>6, <1>7
    <2>2. f = [n \in 0 .. size |-> f[n]]
        OBVIOUS
    <2> HIDE DEF f
    <2>3. \A n \in 0 .. size :
              f[n] = IF n = 0 THEN [r |-> r, value |-> <<>>] ELSE ReadComponent(f[n - 1])
        <3> SUFFICES ASSUME NEW n \in 0 .. size
                     PROVE  f[n] = IF n = 0 THEN [r |-> r, value |-> <<>>]
                                   ELSE ReadComponent(f[n - 1])
            OBVIOUS
        <3>1. CASE n = 0
            BY <1>15, <3>1
        <3>2. CASE n # 0
            <4>1. n \in 1 .. size
                BY <1>1, <3>2
            <4> QED
                BY <2>1, <3>2, <4>1
        <3> QED
            BY <3>1, <3>2
    <2> QED
        BY <2>2, <2>3 DEF IsReadComponents
<1>9. ReadComponents(r) = g[size]
    BY <1>3 DEF ReadComponents, IsReadComponents
<1>10. Q(g)
    <2> HIDE DEF Q, f
    <2> QED
        BY <1>8
<1> HIDE DEF g, reader, f
<1>11. \A n \in 0 .. size : g[n] = f[n]
    <2> DEFINE S == {n \in 0 .. size : g[n] = f[n]}
    <2>1. 0 \in S
        BY <1>1, <1>8, <1>10 DEF IsReadComponents
    <2>2. ASSUME NEW n \in 1 .. size, n - 1 \in S PROVE n \in S
        <3>1. g[n] = ReadComponent(g[n - 1]) /\ f[n] = ReadComponent(f[n - 1])
            BY <1>7, <1>8, <1>10 DEF IsReadComponents
        <3>2. g[n - 1] = f[n - 1]
            BY <2>2
        <3> QED
            BY <1>7, <3>1, <3>2
    <2> HIDE DEF S
    <2>3. \A n \in 0 .. size : n \in S
        BY <1>1, <2>1, <2>2, UpTo
    <2> QED
        BY <2>3 DEF S
<1>12. size \in 0 .. size /\ size - size = 0
    BY <1>1
<1>13. g[size] = [r |-> reader(size), value |-> Backs(components, size)]
    BY <1>11, <1>12 DEF f
<1>14. reader(size).ok = TRUE /\ reader(size).body = body
    BY <1>2, <1>5, <1>12
<1>16. WriteComponents(body, components) \in Seq(Units)
    BY <1>2, <1>12
<1> QED
    BY <1>9, <1>13, <1>14, <1>16 DEF size

-----------------------------------------------------------------------------
(* Reading an object reverses writing it *)

Object == [name : Names, parrentID : Id, childrenIds : Seq(Nat), componenten : Components]

\* What load makes of an object
BackObject(o) ==
    [name |-> o.name, parrentID |-> o.parrentID, childrenIds |-> o.childrenIds,
     componenten |-> Backs(o.componenten, Len(o.componenten))]

\* The reader after the object
AfterObject(body, o) ==
    ReadComponents([ok |-> TRUE, body |-> WriteComponents(body, o.componenten),
                    value |-> Len(o.componenten)]).r

\* Writing components gives a body.
LEMMA Written ==
    ASSUME NEW body \in Seq(Units), NEW components \in Components
    PROVE  WriteComponents(body, components) \in Seq(Units)
<1>1. PICK w \in [0 .. Len(components) -> Seq(Units)] :
          WriteComponents(body, components) = w[Len(components)]
    BY WrittenComponents
<1>2. Len(components) \in 0 .. Len(components)
    BY LenProperties DEF Components
<1> QED
    BY <1>1, <1>2

\* The parts of what GetValue returns.
LEMMA Got ==
    ASSUME NEW body \in Seq(Units), NEW width \in Widths, NEW value \in Values,
           NEW r, r.ok = TRUE, r.body = PutValue(body, width, value)
    PROVE  /\ GetValue(r, width).ok = TRUE /\ GetValue(r, width).body = body
           /\ GetValue(r, width).value = value
<1> DEFINE got == GetValue(r, width)
<1>1. got = [ok |-> TRUE, body |-> body, value |-> value]
    BY GotValue
<1> HIDE DEF got
<1>2. got.ok = TRUE /\ got.body = body /\ got.value = value
    BY <1>1
<1> QED
    BY <1>2 DEF got

Number == Nat

\* The reader and the scene once the object is in it
ReadBack(so, body, i, o) ==
    [r |-> AfterObject(body, o),
     value |-> Inserted(so.value, [j \in {i} |-> BackObject(o)])]

\* GameObject::set reads what GameObject::serialize wrote, and leaves what lay
\* below.
LEMMA ObjectBack ==
    ASSUME NEW body \in Seq(Units), NEW i \in Number, NEW o \in Object, NEW so,
           so.r.ok, so.r.body = WriteObject(body, i, o)
    PROVE  /\ WriteObject(body, i, o) \in Seq(Units)
           /\ ReadObject(so) = ReadBack(so, body, i, o)
           /\ AfterObject(body, o).ok /\ AfterObject(body, o).body = body
<1> DEFINE cs == o.componenten
           turned == Turned(o.childrenIds)
           b1 == WriteComponents(body, cs)
           b2 == PutValue(b1, IntWidth, Len(cs))
           b3 == PutValues(b2, IntWidth, turned)
           b4 == PutValue(b3, IntWidth, Len(turned))
           b5 == PutValue(b4, IntWidth, o.parrentID)
           b6 == PutString(b5, o.name)
           b7 == PutValue(b6, IntWidth, i)
           b8 == PutString(b7, TypeName["GameObject"])
<1>1. /\ o.name \in Seq(Nat) /\ o.parrentID \in Values /\ o.childrenIds \in Seq(Nat)
      /\ cs \in Components /\ Len(cs) \in Nat /\ Len(cs) \in Values /\ i \in Values
      /\ TypeName["GameObject"] \in Seq(Nat) /\ IntWidth \in Widths
    <2>1. o.name \in Names /\ o.parrentID \in Id /\ o.childrenIds \in Seq(Nat) /\ cs \in Components
        BY DEF Object
    <2>2. Len(cs) \in Nat
        BY <2>1, LenProperties DEF Components
    <2> QED
        BY <2>1, <2>2, StringAssumption DEF Values, Id, EMPTY_ID, Widths, Number
<1>2. /\ Reverse(turned) = o.childrenIds /\ Reverse(o.childrenIds) = turned
      /\ turned \in Seq(Nat) /\ Len(turned) = Len(o.childrenIds)
    BY <1>1, TurnedTwice
<1>3. turned \in Seq(Values) /\ Len(turned) \in Nat /\ Len(turned) \in Values
    BY <1>2, SeqMore, LenProperties DEF Values
<1>4. WriteObject(body, i, o) = b8
    BY <1>2 DEF WriteObject, WriteObjectWith, PutInt
<1>5. [k \in 1 .. Len(turned) |-> turned[Len(turned) + 1 - k]] = o.childrenIds
    <2> DEFINE n == Len(turned)
    <2>1. Reverse(turned) = [k \in 1 .. n |-> turned[(n - k) + 1]]
        BY DEF Reverse
    <2>2. \A k \in 1 .. n : (n - k) + 1 = n + 1 - k
        BY <1>3
    <2> HIDE DEF turned, n
    <2>3. [k \in 1 .. n |-> turned[(n - k) + 1]] = [k \in 1 .. n |-> turned[n + 1 - k]]
        BY <2>2
    <2> QED
        BY <1>2, <2>1, <2>3 DEF n
<1> HIDE DEF turned
<1>6. b1 \in Seq(Units)
    BY <1>1, Written
<1> HIDE DEF b1
<1>7. b2 \in Seq(Units)
    BY <1>1, <1>6, Put
<1> HIDE DEF b2
<1>8. b3 \in Seq(Units)
    <2>1. PICK q : q = [ok |-> TRUE, body |-> b3]
        OBVIOUS
    <2>2. q.ok = TRUE /\ q.body = PutValues(b2, IntWidth, turned)
        BY <2>1
    <2> QED
        BY <1>1, <1>3, <1>7, <2>2, GotValues
<1> HIDE DEF b3
<1>9. b4 \in Seq(Units)
    BY <1>1, <1>3, <1>8, Put
<1> HIDE DEF b4
<1>10. b5 \in Seq(Units)
    BY <1>1, <1>9, Put
<1> HIDE DEF b5
<1>11. b6 \in Seq(Units)
    <2>1. PICK q : q = [ok |-> TRUE, body |-> b6]
        OBVIOUS
    <2>2. q.ok = TRUE /\ q.body = PutString(b5, o.name)
        BY <2>1
    <2> QED
        BY <1>1, <1>10, <2>2, GotString
<1> HIDE DEF b6
<1>12. b7 \in Seq(Units)
    BY <1>1, <1>11, Put
<1> HIDE DEF b7
<1> DEFINE type == GetString(so.r)
           id == GetValue(type, IntWidth)
           name == GetString(id)
           parrentID == GetValue(name, IntWidth)
           size == GetValue(parrentID, IntWidth)
           children == GetValues(size, IntWidth, size.value)
           number == GetValue(children, IntWidth)
           components == ReadComponents(number)
           read == [name |-> name.value, parrentID |-> parrentID.value,
                    childrenIds |-> children.value, componenten |-> components.value]
<1>20. ReadObject(so) =
           IF ~components.r.ok THEN [r |-> Failed, value |-> so.value]
           ELSE [r |-> components.r,
                 value |-> Inserted(so.value, [j \in {id.value} |-> read])]
    BY DEF ReadObject, GetInt
<1>13. b8 \in Seq(Units) /\ type.ok = TRUE /\ type.body = b7
    <2>1. so.r.body = PutString(b7, TypeName["GameObject"])
        BY <1>4
    <2> HIDE DEF b8
    <2>2. b8 \in Seq(Units) /\ type = [ok |-> TRUE, body |-> b7, value |-> TypeName["GameObject"]]
        BY <1>1, <1>12, <2>1, GotString DEF b8
    <2> HIDE DEF type
    <2> QED
        BY <2>2
<1> HIDE DEF b8, type
<1>14. id.ok = TRUE /\ id.body = b6 /\ id.value = i
    <2>1. type.ok = TRUE /\ type.body = PutValue(b6, IntWidth, i)
        BY <1>13 DEF b7
    <2>2. PICK v : v = i
        OBVIOUS
    <2>3. v \in Values /\ IntWidth \in Widths /\ type.body = PutValue(b6, IntWidth, v)
        BY <1>1, <2>1, <2>2
    <2>4. id = [ok |-> TRUE, body |-> b6, value |-> v]
        BY <1>11, <2>1, <2>3, GotValue
    <2> HIDE DEF id
    <2> QED
        BY <2>2, <2>4
<1> HIDE DEF id
<1>15. name.ok = TRUE /\ name.body = b5 /\ name.value = o.name
    <2>1. name = [ok |-> TRUE, body |-> b5, value |-> o.name]
        BY <1>1, <1>10, <1>14, GotString DEF b6
    <2> HIDE DEF name
    <2> QED
        BY <2>1
<1> HIDE DEF name
<1>16. parrentID.ok = TRUE /\ parrentID.body = b4 /\ parrentID.value = o.parrentID
    <2>1. name.ok = TRUE /\ name.body = PutValue(b4, IntWidth, o.parrentID)
        BY <1>15 DEF b5
    <2>2. PICK v : v = o.parrentID
        OBVIOUS
    <2>3. v \in Values /\ IntWidth \in Widths /\ name.body = PutValue(b4, IntWidth, v)
        BY <1>1, <2>1, <2>2
    <2>4. parrentID = [ok |-> TRUE, body |-> b4, value |-> v]
        BY <1>9, <2>1, <2>3, GotValue
    <2> HIDE DEF parrentID
    <2> QED
        BY <2>2, <2>4
<1> HIDE DEF parrentID
<1>17. size.ok = TRUE /\ size.body = b3 /\ size.value = Len(turned)
    BY <1>1, <1>3, <1>8, <1>16, Got DEF b4
<1> HIDE DEF size
<1>18. children.ok = TRUE /\ children.body = b2 /\ children.value = o.childrenIds
    <2>1. children = [ok |-> TRUE, body |-> b2,
                      value |-> [k \in 1 .. Len(turned) |-> turned[Len(turned) + 1 - k]]]
        BY <1>1, <1>3, <1>7, <1>17, GotValues DEF b3
    <2> HIDE DEF children
    <2> QED
        BY <1>5, <2>1
<1> HIDE DEF children
<1>19. number = [ok |-> TRUE, body |-> b1, value |-> Len(cs)]
    BY <1>1, <1>6, <1>18, GotValue DEF b2
<1> HIDE DEF number
<1>21. /\ components.r.ok = TRUE /\ components.r.body = body
       /\ components.value = Backs(cs, Len(cs))
    <2>1. number.ok = TRUE /\ number.body = WriteComponents(body, cs) /\ number.value = Len(cs)
        BY <1>19 DEF b1
    <2> QED
        BY <1>1, <2>1, ComponentsBack
<1>22. components.r = AfterObject(body, o)
    BY <1>19 DEF b1, AfterObject
<1> HIDE DEF components
<1>23. read = BackObject(o)
    BY <1>15, <1>16, <1>18, <1>21 DEF BackObject
<1> HIDE DEF read, cs
<1>24. ReadObject(so) =
           [r |-> components.r, value |-> Inserted(so.value, [j \in {i} |-> read])]
    BY <1>14, <1>20, <1>21
<1> QED
    BY <1>4, <1>13, <1>21, <1>22, <1>23, <1>24 DEF ReadBack

-----------------------------------------------------------------------------
(* Reading a scene reverses writing it *)

LEMMA AscendingIds ==
    ASSUME NEW c \in Nat, NEW k \in 1 .. c
    PROVE  /\ Cardinality(0 .. c - 1) = c
           /\ Ascending(0 .. c - 1)[k] = k - 1
<1> DEFINE ids == 0 .. c - 1
           Below(i) == {j \in ids : j < i}
<1>1. Cardinality(ids) = c
    <2>1. 0 \in Int /\ c - 1 \in Int /\ ~(0 > c - 1) /\ (c - 1) - 0 + 1 = c
        OBVIOUS
    <2> QED
        BY <2>1, FS_Interval
<1>2. ASSUME NEW i \in ids PROVE Cardinality(Below(i)) = i
    <2>1. Below(i) = 0 .. i - 1
        OBVIOUS
    <2>2. 0 \in Int /\ i - 1 \in Int
        OBVIOUS
    <2>3. Cardinality(0 .. i - 1) = IF 0 > i - 1 THEN 0 ELSE (i - 1) - 0 + 1
        BY <2>2, FS_Interval
    <2>4. (IF 0 > i - 1 THEN 0 ELSE (i - 1) - 0 + 1) = i
        OBVIOUS
    <2> QED
        BY <2>1, <2>3, <2>4
<1>3. k - 1 \in ids
    OBVIOUS
<1> DEFINE Is(i) == Cardinality(Below(i)) = k - 1
<1>4. (CHOOSE i \in ids : Is(i)) = k - 1
    <2>1. \A i \in ids : Is(i) <=> i = k - 1
        BY <1>2
    <2> HIDE DEF Is, ids
    <2> QED
        BY <1>3, <2>1
<1>5. Ascending(ids) = [n \in 1 .. c |->
                           CHOOSE i \in ids : Cardinality(Below(i)) = n - 1]
    BY <1>1 DEF Ascending
<1>6. Ascending(ids)[k] = CHOOSE i \in ids : Is(i)
    BY <1>5
<1> QED
    BY <1>1, <1>4, <1>6

Storage(c) == [0 .. c - 1 -> Object]

\* What the body is after each object has been written
IsWrittenObjects(w, objs, c) ==
    w = [n \in 0 .. c |->
            IF n = 0 THEN <<>>
            ELSE WriteObject(w[n - 1], Ascending(0 .. c - 1)[n],
                             objs[Ascending(0 .. c - 1)[n]])]

\* The loop over the map has a body after each turn, with ids in ascending
\* order.
LEMMA WrittenObjects ==
    ASSUME NEW c \in Nat, NEW objs \in Storage(c)
    PROVE  \E w \in [0 .. c -> Seq(Units)] :
               /\ \A n \in 1 .. c : w[n] = WriteObject(w[n - 1], n - 1, objs[n - 1])
               /\ WriteObjects(objs) = w[c]
<1> DEFINE D == Seq(Units)
           Q(w) == IsWrittenObjects(w, objs, c)
           g == CHOOSE w : Q(w)
           step == [n \in 1 .. c |-> [b \in D |-> WriteObject(b, n - 1, objs[n - 1])]]
<1>1. \A n \in 1 .. c : n - 1 \in Nat /\ n - 1 \in 0 .. c - 1 /\ objs[n - 1] \in Object
    BY DEF Storage
<1>2. \A n \in 1 .. c : Ascending(0 .. c - 1)[n] = n - 1
    BY AscendingIds
<1>20. DOMAIN objs = 0 .. c - 1 /\ Cardinality(DOMAIN objs) = c
    <2>1. DOMAIN objs = 0 .. c - 1
        BY DEF Storage
    <2>2. CASE c = 0
        <3>1. 0 .. c - 1 = {}
            BY <2>2
        <3> QED
            BY <2>1, <2>2, <3>1, FS_EmptySet
    <2>3. CASE c # 0
        <3>1. c \in 1 .. c
            BY <2>3
        <3> QED
            BY <2>1, <3>1, AscendingIds
    <2> QED
        BY <2>2, <2>3
<1>3. ASSUME NEW b \in D, NEW n \in 1 .. c
      PROVE  WriteObject(b, n - 1, objs[n - 1]) \in D
    <2>1. PICK o : o = objs[n - 1]
        OBVIOUS
    <2>2. PICK i : i = n - 1
        OBVIOUS
    <2>3. o \in Object /\ i \in Number
        BY <1>1, <2>1, <2>2 DEF Number
    <2>4. PICK so : so = [r |-> [ok |-> TRUE, body |-> WriteObject(b, i, o)]]
        OBVIOUS
    <2>5. so.r.ok /\ so.r.body = WriteObject(b, i, o)
        BY <2>4
    <2>6. WriteObject(b, i, o) \in Seq(Units)
        BY <2>3, <2>5, ObjectBack
    <2> QED
        BY <2>1, <2>2, <2>6
<1>6. <<>> \in D
    BY EmptySeq
<1> HIDE DEF D
<1>4. step \in [1 .. c -> [D -> D]]
    BY <1>3
<1>5. \A n \in 1 .. c : \A b \in D : step[n][b] = WriteObject(b, n - 1, objs[n - 1])
    OBVIOUS
<1> HIDE DEF step
<1>7. PICK f : Recursive(f, D, <<>>, c, step)
    BY <1>4, <1>6, Recursion
<1>17. /\ f \in [0 .. c -> D] /\ f[0] = <<>>
       /\ \A n \in 1 .. c : f[n] = step[n][f[n - 1]]
    BY <1>7 DEF Recursive
<1>8. \A n \in 1 .. c : n - 1 \in 0 .. c /\ n \in 0 .. c /\ n # 0
    OBVIOUS
<1>9. \A n \in 1 .. c : f[n] = WriteObject(f[n - 1], n - 1, objs[n - 1])
    BY <1>5, <1>8, <1>17
<1> DEFINE ids == Ascending(0 .. c - 1)
<1>10. Q(f)
    <2> HIDE DEF ids
    <2>1. f = [n \in 0 .. c |-> f[n]]
        BY <1>17
    <2>2. \A n \in 0 .. c :
              f[n] = IF n = 0 THEN <<>> ELSE WriteObject(f[n - 1], ids[n], objs[ids[n]])
        <3> SUFFICES ASSUME NEW n \in 0 .. c
                     PROVE  f[n] = IF n = 0 THEN <<>>
                                   ELSE WriteObject(f[n - 1], ids[n], objs[ids[n]])
            OBVIOUS
        <3>1. CASE n = 0
            BY <1>17, <3>1
        <3>2. CASE n # 0
            <4>1. n \in 1 .. c
                BY <3>2
            <4>2. ids[n] = n - 1
                BY <1>2, <4>1 DEF ids
            <4> QED
                BY <1>9, <3>2, <4>1, <4>2
        <3> QED
            BY <3>1, <3>2
    <2>3. f = [n \in 0 .. c |->
                  IF n = 0 THEN <<>> ELSE WriteObject(f[n - 1], ids[n], objs[ids[n]])]
        BY <2>1, <2>2
    <2> QED
        BY <2>3 DEF IsWrittenObjects, ids
<1>11. WriteObjects(objs) = g[c]
    BY <1>20 DEF WriteObjects, IsWrittenObjects
<1>12. Q(g)
    <2> HIDE DEF Q
    <2> QED
        BY <1>10
<1> HIDE DEF g, ids
<1>13. g = [n \in 0 .. c |->
               IF n = 0 THEN <<>> ELSE WriteObject(g[n - 1], ids[n], objs[ids[n]])]
    BY <1>12 DEF IsWrittenObjects, ids
<1>14. g[0] = <<>> /\ \A n \in 1 .. c : g[n] = WriteObject(g[n - 1], n - 1, objs[n - 1])
    <2>1. \A n \in 1 .. c : ids[n] = n - 1
        BY <1>2 DEF ids
    <2> QED
        BY <1>8, <1>13, <2>1
<1>15. \A n \in 0 .. c : g[n] \in D
    <2> DEFINE S == {n \in 0 .. c : g[n] \in D}
    <2>1. 0 \in S
        BY <1>6, <1>14
    <2>2. \A n \in 1 .. c : n - 1 \in S => n \in S
        BY <1>3, <1>8, <1>14
    <2> HIDE DEF S
    <2>3. \A n \in 0 .. c : n \in S
        BY <2>1, <2>2, UpTo
    <2> QED
        BY <2>3 DEF S
<1>16. g \in [0 .. c -> D]
    BY <1>13, <1>15
<1> QED
    BY <1>11, <1>14, <1>16 DEF D

\* The last n objects of a scene, as load makes them
Loaded(objs, c, n) == [j \in c - n .. c - 1 |-> BackObject(objs[j])]

\* The objects read so far, from the highest id down.
LEMMA LoadedGrows ==
    ASSUME NEW c \in Nat, NEW objs
    PROVE  /\ Loaded(objs, c, 0) = <<>>
           /\ \A n \in 1 .. c :
                  Inserted(Loaded(objs, c, n - 1), [j \in {c - n} |-> BackObject(objs[c - n])])
                    = Loaded(objs, c, n)
<1>1. Loaded(objs, c, 0) = <<>>
    <2>1. PICK t : t = [j \in c - 0 .. c - 1 |-> BackObject(objs[j])]
        OBVIOUS
    <2>2. c - 0 .. c - 1 = {} /\ 1 .. 0 = {}
        OBVIOUS
    <2>3. t \in [1 .. 0 -> Nat]
        BY <2>1, <2>2
    <2>4. t \in Seq(Nat) /\ Len(t) = 0
        BY <2>3, AsSeq
    <2>5. t = <<>>
        BY <2>4, EmptySeq
    <2> QED
        BY <2>1, <2>5 DEF Loaded
<1>2. ASSUME NEW n \in 1 .. c
      PROVE  Inserted(Loaded(objs, c, n - 1), [j \in {c - n} |-> BackObject(objs[c - n])])
                 = Loaded(objs, c, n)
    <2>1. PICK f : f = [j \in c - (n - 1) .. c - 1 |-> BackObject(objs[j])]
        OBVIOUS
    <2>2. PICK h : h = [j \in {c - n} |-> BackObject(objs[c - n])]
        OBVIOUS
    <2>3. DOMAIN f = c - (n - 1) .. c - 1 /\ DOMAIN h = {c - n}
        BY <2>1, <2>2
    <2>4. /\ (c - (n - 1) .. c - 1) \cup {c - n} = c - n .. c - 1
          /\ \A j \in c - n .. c - 1 : j \in c - (n - 1) .. c - 1 <=> j # c - n
        OBVIOUS
    <2>5. \A j \in c - n .. c - 1 :
              (IF j \in DOMAIN f THEN f[j] ELSE h[j]) = BackObject(objs[j])
        <3> SUFFICES ASSUME NEW j \in c - n .. c - 1
                     PROVE  (IF j \in DOMAIN f THEN f[j] ELSE h[j]) = BackObject(objs[j])
            OBVIOUS
        <3>1. CASE j = c - n
            BY <2>2, <2>3, <2>4, <3>1
        <3>2. CASE j # c - n
            BY <2>1, <2>3, <2>4, <3>2
        <3> QED
            BY <3>1, <3>2
    <2>6. Inserted(f, h) = [j \in c - n .. c - 1 |-> IF j \in DOMAIN f THEN f[j] ELSE h[j]]
        BY <2>3, <2>4 DEF Inserted
    <2>7. Inserted(f, h) = [j \in c - n .. c - 1 |-> BackObject(objs[j])]
        BY <2>5, <2>6
    <2>8. f = Loaded(objs, c, n - 1)
        BY <2>1 DEF Loaded
    <2> QED
        BY <2>2, <2>7, <2>8 DEF Loaded
<1> QED
    BY <1>1, <1>2

\* What the reader has after each object has been read
IsReadObjects(R, r, size) ==
    R = [n \in 0 .. size |->
            IF n = 0 THEN [r |-> r, value |-> <<>>] ELSE ReadObject(R[n - 1])]

\* ObjectStorrage::set reads every object that serialize wrote.
LEMMA ObjectsBack ==
    ASSUME NEW c \in Nat, NEW objs \in Storage(c), NEW r,
           r.ok, r.body = WriteObjects(objs), r.value = c
    PROVE  /\ ReadObjects(r).r.ok
           /\ ReadObjects(r).value = Loaded(objs, c, c)
<1> DEFINE Q(R) == IsReadObjects(R, r, c)
           g == CHOOSE R : Q(R)
<1>1. PICK w \in [0 .. c -> Seq(Units)] :
          /\ \A n \in 1 .. c : w[n] = WriteObject(w[n - 1], n - 1, objs[n - 1])
          /\ WriteObjects(objs) = w[c]
    BY WrittenObjects
<1>2. Times(r.value) = c
    BY DEF Times
<1> DEFINE reader(n) == IF n = 0 THEN r ELSE AfterObject(w[c - n], objs[c - n])
           f == [n \in 0 .. c |-> [r |-> reader(n), value |-> Loaded(objs, c, n)]]
<1>3. \A n \in 0 .. c : c - n \in 0 .. c /\ w[c - n] \in Seq(Units)
    BY <1>1
<1>4. ASSUME NEW n \in 1 .. c, NEW so, so.r.ok, so.r.body = w[c - (n - 1)]
      PROVE  /\ ReadObject(so) =
                    [r |-> AfterObject(w[c - n], objs[c - n]),
                     value |-> Inserted(so.value, [j \in {c - n} |-> BackObject(objs[c - n])])]
             /\ AfterObject(w[c - n], objs[c - n]).ok
             /\ AfterObject(w[c - n], objs[c - n]).body = w[c - n]
    <2>1. /\ c - (n - 1) \in 1 .. c /\ (c - (n - 1)) - 1 = c - n
          /\ c - n \in 0 .. c - 1 /\ c - n \in Nat /\ n \in 0 .. c
        OBVIOUS
    <2>2. PICK o : o = objs[c - n]
        OBVIOUS
    <2>3. PICK b : b = w[c - n]
        OBVIOUS
    <2>4. PICK i : i = c - n
        OBVIOUS
    <2>5. o \in Object /\ b \in Seq(Units) /\ i \in Number
        BY <1>3, <2>1, <2>2, <2>3, <2>4 DEF Storage, Number
    <2>6. so.r.ok /\ so.r.body = WriteObject(b, i, o)
        BY <1>1, <1>4, <2>1, <2>2, <2>3, <2>4
    <2>8. ReadObject(so) = ReadBack(so, b, i, o)
        BY <2>5, <2>6, ObjectBack
    <2>9. AfterObject(b, o).ok /\ AfterObject(b, o).body = b
        BY <2>5, <2>6, ObjectBack
    <2>7. /\ ReadObject(so) =
                 [r |-> AfterObject(b, o),
                  value |-> Inserted(so.value, [j \in {i} |-> BackObject(o)])]
          /\ AfterObject(b, o).ok /\ AfterObject(b, o).body = b
        BY <2>8, <2>9 DEF ReadBack
    <2> QED
        BY <2>2, <2>3, <2>4, <2>7
<1>7. \A n \in 1 .. c : n - 1 \in 0 .. c /\ n \in 0 .. c /\ n # 0
    OBVIOUS
<1>5. \A n \in 0 .. c : reader(n).ok /\ reader(n).body = w[c - n]
    <2> DEFINE S == {n \in 0 .. c : reader(n).ok /\ reader(n).body = w[c - n]}
    <2>1. 0 \in S
        <3>1. reader(0) = r /\ c - 0 = c
            OBVIOUS
        <3> HIDE DEF reader
        <3> QED
            BY <1>1, <3>1
    <2>2. ASSUME NEW n \in 1 .. c, n - 1 \in S PROVE n \in S
        <3>1. reader(n - 1).ok /\ reader(n - 1).body = w[c - (n - 1)]
            BY <2>2
        <3>2. PICK so : so = [r |-> reader(n - 1)]
            OBVIOUS
        <3>3. reader(n) = AfterObject(w[c - n], objs[c - n])
            BY <1>7
        <3> HIDE DEF reader
        <3>4. so.r.ok /\ so.r.body = w[c - (n - 1)]
            BY <3>1, <3>2
        <3>5. reader(n).ok /\ reader(n).body = w[c - n]
            BY <1>4, <3>3, <3>4
        <3> QED
            BY <1>7, <3>5
    <2> HIDE DEF S
    <2>3. \A n \in 0 .. c : n \in S
        BY <2>1, <2>2, UpTo
    <2> QED
        BY <2>3 DEF S
<1>6. ASSUME NEW n \in 1 .. c
      PROVE  ReadObject([r |-> reader(n - 1), value |-> Loaded(objs, c, n - 1)])
                 = [r |-> reader(n), value |-> Loaded(objs, c, n)]
    <2>1. PICK so : so = [r |-> reader(n - 1), value |-> Loaded(objs, c, n - 1)]
        OBVIOUS
    <2>2. reader(n) = AfterObject(w[c - n], objs[c - n])
        BY <1>7
    <2>3. PICK x : x = [j \in {c - n} |-> BackObject(objs[c - n])]
        OBVIOUS
    <2> HIDE DEF reader
    <2>4. so.r.ok /\ so.r.body = w[c - (n - 1)] /\ so.value = Loaded(objs, c, n - 1)
        BY <1>5, <1>7, <2>1
    <2>5. ReadObject(so) = [r |-> reader(n), value |-> Inserted(so.value, x)]
        BY <1>4, <2>2, <2>3, <2>4
    <2>6. Inserted(so.value, x) = Loaded(objs, c, n)
        BY <2>3, <2>4, LoadedGrows
    <2> QED
        BY <2>1, <2>5, <2>6
<1>15. f[0] = [r |-> r, value |-> <<>>]
    BY LoadedGrows
<1>8. Q(f)
    <2> HIDE DEF reader
    <2>1. \A n \in 1 .. c : f[n] = ReadObject(f[n - 1])
        BY <1>6, <1>7
    <2>2. f = [n \in 0 .. c |-> f[n]]
        OBVIOUS
    <2> HIDE DEF f
    <2>3. \A n \in 0 .. c :
              f[n] = IF n = 0 THEN [r |-> r, value |-> <<>>] ELSE ReadObject(f[n - 1])
        <3> SUFFICES ASSUME NEW n \in 0 .. c
                     PROVE  f[n] = IF n = 0 THEN [r |-> r, value |-> <<>>]
                                   ELSE ReadObject(f[n - 1])
            OBVIOUS
        <3>1. CASE n = 0
            BY <1>15, <3>1
        <3>2. CASE n # 0
            <4>1. n \in 1 .. c
                BY <3>2
            <4> QED
                BY <2>1, <3>2, <4>1
        <3> QED
            BY <3>1, <3>2
    <2> QED
        BY <2>2, <2>3 DEF IsReadObjects
<1>9. ReadObjects(r) = g[c]
    BY <1>2 DEF ReadObjects, IsReadObjects
<1>10. Q(g)
    <2> HIDE DEF Q, f
    <2> QED
        BY <1>8
<1> HIDE DEF g, reader, f
<1>11. \A n \in 0 .. c : g[n] = f[n]
    <2> DEFINE S == {n \in 0 .. c : g[n] = f[n]}
    <2>1. 0 \in S
        BY <1>8, <1>10 DEF IsReadObjects
    <2>2. ASSUME NEW n \in 1 .. c, n - 1 \in S PROVE n \in S
        <3>1. g[n] = ReadObject(g[n - 1]) /\ f[n] = ReadObject(f[n - 1])
            BY <1>7, <1>8, <1>10 DEF IsReadObjects
        <3>2. g[n - 1] = f[n - 1]
            BY <2>2
        <3> QED
            BY <1>7, <3>1, <3>2
    <2> HIDE DEF S
    <2>3. \A n \in 0 .. c : n \in S
        BY <2>1, <2>2, UpTo
    <2> QED
        BY <2>3 DEF S
<1>12. c \in 0 .. c
    OBVIOUS
<1>13. g[c] = [r |-> reader(c), value |-> Loaded(objs, c, c)]
    BY <1>11, <1>12 DEF f
<1> QED
    BY <1>5, <1>9, <1>12, <1>13

\* load reads back the scene that save wrote.
LEMMA SceneBack ==
    ASSUME NEW c \in Nat, NEW objs \in Storage(c)
    PROVE  /\ ReadScene(SerializedScene(objs)).r.ok
           /\ ReadScene(SerializedScene(objs)).value
                  = [i \in 0 .. c - 1 |-> BackObject(objs[i])]
           /\ SerializedScene(objs) # NoFile
<1> DEFINE b1 == WriteObjects(objs)
           b2 == PutValue(b1, SizeWidth, c)
           b3 == PutString(b2, TypeName["ObjectStorrage"])
           reader == Reader(b3)
           type == GetString(reader)
           size == GetValue(type, SizeWidth)
<1>1. Cardinality(DOMAIN objs) = c
    <2>1. DOMAIN objs = 0 .. c - 1
        BY DEF Storage
    <2>2. CASE c = 0
        <3>1. 0 .. c - 1 = {}
            BY <2>2
        <3> QED
            BY <2>1, <2>2, <3>1, FS_EmptySet
    <2>3. CASE c # 0
        <3>1. c \in 1 .. c
            BY <2>3
        <3> QED
            BY <2>1, <3>1, AscendingIds
    <2> QED
        BY <2>2, <2>3
<1>2. b1 \in Seq(Units)
    <2>1. PICK w \in [0 .. c -> Seq(Units)] : b1 = w[c]
        BY WrittenObjects
    <2> HIDE DEF b1
    <2> QED
        BY <2>1
<1>3. c \in Values /\ SizeWidth \in Widths /\ TypeName["ObjectStorrage"] \in Seq(Nat)
    BY StringAssumption DEF Values, Widths
<1>4. SerializedScene(objs) = b3
    BY <1>1 DEF SerializedScene
<1>5. ReadScene(b3) = ReadObjects(size)
    BY DEF ReadScene
<1> HIDE DEF b1
<1>6. b2 \in Seq(Units)
    BY <1>2, <1>3, Put
<1> HIDE DEF b2
<1>7. reader.ok = TRUE /\ reader.body = b3 /\ reader.ok
    <2> HIDE DEF b3
    <2> QED
        BY DEF Reader
<1> HIDE DEF reader
<1>8. b3 \in Seq(Units) /\ type = [ok |-> TRUE, body |-> b2, value |-> TypeName["ObjectStorrage"]]
    <2>1. reader.body = PutString(b2, TypeName["ObjectStorrage"])
        BY <1>7
    <2> HIDE DEF b3
    <2> QED
        BY <1>3, <1>6, <1>7, <2>1, GotString DEF b3
<1>9. type.ok = TRUE /\ type.body = b2
    <2> HIDE DEF type
    <2> QED
        BY <1>8
<1> HIDE DEF type
<1>10. size = [ok |-> TRUE, body |-> b1, value |-> c]
    BY <1>2, <1>3, <1>9, GotValue DEF b2
<1> HIDE DEF size
<1>11. size.ok /\ size.body = WriteObjects(objs) /\ size.value = c
    BY <1>10 DEF b1
<1>12. ReadObjects(size).r.ok /\ ReadObjects(size).value = Loaded(objs, c, c)
    BY <1>11, ObjectsBack
<1>13. Loaded(objs, c, c) = [i \in 0 .. c - 1 |-> BackObject(objs[i])]
    <2>1. c - c .. c - 1 = 0 .. c - 1
        OBVIOUS
    <2> QED
        BY <2>1 DEF Loaded
<1>14. b3 # <<>>
    <2> DEFINE chars == PutValues(b2, CharWidth, TypeName["ObjectStorrage"])
               u == Unit(IntWidth, Len(TypeName["ObjectStorrage"]))
    <2>1. b3 = Append(chars, u)
        BY DEF PutString, PutValue
    <2>2. chars \in Seq(Units)
        <3>1. PICK q : q = [ok |-> TRUE, body |-> chars]
            OBVIOUS
        <3>2. q.ok = TRUE /\ q.body = chars
            BY <3>1
        <3>3. TypeName["ObjectStorrage"] \in Seq(Values) /\ CharWidth \in Widths
            BY <1>3, SeqMore DEF Values, Widths
        <3> QED
            BY <1>6, <3>2, <3>3, GotValues
    <2>3. u \in Units
        BY <1>3, LenProperties DEF Unit, Units, Widths, Values
    <2> HIDE DEF chars, u, b3
    <2>4. Len(chars) \in Nat /\ Len(b3) = Len(chars) + 1
        BY <2>1, <2>2, <2>3, AppendProperties, LenProperties
    <2> QED
        BY <2>4, EmptySeq
<1> HIDE DEF b3
<1> QED
    BY <1>4, <1>5, <1>12, <1>13, <1>14 DEF NoFile

\* There is nothing to read before the first save.
LEMMA NothingToRead == ~ReadScene(NoFile).r.ok
<1> DEFINE r1 == Reader(NoFile)
           r2 == GetValue(r1, IntWidth)
           r3 == GetValues(r2, CharWidth, r2.value)
           r4 == GetString(r1)
           r5 == GetValue(r4, SizeWidth)
<1>1. r2 = Failed
    BY DEF GetValue, Reader, NoFile
<1> HIDE DEF r2
<1>2. r3 = Failed
    BY <1>1 DEF GetValues, Failed
<1> HIDE DEF r3
<1>3. r4 = Failed
    BY <1>2 DEF GetString, Failed, r2, r3
<1> HIDE DEF r4
<1>4. r5 = Failed
    BY <1>3 DEF GetValue, Failed
<1>5. ReadScene(NoFile) = ReadObjects(r5)
    BY DEF ReadScene, r4
<1> HIDE DEF r5
<1> DEFINE Q(R) == IsReadObjects(R, r5, 0)
           g == CHOOSE R : Q(R)
<1>6. Times(r5.value) = 0
    BY <1>4 DEF Times, Failed
<1>7. ReadObjects(r5) = g[0]
    BY <1>6 DEF ReadObjects, IsReadObjects
<1>8. \E R : Q(R)
    <2>1. PICK f : f = [n \in 0 .. 0 |-> [r |-> r5, value |-> <<>>]]
        OBVIOUS
    <2>2. f = [n \in 0 .. 0 |->
                  IF n = 0 THEN [r |-> r5, value |-> <<>>] ELSE ReadObject(f[n - 1])]
        BY <2>1
    <2> QED
        BY <2>2 DEF IsReadObjects
<1>9. Q(g)
    <2> HIDE DEF Q
    <2> QED
        BY <1>8
<1> HIDE DEF g
<1>10. g[0] = [r |-> r5, value |-> <<>>]
    BY <1>9 DEF IsReadObjects
<1>11. ReadScene(NoFile).r = Failed
    BY <1>4, <1>5, <1>7, <1>10
<1> QED
    BY <1>11 DEF Failed

-----------------------------------------------------------------------------
(* Sequences of children *)

Once(s, x) == \E n \in DOMAIN s : s[n] = x /\ \A m \in DOMAIN s : s[m] = x => m = n
Never(s, x) == \A n \in DOMAIN s : s[n] # x

\* erase() at a position
LEMMA Removed ==
    ASSUME NEW S, NEW s \in Seq(S), NEW k \in 1 .. Len(s)
    PROVE  /\ RemoveAt(s, k) \in Seq(S)
           /\ Len(RemoveAt(s, k)) = Len(s) - 1
           /\ \A p \in 1 .. Len(s) - 1 :
                  RemoveAt(s, k)[p] = IF p < k THEN s[p] ELSE s[p + 1]
<1> DEFINE a == SubSeq(s, 1, k - 1)
           b == SubSeq(s, k + 1, Len(s))
<1>1. a \in Seq(S) /\ Len(a) = k - 1 /\ \A p \in 1 .. k - 1 : a[p] = s[p]
    <2>1. \A i \in 1 .. k - 1 : s[i] \in S
        BY ElementOfSeq
    <2>2. 1 \in Int /\ k - 1 \in Int
        OBVIOUS
    <2>3. /\ a \in Seq(S)
          /\ Len(a) = IF 1 <= k - 1 THEN (k - 1) - 1 + 1 ELSE 0
          /\ \A i \in 1 .. (k - 1) - 1 + 1 : a[i] = s[1 + i - 1]
        BY <2>1, <2>2, SubSeqProperties
    <2> QED
        BY <2>3
<1>2. b \in Seq(S) /\ Len(b) = Len(s) - k /\ \A p \in 1 .. Len(s) - k : b[p] = s[k + p]
    <2>1. \A i \in k + 1 .. Len(s) : s[i] \in S
        BY ElementOfSeq
    <2>2. k + 1 \in Int /\ Len(s) \in Int
        OBVIOUS
    <2>3. /\ b \in Seq(S)
          /\ Len(b) = IF k + 1 <= Len(s) THEN Len(s) - (k + 1) + 1 ELSE 0
          /\ \A i \in 1 .. Len(s) - (k + 1) + 1 : b[i] = s[k + 1 + i - 1]
        BY <2>1, <2>2, SubSeqProperties
    <2> QED
        BY <2>3
<1>3. RemoveAt(s, k) = a \o b
    BY DEF RemoveAt
<1>4. /\ a \o b \in Seq(S)
      /\ Len(a \o b) = Len(a) + Len(b)
      /\ \A i \in 1 .. Len(a) + Len(b) :
             (a \o b)[i] = IF i <= Len(a) THEN a[i] ELSE b[i - Len(a)]
    BY <1>1, <1>2, ConcatProperties
<1> HIDE DEF a, b
<1>5. ASSUME NEW p \in 1 .. Len(s) - 1
      PROVE  (a \o b)[p] = IF p < k THEN s[p] ELSE s[p + 1]
    <2>1. CASE p < k
        BY <1>1, <1>2, <1>4, <2>1
    <2>2. CASE ~(p < k)
        <3>1. p - (k - 1) \in 1 .. Len(s) - k /\ k + (p - (k - 1)) = p + 1
            BY <2>2
        <3>2. p \in 1 .. Len(a) + Len(b) /\ ~(p <= Len(a)) /\ Len(a) = k - 1
            BY <1>1, <1>2, <2>2
        <3>3. (a \o b)[p] = b[p - (k - 1)]
            BY <1>4, <3>2
        <3>4. b[p - (k - 1)] = s[k + (p - (k - 1))]
            BY <1>2, <3>1
        <3> QED
            BY <2>2, <3>1, <3>3, <3>4
    <2> QED
        BY <2>1, <2>2
<1> QED
    BY <1>1, <1>2, <1>3, <1>4, <1>5

\* The first occurrence of an element
Place(s, x) == SelectInSeq(s, LAMBDA v : v = x)

\* std::find of something that is there gives its first position.
LEMMA FirstFound ==
    ASSUME NEW S, NEW s \in Seq(S), NEW x \in Range(s)
    PROVE  /\ Place(s, x) \in 1 .. Len(s) /\ s[Place(s, x)] = x
           /\ RemoveFirst(s, x) = RemoveAt(s, Place(s, x))
<1> DEFINE Found == {i \in 1 .. Len(s) : s[i] = x}
           k == Place(s, x)
<1>1. PICK i \in 1 .. Len(s) : s[i] = x
    BY LenProperties DEF Range
<1>2. k = IF Found # {} THEN Min(Found) ELSE 0
    BY DEF SelectInSeq, Place
<1>3. Found # {} /\ Found \in SUBSET Nat
    BY <1>1
<1>4. Min(Found) \in Found
    BY <1>3, MinIsMember
<1>5. k \in Found
    BY <1>2, <1>3, <1>4
<1>6. RemoveFirst(s, x) = RemoveAt(s, k)
    BY <1>1 DEF RemoveFirst, Place
<1> QED
    BY <1>5, <1>6

\* remChild
LEMMA RemovedChild ==
    ASSUME NEW S, NEW s \in Seq(S), NEW x \in Range(s), NEW t, t = RemoveFirst(s, x)
    PROVE  /\ t \in Seq(S)
           /\ \A n \in DOMAIN t : \E m \in DOMAIN s : t[n] = s[m]
           /\ \A y : Never(s, y) => Never(t, y)
           /\ \A y : y # x /\ Once(s, y) => Once(t, y)
           /\ Once(s, x) => Never(t, x)
<1> DEFINE k == Place(s, x)
           n == Len(s)
<1>1. n \in Nat /\ k \in 1 .. n /\ s[k] = x /\ t = RemoveAt(s, k)
    BY FirstFound, LenProperties
<1>2. /\ t \in Seq(S) /\ Len(t) = n - 1
      /\ \A p \in 1 .. n - 1 : t[p] = IF p < k THEN s[p] ELSE s[p + 1]
    <2> HIDE DEF k
    <2> QED
        BY <1>1, Removed
<1>3. DOMAIN s = 1 .. n /\ DOMAIN t = 1 .. n - 1
    BY <1>2, LenProperties
<1> HIDE DEF n, k
<1> DEFINE from(p) == IF p < k THEN p ELSE p + 1
<1>4. \A p \in 1 .. n - 1 : from(p) \in 1 .. n /\ from(p) # k /\ t[p] = s[from(p)]
    BY <1>1, <1>2
<1>5. \A p, q \in 1 .. n - 1 : from(p) = from(q) => p = q
    BY <1>1
<1>6. \A m \in 1 .. n : m # k => \E p \in 1 .. n - 1 : from(p) = m
    <2> SUFFICES ASSUME NEW m \in 1 .. n, m # k
                 PROVE  \E p \in 1 .. n - 1 : from(p) = m
        OBVIOUS
    <2>1. CASE m < k
        <3>1. m \in 1 .. n - 1 /\ from(m) = m
            BY <1>1, <2>1
        <3> HIDE DEF from
        <3> QED
            BY <3>1
    <2>2. CASE m > k
        <3>1. m - 1 \in 1 .. n - 1 /\ from(m - 1) = m
            BY <1>1, <2>2
        <3> HIDE DEF from
        <3> QED
            BY <3>1
    <2> QED
        BY <1>1, <2>1, <2>2
<1> HIDE DEF from
<1>7. \A p \in DOMAIN t : \E m \in DOMAIN s : t[p] = s[m]
    BY <1>3, <1>4
<1>8. \A y : Never(s, y) => Never(t, y)
    BY <1>3, <1>7 DEF Never
<1>9. ASSUME NEW y, y # x, Once(s, y) PROVE Once(t, y)
    <2>1. PICK m \in 1 .. n : s[m] = y /\ \A q \in 1 .. n : s[q] = y => q = m
        BY <1>3, <1>9 DEF Once
    <2>2. m # k
        BY <1>1, <1>9, <2>1
    <2>3. PICK p \in 1 .. n - 1 : from(p) = m
        BY <1>6, <2>2
    <2>4. t[p] = y
        BY <1>4, <2>1, <2>3
    <2>5. \A q \in 1 .. n - 1 : t[q] = y => q = p
        BY <1>4, <1>5, <2>1, <2>3
    <2> QED
        BY <1>3, <2>4, <2>5 DEF Once
<1>10. ASSUME Once(s, x) PROVE Never(t, x)
    <2>1. PICK m \in 1 .. n : s[m] = x /\ \A q \in 1 .. n : s[q] = x => q = m
        BY <1>3, <1>10 DEF Once
    <2>2. m = k
        BY <1>1, <2>1
    <2> QED
        BY <1>3, <1>4, <2>1, <2>2 DEF Never
<1> QED
    BY <1>2, <1>7, <1>8, <1>9, <1>10

\* t lists one x more than s.
OneMore(s, x, t) ==
    /\ \A n \in DOMAIN t : t[n] = x \/ \E m \in DOMAIN s : t[n] = s[m]
    /\ \A y : y # x /\ Never(s, y) => Never(t, y)
    /\ \A y : y # x /\ Once(s, y) => Once(t, y)
    /\ Never(s, x) => Once(t, x)

\* addChild
LEMMA AddedChild ==
    ASSUME NEW S, NEW s \in Seq(S), NEW x \in S, NEW t, t = Append(s, x)
    PROVE  t \in Seq(S) /\ OneMore(s, x, t)
<1> DEFINE n == Len(s)
<1>1. /\ t \in Seq(S) /\ Len(t) = n + 1 /\ t[n + 1] = x
      /\ \A p \in 1 .. n : t[p] = s[p]
    BY AppendProperties
<1>2. n \in Nat /\ DOMAIN s = 1 .. n /\ DOMAIN t = 1 .. n + 1
    BY <1>1, LenProperties
<1> HIDE DEF n
<1>3. \A p \in 1 .. n + 1 : p = n + 1 \/ p \in 1 .. n
    BY <1>2
<1>4. \A p \in 1 .. n : p \in 1 .. n + 1 /\ p # n + 1
    BY <1>2
<1>5. n + 1 \in 1 .. n + 1
    BY <1>2
<1>6. \A p \in DOMAIN t : t[p] = x \/ \E m \in DOMAIN s : t[p] = s[m]
    BY <1>1, <1>2, <1>3
<1>7. \A y : y # x /\ Never(s, y) => Never(t, y)
    BY <1>6 DEF Never
<1>8. ASSUME NEW y, y # x, Once(s, y) PROVE Once(t, y)
    <2>1. PICK m \in 1 .. n : s[m] = y /\ \A q \in 1 .. n : s[q] = y => q = m
        BY <1>2, <1>8 DEF Once
    <2>2. t[m] = y /\ m \in DOMAIN t
        BY <1>1, <1>2, <1>4, <2>1
    <2>3. \A q \in DOMAIN t : t[q] = y => q = m
        BY <1>1, <1>2, <1>3, <1>8, <2>1
    <2> QED
        BY <2>2, <2>3 DEF Once
<1>9. ASSUME Never(s, x) PROVE Once(t, x)
    <2>1. \A q \in DOMAIN t : t[q] = x => q = n + 1
        BY <1>1, <1>2, <1>3, <1>9 DEF Never
    <2> QED
        BY <1>1, <1>2, <1>5, <2>1 DEF Once
<1> QED
    BY <1>1, <1>6, <1>7, <1>8, <1>9 DEF OneMore

-----------------------------------------------------------------------------
(* The inductive invariant *)

\* Objects whose ids are 0 .. c - 1 and whose links stay among these.
Forest(c) ==
    {objs \in Storage(c) : \A i \in 0 .. c - 1 :
        /\ objs[i].parrentID \in 0 .. c - 1 \cup {EMPTY_ID}
        /\ \A n \in DOMAIN objs[i].childrenIds : objs[i].childrenIds[n] \in 0 .. c - 1}

\* LinksAgree, for any objects
Linked(objs, parted) ==
    \A i, p \in DOMAIN objs : i \notin parted =>
        IF objs[i].parrentID = p THEN Once(objs[p].childrenIds, i)
        ELSE Never(objs[p].childrenIds, i)

\* The pointer afterSet looks up leads to an object with a Transform.
Resolvable(objs) ==
    \A i \in DOMAIN objs :
        HasOf(objs[i], "Transform") /\ TransformOf(objs[i]).pGOID # EMPTY_ID
            => LET p == TransformOf(objs[i]).pGOID IN
               p \in DOMAIN objs /\ HasOf(objs[p], "Transform")

Sound(objs, c, parted) ==
    /\ c \in Nat
    /\ objs \in Forest(c)
    /\ Linked(objs, parted)
    /\ parted = {} => Resolvable(objs)

\* A Transform that does not know its parent yet waits for afterSet.
Parents(objs, excepted, waiting) ==
    \A i \in DOMAIN objs \ excepted : HasOf(objs[i], "Transform") =>
        \/ TransformOf(objs[i]).parrent = TransformOf(objs[i]).pGOID
        \/ i \in waiting /\ TransformOf(objs[i]).parrent = EMPTY_ID

\* ComponentsComplete, for the components of one object
Complete(cs) ==
    \A n \in DOMAIN cs :
        /\ \A required \in Range(Requires[cs[n].kind]) :
               \E m \in 1 .. n - 1 : cs[m].kind = required
        /\ cs[n].kind \in Lonly => \A m \in 1 .. n - 1 : cs[m].kind # cs[n].kind

AllComplete(objs) == \A i \in DOMAIN objs : Complete(objs[i].componenten)

\* serialize() of every component writes the name of its own type.
OwnNames == \A kind \in Kinds : WritesNameOf[kind] = kind

IInv ==
    /\ Sound(objects, counter, torn)
    /\ Sound(saved.objects, saved.counter, saved.torn)
    /\ Parents(objects, assigned, pending)
    /\ file # NoFile => file = SerializedScene(saved.objects)
    /\ UndefinedOnlyAfterFault
    /\ OwnNames => AllComplete(objects) /\ AllComplete(saved.objects)

\* What the definition of Forest says of each object.
LEMMA InForest ==
    ASSUME NEW c \in Nat, NEW objs \in Forest(c)
    PROVE  /\ DOMAIN objs = 0 .. c - 1 /\ objs \in Storage(c)
           /\ \A i \in 0 .. c - 1 :
                  /\ objs[i] \in Object
                  /\ objs[i].parrentID \in 0 .. c - 1 \cup {EMPTY_ID}
                  /\ objs[i].childrenIds \in Seq(Nat)
                  /\ \A n \in DOMAIN objs[i].childrenIds :
                         objs[i].childrenIds[n] \in 0 .. c - 1
                  /\ objs[i].componenten \in Components
BY DEF Forest, Storage, Object

\* Nothing but the links matters to these.
LEMMA SameLinks ==
    ASSUME NEW c \in Nat, NEW objs \in Forest(c), NEW new \in Storage(c),
           \A i \in 0 .. c - 1 : new[i].parrentID = objs[i].parrentID
                                 /\ new[i].childrenIds = objs[i].childrenIds
    PROVE  /\ new \in Forest(c)
           /\ \A parted : Linked(objs, parted) => Linked(new, parted)
<1>1. DOMAIN objs = 0 .. c - 1 /\ DOMAIN new = 0 .. c - 1
    BY InForest DEF Storage
<1>2. new \in Forest(c)
    BY DEF Forest
<1>3. ASSUME NEW parted, Linked(objs, parted) PROVE Linked(new, parted)
    BY <1>1, <1>3 DEF Linked
<1> QED
    BY <1>2, <1>3

\* No Transform is lost, and each pGOID was there before or leads somewhere.
LEMMA ResolvableKept ==
    ASSUME NEW objs, NEW new, Resolvable(objs), DOMAIN new = DOMAIN objs,
           \A i \in DOMAIN objs : HasOf(objs[i], "Transform") => HasOf(new[i], "Transform"),
           \A i \in DOMAIN objs :
               HasOf(new[i], "Transform") /\ TransformOf(new[i]).pGOID # EMPTY_ID =>
                   \/ /\ HasOf(objs[i], "Transform")
                      /\ TransformOf(objs[i]).pGOID = TransformOf(new[i]).pGOID
                   \/ /\ TransformOf(new[i]).pGOID \in DOMAIN objs
                      /\ HasOf(objs[TransformOf(new[i]).pGOID], "Transform")
    PROVE  Resolvable(new)
BY DEF Resolvable

\* findComponent finds the first.
LEMMA FirstTransform ==
    ASSUME NEW o, NEW cs \in Components, o.componenten = cs
    PROVE  /\ \A n \in 1 .. Len(cs) :
                  /\ cs[n].kind = "Transform"
                  /\ \A m \in 1 .. n - 1 : cs[m].kind # "Transform"
                  => Min(Positions(o, "Transform")) = n /\ TransformOf(o) = cs[n]
                     /\ HasOf(o, "Transform")
           /\ HasOf(o, "Transform") =>
                  LET n == Min(Positions(o, "Transform")) IN
                  /\ n \in 1 .. Len(cs) /\ cs[n].kind = "Transform"
                  /\ TransformOf(o) = cs[n]
                  /\ \A m \in 1 .. n - 1 : cs[m].kind # "Transform"
           /\ HasOf(o, "Transform") <=> \E n \in 1 .. Len(cs) : cs[n].kind = "Transform"
<1> DEFINE P == Positions(o, "Transform")
           size == Len(cs)
<1>1. size \in Nat /\ DOMAIN cs = 1 .. size
    BY LenProperties DEF Components
<1>2. P = {n \in 1 .. size : cs[n].kind = "Transform"}
    BY <1>1 DEF Positions
<1>3. P \in SUBSET Nat
    BY <1>1, <1>2
<1>4. HasOf(o, "Transform") <=> P # {}
    BY DEF HasOf
<1>5. TransformOf(o) = cs[Min(P)]
    BY DEF TransformOf
<1> HIDE DEF P, size
<1>6. ASSUME NEW n \in 1 .. size, cs[n].kind = "Transform",
             \A m \in 1 .. n - 1 : cs[m].kind # "Transform"
      PROVE  Min(P) = n
    <2>1. n \in P
        BY <1>2, <1>6
    <2>2. Min(P) \in P /\ Min(P) <= n
        BY <1>3, <2>1, MinIsMember
    <2>3. PICK k : k = Min(P)
        OBVIOUS
    <2>4. k \in 1 .. size /\ k <= n /\ cs[k].kind = "Transform"
        BY <1>2, <2>2, <2>3
    <2>5. k = n
        BY <1>1, <1>6, <2>4
    <2> QED
        BY <2>3, <2>5
<1>7. ASSUME P # {}
      PROVE  /\ Min(P) \in 1 .. size /\ cs[Min(P)].kind = "Transform"
             /\ \A m \in 1 .. Min(P) - 1 : cs[m].kind # "Transform"
    <2>1. PICK k : k = Min(P)
        OBVIOUS
    <2>2. k \in P /\ \A m \in P : k <= m
        BY <1>3, <1>7, <2>1, MinIsMember
    <2>3. k \in 1 .. size /\ cs[k].kind = "Transform"
        BY <1>2, <2>2
    <2>4. \A m \in 1 .. k - 1 : m \in 1 .. size /\ ~(k <= m)
        BY <1>1, <2>3
    <2>5. \A m \in 1 .. k - 1 : cs[m].kind # "Transform"
        BY <1>2, <2>2, <2>4
    <2> QED
        BY <2>1, <2>3, <2>5
<1>8. ASSUME NEW n \in 1 .. size, cs[n].kind = "Transform" PROVE P # {}
    BY <1>2, <1>8
<1>9. \A n \in 1 .. size :
          /\ cs[n].kind = "Transform"
          /\ \A m \in 1 .. n - 1 : cs[m].kind # "Transform"
          => Min(P) = n /\ TransformOf(o) = cs[n] /\ HasOf(o, "Transform")
    BY <1>4, <1>5, <1>6, <1>8
<1>10. HasOf(o, "Transform") =>
           /\ Min(P) \in 1 .. size /\ cs[Min(P)].kind = "Transform"
           /\ TransformOf(o) = cs[Min(P)]
           /\ \A m \in 1 .. Min(P) - 1 : cs[m].kind # "Transform"
    BY <1>4, <1>5, <1>7
<1>11. HasOf(o, "Transform") <=> \E n \in 1 .. size : cs[n].kind = "Transform"
    BY <1>2, <1>4
<1> QED
    BY <1>9, <1>10, <1>11 DEF P, size

\* Objects that differ in their components alone
LEMMA OtherComponents ==
    ASSUME NEW o \in Object, NEW cs \in Components, NEW new,
           new = [o EXCEPT !.componenten = cs]
    PROVE  /\ new \in Object /\ new.componenten = cs
           /\ new.parrentID = o.parrentID /\ new.childrenIds = o.childrenIds
BY DEF Object

\* A new component names no parent.
LEMMA NewIsComponent ==
    ASSUME NEW kind \in Kinds
    PROVE  /\ NewComponent(kind) \in Component /\ Plain(NewComponent(kind))
           /\ NewComponent(kind).kind = kind
           /\ NewComponent(kind).pGOID = EMPTY_ID /\ NewComponent(kind).parrent = EMPTY_ID
<1>1. PICK c : c = NewComponent(kind)
    OBVIOUS
<1>2. /\ c.kind = kind /\ c.place = 0 /\ c.pGOID = EMPTY_ID /\ c.parrent = EMPTY_ID
      /\ c = [kind |-> kind, place |-> 0, pGOID |-> EMPTY_ID, parrent |-> EMPTY_ID]
    BY <1>1 DEF NewComponent
<1>3. c \in Component
    BY <1>2, PlaceAssumption DEF Component, Id
<1> QED
    BY <1>1, <1>2, <1>3 DEF Plain

WithComponent(o, kind) == [o EXCEPT !.componenten = Append(@, NewComponent(kind))]

\* A component that is appended leaves those before it, and the first
\* Transform, in place.
LEMMA AddedComponent ==
    ASSUME NEW o \in Object, NEW kind \in Kinds, NEW new, new = WithComponent(o, kind)
    PROVE  /\ new \in Object
           /\ new.parrentID = o.parrentID /\ new.childrenIds = o.childrenIds
           /\ Len(new.componenten) = Len(o.componenten) + 1
           /\ new.componenten[Len(o.componenten) + 1].kind = kind
           /\ \A n \in 1 .. Len(o.componenten) : new.componenten[n] = o.componenten[n]
           /\ HasOf(o, "Transform") =>
                  HasOf(new, "Transform") /\ TransformOf(new) = TransformOf(o)
           /\ HasOf(new, "Transform") /\ ~HasOf(o, "Transform") =>
                  TransformOf(new) = NewComponent(kind)
<1> DEFINE cs == o.componenten
           c == NewComponent(kind)
           size == Len(cs)
           all == Append(cs, c)
<1>1. cs \in Components /\ cs \in Seq(Component) /\ \A n \in DOMAIN cs : Plain(cs[n])
    BY DEF Object, Components
<1>2. size \in Nat /\ DOMAIN cs = 1 .. size
    BY <1>1, LenProperties
<1>3. c \in Component /\ Plain(c) /\ c.kind = kind
    BY NewIsComponent
<1> HIDE DEF cs, c
<1>4. /\ all \in Seq(Component) /\ Len(all) = size + 1 /\ all[size + 1] = c
      /\ \A n \in 1 .. size : all[n] = cs[n]
    BY <1>1, <1>3, AppendProperties
<1>5. DOMAIN all = 1 .. size + 1
    BY <1>4, LenProperties
<1> HIDE DEF size, all
<1>6. \A n \in 1 .. size + 1 : n \in 1 .. size \/ n = size + 1
    BY <1>2
<1>7. all \in Components
    BY <1>1, <1>2, <1>3, <1>4, <1>5, <1>6 DEF Components
<1>8. new = [o EXCEPT !.componenten = all]
    BY DEF all, cs, c, WithComponent
<1>9. /\ new \in Object /\ new.componenten = all
      /\ new.parrentID = o.parrentID /\ new.childrenIds = o.childrenIds
    BY <1>7, <1>8, OtherComponents
<1>10. o.componenten = cs
    BY DEF cs
<1>11. \A n \in 1 .. size : n \in 1 .. size + 1 /\ \A m \in 1 .. n - 1 : m \in 1 .. size
    BY <1>2
<1>12. ASSUME HasOf(o, "Transform")
       PROVE  HasOf(new, "Transform") /\ TransformOf(new) = TransformOf(o)
    <2>1. PICK n \in 1 .. size :
              /\ cs[n].kind = "Transform" /\ TransformOf(o) = cs[n]
              /\ \A m \in 1 .. n - 1 : cs[m].kind # "Transform"
        BY <1>1, <1>10, <1>12, FirstTransform DEF size
    <2>2. /\ n \in 1 .. Len(all) /\ all[n] = cs[n] /\ all[n].kind = "Transform"
          /\ \A m \in 1 .. n - 1 : all[m].kind # "Transform"
        BY <1>4, <1>11, <2>1
    <2>3. HasOf(new, "Transform") /\ TransformOf(new) = all[n]
        BY <1>7, <1>9, <2>2, FirstTransform
    <2> QED
        BY <2>1, <2>2, <2>3
<1>13. ASSUME HasOf(new, "Transform"), ~HasOf(o, "Transform")
       PROVE  TransformOf(new) = c
    <2>1. \A n \in 1 .. size : cs[n].kind # "Transform"
        BY <1>1, <1>10, <1>13, FirstTransform DEF size
    <2>2. PICK n \in 1 .. size + 1 : all[n].kind = "Transform" /\ TransformOf(new) = all[n]
        BY <1>4, <1>7, <1>9, <1>13, FirstTransform
    <2>3. n = size + 1
        BY <1>4, <1>6, <2>1, <2>2
    <2> QED
        BY <1>4, <2>2, <2>3
<1> QED
    BY <1>3, <1>4, <1>9, <1>12, <1>13 DEF c, cs, size

\* A Transform that is replaced by another keeps every kind where it is.
LEMMA ChangedTransform ==
    ASSUME NEW o \in Object, HasOf(o, "Transform"),
           NEW t \in Component, t.kind = "Transform", NEW new, new = WithTransform(o, t)
    PROVE  /\ new \in Object
           /\ new.parrentID = o.parrentID /\ new.childrenIds = o.childrenIds
           /\ Len(new.componenten) = Len(o.componenten)
           /\ \A n \in 1 .. Len(o.componenten) :
                  new.componenten[n].kind = o.componenten[n].kind
           /\ HasOf(new, "Transform") /\ TransformOf(new) = t
<1> DEFINE cs == o.componenten
           size == Len(cs)
           k == Min(Positions(o, "Transform"))
           all == [cs EXCEPT ![k] = t]
<1>1. cs \in Components /\ cs \in Seq(Component) /\ \A n \in DOMAIN cs : Plain(cs[n])
    BY DEF Object, Components
<1>2. size \in Nat /\ DOMAIN cs = 1 .. size
    BY <1>1, LenProperties
<1>3. /\ k \in 1 .. size /\ cs[k].kind = "Transform"
      /\ \A m \in 1 .. k - 1 : cs[m].kind # "Transform"
    BY <1>1, FirstTransform
<1>4. new = [o EXCEPT !.componenten = all]
    BY DEF WithTransform
<1> HIDE DEF cs, k
<1>5. /\ all \in Seq(Component) /\ Len(all) = size
      /\ \A n \in 1 .. size : all[n] = IF n = k THEN t ELSE cs[n]
    BY <1>1, <1>3, ExceptSeq
<1>6. DOMAIN all = 1 .. size
    BY <1>5, LenProperties
<1> HIDE DEF all, size
<1>7. Plain(t)
    BY DEF Plain
<1>8. all \in Components
    BY <1>1, <1>2, <1>5, <1>6, <1>7 DEF Components
<1>9. /\ new \in Object /\ new.componenten = all
      /\ new.parrentID = o.parrentID /\ new.childrenIds = o.childrenIds
    BY <1>4, <1>8, OtherComponents
<1>10. \A n \in 1 .. size : all[n].kind = cs[n].kind
    BY <1>3, <1>5
<1>11. all[k] = t /\ all[k].kind = "Transform" /\ \A m \in 1 .. k - 1 : all[m].kind # "Transform"
    <2>1. \A m \in 1 .. k - 1 : m \in 1 .. size
        BY <1>2, <1>3
    <2> QED
        BY <1>3, <1>5, <1>10, <2>1
<1>12. HasOf(new, "Transform") /\ TransformOf(new) = t
    BY <1>3, <1>5, <1>8, <1>9, <1>11, FirstTransform
<1> QED
    BY <1>5, <1>9, <1>10, <1>12 DEF cs, size

\* What load keeps
LEMMA LoadedObject ==
    ASSUME NEW o \in Object, NEW new, new = BackObject(o)
    PROVE  /\ new \in Object
           /\ new.parrentID = o.parrentID /\ new.childrenIds = o.childrenIds
           /\ Len(new.componenten) = Len(o.componenten)
           /\ \A n \in 1 .. Len(o.componenten) :
                  new.componenten[n] = Back(o.componenten[n])
           /\ HasOf(new, "Transform") <=> HasOf(o, "Transform")
           /\ HasOf(new, "Transform") => TransformOf(new) = Back(TransformOf(o))
<1> DEFINE cs == o.componenten
           size == Len(cs)
           all == Backs(cs, size)
<1>1. cs \in Components /\ cs \in Seq(Component)
    BY DEF Object, Components
<1>2. size \in Nat /\ DOMAIN cs = 1 .. size /\ \A n \in 1 .. size : cs[n] \in Component
    BY <1>1, LenProperties, ElementOfSeq
<1> HIDE DEF cs
<1>3. all \in Components /\ Len(all) = size
    BY <1>1, BacksAre
<1>4. \A n \in 1 .. size : all[n] = Back(cs[n])
    BY DEF Backs
<1>5. new = [name |-> o.name, parrentID |-> o.parrentID, childrenIds |-> o.childrenIds,
             componenten |-> all]
    BY DEF BackObject, cs
<1> HIDE DEF all, size
<1>6. /\ new \in Object /\ new.componenten = all
      /\ new.parrentID = o.parrentID /\ new.childrenIds = o.childrenIds
    BY <1>3, <1>5 DEF Object
<1>7. \A n \in 1 .. size : all[n].kind = "Transform" <=> cs[n].kind = "Transform"
    <2> SUFFICES ASSUME NEW n \in 1 .. size
                 PROVE  all[n].kind = "Transform" <=> cs[n].kind = "Transform"
        OBVIOUS
    <2>1. PICK c : c = cs[n]
        OBVIOUS
    <2>2. c.kind \in Kinds
        BY <1>2, <2>1 DEF Component
    <2>3. Back(c).kind = WritesNameOf[c.kind]
        BY DEF Back
    <2> QED
        BY <1>4, <2>1, <2>2, <2>3, KindAssumption
<1>8. o.componenten = cs
    BY DEF cs
<1>9. HasOf(new, "Transform") <=> HasOf(o, "Transform")
    <2>1. HasOf(o, "Transform") <=> \E n \in 1 .. size : cs[n].kind = "Transform"
        BY <1>1, <1>8, FirstTransform DEF size
    <2>2. HasOf(new, "Transform") <=> \E n \in 1 .. size : all[n].kind = "Transform"
        BY <1>3, <1>6, FirstTransform
    <2> QED
        BY <1>7, <2>1, <2>2
<1>10. ASSUME HasOf(new, "Transform") PROVE TransformOf(new) = Back(TransformOf(o))
    <2>1. PICK n \in 1 .. size :
              /\ cs[n].kind = "Transform" /\ TransformOf(o) = cs[n]
              /\ \A m \in 1 .. n - 1 : cs[m].kind # "Transform"
        BY <1>1, <1>8, <1>9, <1>10, FirstTransform DEF size
    <2>2. \A m \in 1 .. n - 1 : m \in 1 .. size
        BY <1>2
    <2>3. TransformOf(new) = all[n]
        BY <1>3, <1>6, <1>7, <2>1, <2>2, FirstTransform
    <2> QED
        BY <1>4, <2>1, <2>3
<1> QED
    BY <1>3, <1>4, <1>6, <1>9, <1>10 DEF cs, size

-----------------------------------------------------------------------------
(* What each change keeps of the objects *)

LEMMA NewIsObject ==
    ASSUME NEW name \in Names, NEW o, o = NewObject(name)
    PROVE  /\ o \in Object /\ o.parrentID = EMPTY_ID /\ o.childrenIds = <<>>
           /\ o.componenten = <<>> /\ DOMAIN o.childrenIds = {} /\ DOMAIN o.componenten = {}
           /\ Len(o.componenten) = 0
           /\ ~HasOf(o, "Transform")
<1>1. <<>> \in Seq(Nat) /\ <<>> \in Seq(Component) /\ Len(<<>>) = 0
    BY EmptySeq
<1>2. PICK e : e = <<>>
    OBVIOUS
<1>3. DOMAIN e = {}
    <2>1. DOMAIN e = 1 .. Len(e) /\ Len(e) = 0
        BY <1>1, <1>2, LenProperties
    <2> QED
        BY <2>1
<1>4. e \in Components
    BY <1>1, <1>2, <1>3 DEF Components
<1>5. o = [name |-> name, parrentID |-> EMPTY_ID, childrenIds |-> e, componenten |-> e]
    BY <1>2 DEF NewObject
<1>6. o \in Object /\ o.parrentID = EMPTY_ID /\ o.childrenIds = e /\ o.componenten = e
    BY <1>1, <1>2, <1>4, <1>5 DEF Object, Id
<1>7. Positions(o, "Transform") = {}
    BY <1>3, <1>6 DEF Positions
<1> QED
    BY <1>1, <1>2, <1>3, <1>6, <1>7 DEF HasOf

WithNew(objs, c, name) == Inserted(objs, [i \in {c} |-> NewObject(name)])

\* createGameObject adds an object without links under the next id.
LEMMA Created ==
    ASSUME NEW objs, NEW c, NEW parted, Sound(objs, c, parted), NEW name \in Names,
           NEW new, new = WithNew(objs, c, name)
    PROVE  /\ Sound(new, c + 1, parted)
           /\ DOMAIN new = 0 .. c /\ new[c] = NewObject(name)
           /\ \A i \in 0 .. c - 1 : new[i] = objs[i]
<1>1. c \in Nat /\ objs \in Forest(c)
    BY DEF Sound
<1>2. DOMAIN objs = 0 .. c - 1 /\ objs \in Storage(c)
    BY <1>1, InForest
<1>3. (0 .. c - 1) \cup {c} = 0 .. c /\ c \notin 0 .. c - 1 /\ (c + 1) - 1 = c
      /\ \A i \in 0 .. c : i \in 0 .. c - 1 \/ i = c
    BY <1>1
<1>4. PICK o : o = NewObject(name)
    OBVIOUS
<1>5. PICK more : more = [i \in {c} |-> o]
    OBVIOUS
<1>6. DOMAIN more = {c} /\ more[c] = o
    BY <1>5
<1>7. new = [i \in 0 .. c |-> IF i \in 0 .. c - 1 THEN objs[i] ELSE more[i]]
    BY <1>2, <1>3, <1>4, <1>5, <1>6 DEF Inserted, WithNew
<1>8. DOMAIN new = 0 .. c /\ new[c] = o /\ \A i \in 0 .. c - 1 : new[i] = objs[i]
    BY <1>3, <1>6, <1>7
<1>9. /\ o \in Object /\ o.parrentID = EMPTY_ID /\ DOMAIN o.childrenIds = {}
      /\ ~HasOf(o, "Transform")
    BY <1>4, NewIsObject
<1>10. new \in Storage(c + 1)
    <2>1. new = [i \in 0 .. c |-> new[i]]
        BY <1>7
    <2>2. \A i \in 0 .. c : new[i] \in Object
        BY <1>1, <1>3, <1>8, <1>9, InForest
    <2> QED
        BY <1>3, <2>1, <2>2 DEF Storage
<1>11. EMPTY_ID \notin 0 .. c
    BY <1>1 DEF EMPTY_ID
<1>12. new \in Forest(c + 1)
    <2> SUFFICES ASSUME NEW i \in 0 .. c
                 PROVE  /\ new[i].parrentID \in 0 .. c \cup {EMPTY_ID}
                        /\ \A n \in DOMAIN new[i].childrenIds : new[i].childrenIds[n] \in 0 .. c
        BY <1>3, <1>10 DEF Forest
    <2>1. CASE i = c
        BY <1>8, <1>9, <2>1
    <2>2. CASE i \in 0 .. c - 1
        <3>1. new[i] = objs[i]
            BY <1>8, <2>2
        <3>2. /\ objs[i].parrentID \in 0 .. c - 1 \cup {EMPTY_ID}
              /\ \A n \in DOMAIN objs[i].childrenIds : objs[i].childrenIds[n] \in 0 .. c - 1
            BY <1>1, <2>2, InForest
        <3> QED
            BY <1>3, <3>1, <3>2
    <2> QED
        BY <1>3, <2>1, <2>2
<1>13. Linked(new, parted)
    <2> SUFFICES ASSUME NEW i \in 0 .. c, NEW p \in 0 .. c, i \notin parted
                 PROVE  IF new[i].parrentID = p THEN Once(new[p].childrenIds, i)
                        ELSE Never(new[p].childrenIds, i)
        BY <1>8 DEF Linked
    <2>1. CASE p = c
        <3>1. new[i].parrentID # c
            <4>1. CASE i = c
                BY <1>1, <1>8, <1>9, <1>11, <4>1
            <4>2. CASE i \in 0 .. c - 1
                <5>1. objs[i].parrentID \in 0 .. c - 1 \cup {EMPTY_ID}
                    BY <1>1, <4>2, InForest
                <5> QED
                    BY <1>1, <1>3, <1>8, <1>11, <4>2, <5>1
            <4> QED
                BY <1>3, <4>1, <4>2
        <3>2. Never(new[p].childrenIds, i)
            BY <1>8, <1>9, <2>1 DEF Never
        <3> QED
            BY <2>1, <3>1, <3>2
    <2>2. CASE p \in 0 .. c - 1 /\ i = c
        <3>1. new[i].parrentID # p
            BY <1>8, <1>9, <1>11, <2>2
        <3>2. \A n \in DOMAIN objs[p].childrenIds : objs[p].childrenIds[n] \in 0 .. c - 1
            BY <1>1, <2>2, InForest
        <3>3. Never(new[p].childrenIds, i)
            BY <1>3, <1>8, <2>2, <3>2 DEF Never
        <3> QED
            BY <3>1, <3>3
    <2>3. CASE p \in 0 .. c - 1 /\ i \in 0 .. c - 1
        <3>1. new[p] = objs[p] /\ new[i] = objs[i]
            BY <1>8, <2>3
        <3>2. IF objs[i].parrentID = p THEN Once(objs[p].childrenIds, i)
              ELSE Never(objs[p].childrenIds, i)
            BY <1>2, <2>3 DEF Sound, Linked
        <3> QED
            BY <3>1, <3>2
    <2> QED
        BY <1>3, <2>1, <2>2, <2>3
<1>14. ASSUME parted = {} PROVE Resolvable(new)
    <2>1. Resolvable(objs)
        BY <1>14 DEF Sound
    <2> SUFFICES ASSUME NEW i \in 0 .. c, HasOf(new[i], "Transform"),
                        TransformOf(new[i]).pGOID # EMPTY_ID,
                        NEW p, p = TransformOf(new[i]).pGOID
                 PROVE  p \in 0 .. c /\ HasOf(new[p], "Transform")
        BY <1>8 DEF Resolvable
    <2>2. i \in 0 .. c - 1 /\ new[i] = objs[i]
        BY <1>3, <1>8, <1>9
    <2>3. p \in 0 .. c - 1 /\ HasOf(objs[p], "Transform")
        BY <1>2, <2>1, <2>2 DEF Resolvable
    <2> QED
        BY <1>3, <1>8, <2>3
<1> QED
    BY <1>1, <1>3, <1>4, <1>8, <1>12, <1>13, <1>14 DEF Sound

\* One object gets other components.
LEMMA Composed ==
    ASSUME NEW objs, NEW c, NEW parted, Sound(objs, c, parted),
           NEW i \in 0 .. c - 1, NEW o \in Object,
           o.parrentID = objs[i].parrentID, o.childrenIds = objs[i].childrenIds,
           HasOf(objs[i], "Transform") => HasOf(o, "Transform"),
           HasOf(o, "Transform") /\ TransformOf(o).pGOID # EMPTY_ID =>
               \/ HasOf(objs[i], "Transform") /\ TransformOf(objs[i]).pGOID = TransformOf(o).pGOID
               \/ /\ TransformOf(o).pGOID \in 0 .. c - 1
                  /\ HasOf(objs[TransformOf(o).pGOID], "Transform"),
           NEW new, new = [objs EXCEPT ![i] = o]
    PROVE  /\ Sound(new, c, parted)
           /\ DOMAIN new = 0 .. c - 1 /\ new[i] = o
           /\ \A j \in 0 .. c - 1 : j # i => new[j] = objs[j]
<1>1. c \in Nat /\ objs \in Forest(c)
    BY DEF Sound
<1>2. DOMAIN objs = 0 .. c - 1 /\ objs \in Storage(c)
    BY <1>1, InForest
<1>3. /\ DOMAIN new = 0 .. c - 1 /\ new[i] = o
      /\ \A j \in 0 .. c - 1 : j # i => new[j] = objs[j]
    BY <1>2
<1>4. new \in Storage(c)
    BY <1>2 DEF Storage
<1>5. \A j \in 0 .. c - 1 : new[j].parrentID = objs[j].parrentID
                            /\ new[j].childrenIds = objs[j].childrenIds
    BY <1>3
<1>6. new \in Forest(c) /\ Linked(new, parted)
    <2>1. Linked(objs, parted)
        BY DEF Sound
    <2> QED
        BY <1>1, <1>4, <1>5, <2>1, SameLinks
<1>7. ASSUME parted = {} PROVE Resolvable(new)
    <2>1. Resolvable(objs)
        BY <1>7 DEF Sound
    <2> SUFFICES ASSUME NEW j \in 0 .. c - 1, HasOf(new[j], "Transform"),
                        TransformOf(new[j]).pGOID # EMPTY_ID,
                        NEW p, p = TransformOf(new[j]).pGOID
                 PROVE  p \in 0 .. c - 1 /\ HasOf(new[p], "Transform")
        BY <1>3 DEF Resolvable
    <2>2. p \in 0 .. c - 1 /\ HasOf(objs[p], "Transform")
        <3>1. CASE j # i
            BY <1>2, <1>3, <2>1, <3>1 DEF Resolvable
        <3>2. CASE j = i
            <4>1. new[j] = o
                BY <1>3, <3>2
            <4>2. CASE HasOf(objs[i], "Transform")
                       /\ TransformOf(objs[i]).pGOID = TransformOf(o).pGOID
                BY <1>2, <2>1, <4>1, <4>2 DEF Resolvable
            <4>3. CASE /\ TransformOf(o).pGOID \in 0 .. c - 1
                       /\ HasOf(objs[TransformOf(o).pGOID], "Transform")
                BY <4>1, <4>3
            <4> QED
                BY <4>1, <4>2, <4>3
        <3> QED
            BY <3>1, <3>2
    <2>3. HasOf(new[p], "Transform")
        BY <1>3, <2>2
    <2> QED
        BY <2>2, <2>3
<1> QED
    BY <1>1, <1>3, <1>6, <1>7 DEF Sound

\* What changes in an object with other children.
LEMMA OtherChildren ==
    ASSUME NEW o \in Object, NEW s \in Seq(Nat), NEW new, new = [o EXCEPT !.childrenIds = s]
    PROVE  /\ new \in Object /\ new.childrenIds = s
           /\ new.parrentID = o.parrentID /\ new.componenten = o.componenten
BY DEF Object

\* What changes in an object with another parent.
LEMMA OtherParrent ==
    ASSUME NEW o \in Object, NEW p \in Id, NEW new, new = [o EXCEPT !.parrentID = p]
    PROVE  /\ new \in Object /\ new.parrentID = p
           /\ new.childrenIds = o.childrenIds /\ new.componenten = o.componenten
BY DEF Object

\* The components of every object are as they were.
Kept(objs, new) ==
    /\ DOMAIN new = DOMAIN objs
    /\ \A j \in DOMAIN objs : new[j].componenten = objs[j].componenten

\* Objects with the same components have the same Transforms.
LEMMA KeptTransforms ==
    ASSUME NEW objs, NEW new, Kept(objs, new)
    PROVE  /\ \A j \in DOMAIN objs :
                  /\ HasOf(new[j], "Transform") <=> HasOf(objs[j], "Transform")
                  /\ TransformOf(new[j]) = TransformOf(objs[j])
           /\ Resolvable(objs) => Resolvable(new)
<1>1. ASSUME NEW j \in DOMAIN objs
      PROVE  /\ HasOf(new[j], "Transform") <=> HasOf(objs[j], "Transform")
             /\ TransformOf(new[j]) = TransformOf(objs[j])
    <2>1. new[j].componenten = objs[j].componenten
        BY DEF Kept
    <2>2. Positions(new[j], "Transform") = Positions(objs[j], "Transform")
        BY <2>1 DEF Positions
    <2> QED
        BY <2>1, <2>2 DEF HasOf, TransformOf
<1>2. ASSUME Resolvable(objs) PROVE Resolvable(new)
    <2>1. DOMAIN new = DOMAIN objs
        BY DEF Kept
    <2> QED
        BY <1>1, <1>2, <2>1, ResolvableKept
<1> QED
    BY <1>1, <1>2

\* Linked but for one object, which no list holds.
Apart(objs, parted, i) ==
    /\ Linked(objs, parted \cup {i})
    /\ i \notin parted => \A p \in DOMAIN objs : Never(objs[p].childrenIds, i)

\* remChild takes the child out of the list it is in, so that it is in none.
LEMMA LeftApart ==
    ASSUME Sound(objects, counter, torn), NEW i \in 0 .. counter - 1, CanLeave(i),
           NEW new, new = Left(i)
    PROVE  /\ new \in Forest(counter) /\ Apart(new, torn, i) /\ Kept(objects, new)
           /\ objects[i].parrentID = EMPTY_ID => new = objects
<1>1. counter \in Nat /\ objects \in Forest(counter) /\ Linked(objects, torn)
    BY DEF Sound
<1>2. DOMAIN objects = 0 .. counter - 1 /\ objects \in Storage(counter)
    BY <1>1, InForest
<1>3. EMPTY_ID \notin 0 .. counter - 1
    BY <1>1 DEF EMPTY_ID
<1> DEFINE p == objects[i].parrentID
<1>4. CASE p = EMPTY_ID
    <2>1. new = objects
        BY <1>4 DEF Left
    <2>2. Linked(objects, torn \cup {i})
        BY <1>1 DEF Linked
    <2>3. i \notin torn => \A q \in DOMAIN objects : Never(objects[q].childrenIds, i)
        BY <1>1, <1>2, <1>3, <1>4 DEF Linked
    <2> QED
        BY <1>1, <2>1, <2>2, <2>3 DEF Apart, Kept
<1>5. CASE p # EMPTY_ID
    <2>1. p \in 0 .. counter - 1
        BY <1>1, <1>5, InForest
    <2>2. PICK q : q = p
        OBVIOUS
    <2>3. PICK s : s = objects[q].childrenIds
        OBVIOUS
    <2>4. PICK t : t = RemoveFirst(s, i)
        OBVIOUS
    <2>5. PICK o : o = [objects[q] EXCEPT !.childrenIds = t]
        OBVIOUS
    <2>6. q \in 0 .. counter - 1 /\ objects[q] \in Object /\ s \in Seq(Nat)
          /\ (\A n \in DOMAIN s : s[n] \in 0 .. counter - 1) /\ i \in Range(s)
        BY <1>1, <1>5, <2>1, <2>2, <2>3, InForest DEF CanLeave
    <2>7. /\ t \in Seq(Nat)
          /\ \A n \in DOMAIN t : \E m \in DOMAIN s : t[n] = s[m]
          /\ \A y : Never(s, y) => Never(t, y)
          /\ \A y : y # i /\ Once(s, y) => Once(t, y)
          /\ Once(s, i) => Never(t, i)
        BY <2>4, <2>6, RemovedChild
    <2>8. /\ o \in Object /\ o.childrenIds = t /\ o.parrentID = objects[q].parrentID
          /\ o.componenten = objects[q].componenten
        BY <2>5, <2>6, <2>7, OtherChildren
    <2>9. new = [objects EXCEPT ![q] = o]
        BY <1>5, <2>2, <2>3, <2>4, <2>5 DEF Left
    <2>10. /\ DOMAIN new = 0 .. counter - 1 /\ new[q] = o
           /\ \A j \in 0 .. counter - 1 : j # q => new[j] = objects[j]
        BY <1>2, <2>6, <2>9
    <2>11. new \in Storage(counter)
        BY <1>2, <2>8, <2>9 DEF Storage
    <2>12. \A j \in 0 .. counter - 1 :
               /\ new[j].parrentID = objects[j].parrentID
               /\ new[j].componenten = objects[j].componenten
        BY <2>8, <2>10
    <2>13. new \in Forest(counter)
        <3> SUFFICES ASSUME NEW j \in 0 .. counter - 1
                     PROVE  /\ new[j].parrentID \in 0 .. counter - 1 \cup {EMPTY_ID}
                            /\ \A n \in DOMAIN new[j].childrenIds :
                                   new[j].childrenIds[n] \in 0 .. counter - 1
            BY <2>11 DEF Forest
        <3>1. new[j].parrentID \in 0 .. counter - 1 \cup {EMPTY_ID}
            BY <1>1, <2>12, InForest
        <3>2. CASE j = q
            BY <2>6, <2>7, <2>8, <2>10, <3>1, <3>2
        <3>3. CASE j # q
            BY <1>1, <2>10, <3>1, <3>3, InForest
        <3> QED
            BY <3>2, <3>3
    <2>14. Linked(new, torn \cup {i})
        <3> SUFFICES ASSUME NEW j \in 0 .. counter - 1, NEW r \in 0 .. counter - 1,
                            j \notin torn, j # i
                     PROVE  IF new[j].parrentID = r THEN Once(new[r].childrenIds, j)
                            ELSE Never(new[r].childrenIds, j)
            BY <2>10 DEF Linked
        <3>1. IF objects[j].parrentID = r THEN Once(objects[r].childrenIds, j)
              ELSE Never(objects[r].childrenIds, j)
            BY <1>1, <1>2 DEF Linked
        <3>2. CASE r = q
            BY <2>3, <2>7, <2>8, <2>10, <2>12, <3>1, <3>2
        <3>3. CASE r # q
            BY <2>10, <2>12, <3>1, <3>3
        <3> QED
            BY <3>2, <3>3
    <2>15. ASSUME i \notin torn, NEW r \in 0 .. counter - 1
           PROVE  Never(new[r].childrenIds, i)
        <3>1. IF objects[i].parrentID = r THEN Once(objects[r].childrenIds, i)
              ELSE Never(objects[r].childrenIds, i)
            BY <1>1, <1>2, <2>15 DEF Linked
        <3>2. CASE r = q
            BY <2>2, <2>3, <2>7, <2>8, <2>10, <3>1, <3>2
        <3>3. CASE r # q
            BY <2>2, <2>10, <3>1, <3>3
        <3> QED
            BY <3>2, <3>3
    <2> QED
        BY <1>2, <1>5, <2>10, <2>12, <2>13, <2>14, <2>15 DEF Apart, Kept
<1> QED
    BY <1>4, <1>5

\* A child that is in no list and is appended to one is linked on both sides.
LEMMA JoinedLinked ==
    ASSUME NEW c \in Nat, NEW objs \in Forest(c), NEW parted,
           NEW i \in 0 .. c - 1, NEW p \in 0 .. c - 1, Apart(objs, parted, i),
           NEW new, new = Joined(objs, i, p)
    PROVE  /\ new \in Forest(c) /\ Linked(new, parted) /\ Kept(objs, new)
<1>1. DOMAIN objs = 0 .. c - 1 /\ objs \in Storage(c)
    BY InForest
<1>2. PICK s : s = objs[p].childrenIds
    OBVIOUS
<1>3. PICK t : t = Append(s, i)
    OBVIOUS
<1>4. objs[p] \in Object /\ s \in Seq(Nat) /\ i \in Nat
      /\ \A n \in DOMAIN s : s[n] \in 0 .. c - 1
    BY <1>2, InForest
<1>5. /\ t \in Seq(Nat)
      /\ \A n \in DOMAIN t : t[n] = i \/ \E m \in DOMAIN s : t[n] = s[m]
      /\ \A y : y # i /\ Never(s, y) => Never(t, y)
      /\ \A y : y # i /\ Once(s, y) => Once(t, y)
      /\ Never(s, i) => Once(t, i)
    <2>1. t \in Seq(Nat) /\ OneMore(s, i, t)
        BY <1>3, <1>4, AddedChild
    <2> QED
        BY <2>1 DEF OneMore
<1>6. PICK o : o = [objs[p] EXCEPT !.childrenIds = t]
    OBVIOUS
<1>7. /\ o \in Object /\ o.childrenIds = t /\ o.parrentID = objs[p].parrentID
      /\ o.componenten = objs[p].componenten
    BY <1>4, <1>5, <1>6, OtherChildren
<1>8. PICK mid : mid = [objs EXCEPT ![p] = o]
    OBVIOUS
<1>9. /\ DOMAIN mid = 0 .. c - 1 /\ mid[p] = o
      /\ \A j \in 0 .. c - 1 : j # p => mid[j] = objs[j]
    BY <1>1, <1>8
<1>10. mid[i] \in Object /\ p \in Id
    BY <1>7, <1>9, InForest DEF Id
<1>11. PICK child : child = [mid[i] EXCEPT !.parrentID = p]
    OBVIOUS
<1>12. /\ child \in Object /\ child.parrentID = p
       /\ child.childrenIds = mid[i].childrenIds /\ child.componenten = mid[i].componenten
    BY <1>10, <1>11, OtherParrent
<1>13. new = [mid EXCEPT ![i] = child]
    BY <1>2, <1>3, <1>6, <1>8, <1>11 DEF Joined
<1>14. /\ DOMAIN new = 0 .. c - 1 /\ new[i] = child
       /\ \A j \in 0 .. c - 1 : j # i => new[j] = mid[j]
    BY <1>9, <1>13
<1>15. ASSUME NEW j \in 0 .. c - 1
       PROVE  /\ new[j] \in Object
              /\ new[j].parrentID = IF j = i THEN p ELSE objs[j].parrentID
              /\ new[j].childrenIds = IF j = p THEN t ELSE objs[j].childrenIds
              /\ new[j].componenten = objs[j].componenten
    <2>1. mid[j] \in Object /\ mid[j].parrentID = objs[j].parrentID
          /\ mid[j].childrenIds = (IF j = p THEN t ELSE objs[j].childrenIds)
          /\ mid[j].componenten = objs[j].componenten
        <3>1. CASE j = p
            BY <1>7, <1>9, <3>1
        <3>2. CASE j # p
            BY <1>9, <3>2, InForest
        <3> QED
            BY <3>1, <3>2
    <2>2. CASE j = i
        BY <1>12, <1>14, <2>1, <2>2
    <2>3. CASE j # i
        BY <1>14, <2>1, <2>3
    <2> QED
        BY <2>2, <2>3
<1>16. new \in Storage(c)
    <2>1. new = [j \in 0 .. c - 1 |-> new[j]]
        BY <1>9, <1>13
    <2> QED
        BY <1>15, <2>1 DEF Storage
<1>17. new \in Forest(c)
    <2> SUFFICES ASSUME NEW j \in 0 .. c - 1
                 PROVE  /\ new[j].parrentID \in 0 .. c - 1 \cup {EMPTY_ID}
                        /\ \A n \in DOMAIN new[j].childrenIds :
                               new[j].childrenIds[n] \in 0 .. c - 1
        BY <1>16 DEF Forest
    <2>1. new[j].parrentID \in 0 .. c - 1 \cup {EMPTY_ID}
        BY <1>15, InForest
    <2>2. CASE j = p
        <3>1. new[j].childrenIds = t
            BY <1>15, <2>2
        <3>2. \A n \in DOMAIN t : t[n] \in 0 .. c - 1
            BY <1>4, <1>5
        <3> QED
            BY <2>1, <3>1, <3>2
    <2>3. CASE j # p
        BY <1>15, <2>1, <2>3, InForest
    <2> QED
        BY <2>2, <2>3
<1>18. Linked(new, parted)
    <2> SUFFICES ASSUME NEW j \in 0 .. c - 1, NEW r \in 0 .. c - 1, j \notin parted
                 PROVE  IF new[j].parrentID = r THEN Once(new[r].childrenIds, j)
                        ELSE Never(new[r].childrenIds, j)
        BY <1>14 DEF Linked
    <2>1. CASE j = i
        <3>1. Never(objs[r].childrenIds, i)
            BY <1>1, <2>1 DEF Apart
        <3>2. CASE r = p
            BY <1>2, <1>5, <1>15, <2>1, <3>1, <3>2
        <3>3. CASE r # p
            BY <1>15, <2>1, <3>1, <3>3
        <3> QED
            BY <3>2, <3>3
    <2>2. CASE j # i
        <3>1. IF objs[j].parrentID = r THEN Once(objs[r].childrenIds, j)
              ELSE Never(objs[r].childrenIds, j)
            BY <1>1, <2>2 DEF Apart, Linked
        <3>2. CASE r = p
            BY <1>2, <1>5, <1>15, <2>2, <3>1, <3>2
        <3>3. CASE r # p
            BY <1>15, <2>2, <3>1, <3>3
        <3> QED
            BY <3>2, <3>3
    <2> QED
        BY <2>1, <2>2
<1> QED
    BY <1>1, <1>14, <1>15, <1>17, <1>18 DEF Kept

\* A child that is in no list and names no parent is linked on both sides.
LEMMA RootedLinked ==
    ASSUME NEW c \in Nat, NEW objs \in Forest(c), NEW parted,
           NEW i \in 0 .. c - 1, Apart(objs, parted, i),
           NEW new, new = [objs EXCEPT ![i].parrentID = EMPTY_ID]
    PROVE  /\ new \in Forest(c) /\ Linked(new, parted) /\ Kept(objs, new)
<1>1. DOMAIN objs = 0 .. c - 1 /\ objs \in Storage(c) /\ objs[i] \in Object
    BY InForest
<1>2. PICK child : child = [objs[i] EXCEPT !.parrentID = EMPTY_ID]
    OBVIOUS
<1>3. /\ child \in Object /\ child.parrentID = EMPTY_ID
      /\ child.childrenIds = objs[i].childrenIds /\ child.componenten = objs[i].componenten
    <2>1. EMPTY_ID \in Id
        BY DEF Id
    <2> QED
        BY <1>1, <1>2, <2>1, OtherParrent
<1>4. new = [objs EXCEPT ![i] = child]
    BY <1>2
<1>5. /\ DOMAIN new = 0 .. c - 1 /\ new[i] = child
      /\ \A j \in 0 .. c - 1 : j # i => new[j] = objs[j]
    BY <1>1, <1>4
<1>6. ASSUME NEW j \in 0 .. c - 1
      PROVE  /\ new[j].parrentID = IF j = i THEN EMPTY_ID ELSE objs[j].parrentID
             /\ new[j].childrenIds = objs[j].childrenIds
             /\ new[j].componenten = objs[j].componenten
    BY <1>3, <1>5
<1>7. new \in Storage(c)
    BY <1>1, <1>3, <1>4 DEF Storage
<1>8. new \in Forest(c)
    <2> SUFFICES ASSUME NEW j \in 0 .. c - 1
                 PROVE  /\ new[j].parrentID \in 0 .. c - 1 \cup {EMPTY_ID}
                        /\ \A n \in DOMAIN new[j].childrenIds :
                               new[j].childrenIds[n] \in 0 .. c - 1
        BY <1>7 DEF Forest
    <2>1. /\ objs[j].parrentID \in 0 .. c - 1 \cup {EMPTY_ID}
          /\ \A n \in DOMAIN objs[j].childrenIds : objs[j].childrenIds[n] \in 0 .. c - 1
        BY InForest
    <2> QED
        BY <1>6, <2>1
<1>9. Linked(new, parted)
    <2> SUFFICES ASSUME NEW j \in 0 .. c - 1, NEW r \in 0 .. c - 1, j \notin parted
                 PROVE  IF new[j].parrentID = r THEN Once(new[r].childrenIds, j)
                        ELSE Never(new[r].childrenIds, j)
        BY <1>5 DEF Linked
    <2>1. CASE j = i
        <3>1. Never(objs[r].childrenIds, i)
            BY <1>1, <2>1 DEF Apart
        <3>2. new[j].parrentID # r
            BY <1>6, <2>1 DEF EMPTY_ID
        <3> QED
            BY <1>6, <2>1, <3>1, <3>2
    <2>2. CASE j # i
        <3>1. IF objs[j].parrentID = r THEN Once(objs[r].childrenIds, j)
              ELSE Never(objs[r].childrenIds, j)
            BY <1>1, <2>2 DEF Apart, Linked
        <3> QED
            BY <1>6, <2>2, <3>1
    <2> QED
        BY <2>1, <2>2
<1> QED
    BY <1>1, <1>5, <1>6, <1>8, <1>9 DEF Kept

\* The objects read from a file
Reread(objs, c) == [i \in 0 .. c - 1 |-> BackObject(objs[i])]

\* A scene as load makes it
LEMMA LoadedScene ==
    ASSUME NEW objs, NEW c, NEW parted, Sound(objs, c, parted),
           NEW new, new = Reread(objs, c)
    PROVE  Sound(new, c, parted)
<1>1. c \in Nat /\ objs \in Forest(c) /\ Linked(objs, parted)
    BY DEF Sound
<1>2. DOMAIN objs = 0 .. c - 1 /\ objs \in Storage(c) /\ DOMAIN new = 0 .. c - 1
    BY <1>1, InForest DEF Reread
<1>3. ASSUME NEW i \in 0 .. c - 1
      PROVE  /\ new[i] \in Object
             /\ new[i].parrentID = objs[i].parrentID
             /\ new[i].childrenIds = objs[i].childrenIds
             /\ HasOf(new[i], "Transform") <=> HasOf(objs[i], "Transform")
             /\ HasOf(new[i], "Transform") =>
                    TransformOf(new[i]).pGOID = TransformOf(objs[i]).pGOID
    <2>1. PICK o : o = objs[i]
        OBVIOUS
    <2>2. PICK b : b = BackObject(o)
        OBVIOUS
    <2>3. new[i] = b /\ o \in Object
        BY <1>1, <2>1, <2>2, InForest DEF Reread
    <2>4. /\ b \in Object /\ b.parrentID = o.parrentID /\ b.childrenIds = o.childrenIds
          /\ HasOf(b, "Transform") <=> HasOf(o, "Transform")
          /\ HasOf(b, "Transform") => TransformOf(b) = Back(TransformOf(o))
        BY <2>2, <2>3, LoadedObject
    <2>5. \A t : Back(t).pGOID = t.pGOID
        BY DEF Back
    <2>6. HasOf(b, "Transform") => TransformOf(b).pGOID = TransformOf(o).pGOID
        BY <2>4, <2>5
    <2> QED
        BY <2>1, <2>3, <2>4, <2>6
<1>4. new \in Storage(c)
    BY <1>3 DEF Storage, Reread
<1>5. new \in Forest(c) /\ Linked(new, parted)
    BY <1>1, <1>3, <1>4, SameLinks
<1>6. ASSUME parted = {} PROVE Resolvable(new)
    <2>1. Resolvable(objs)
        BY <1>6 DEF Sound
    <2> QED
        BY <1>2, <1>3, <2>1, ResolvableKept
<1> QED
    BY <1>1, <1>5, <1>6 DEF Sound

\* counter after a load is the larger of the two.
LEMMA CounterIs ==
    ASSUME NEW c \in Nat, NEW d \in Nat
    PROVE  Max({c} \cup {i + 1 : i \in 0 .. d - 1}) = IF c >= d THEN c ELSE d
<1> DEFINE S == {c} \cup {i + 1 : i \in 0 .. d - 1}
<1>1. PICK x : x = IF c >= d THEN c ELSE d
    OBVIOUS
<1>2. x \in S
    <2>1. CASE c >= d
        BY <1>1, <2>1
    <2>2. CASE ~(c >= d)
        <3>1. d - 1 \in 0 .. d - 1 /\ (d - 1) + 1 = d
            BY <2>2
        <3> QED
            BY <1>1, <2>2, <3>1
    <2> QED
        BY <2>1, <2>2
<1>3. x \in Nat /\ \A y \in S : y \in Nat /\ x >= y
    BY <1>1
<1> HIDE DEF S
<1>4. \A z \in S : (\A y \in S : z >= y) => z = x
    BY <1>2, <1>3
<1>5. Max(S) = x
    BY <1>2, <1>3, <1>4 DEF Max
<1> QED
    BY <1>1, <1>5 DEF S

\* The map is empty if and only if counter is 0.
LEMMA NoObjects ==
    ASSUME NEW c \in Nat, NEW objs \in Storage(c)
    PROVE  /\ objs = <<>> <=> c = 0
           /\ DOMAIN <<>> = {}
<1>1. PICK e : e = <<>>
    OBVIOUS
<1>2. e \in Seq(Nat) /\ Len(e) = 0
    BY <1>1, EmptySeq
<1>3. DOMAIN e = {}
    <2>1. DOMAIN e = 1 .. Len(e)
        BY <1>2, LenProperties
    <2> QED
        BY <1>2, <2>1
<1>4. DOMAIN objs = 0 .. c - 1
    BY DEF Storage
<1>5. ASSUME c = 0 PROVE objs = e
    <2>1. 0 .. c - 1 = {} /\ 1 .. 0 = {}
        BY <1>5
    <2>2. objs \in [1 .. 0 -> Nat]
        BY <2>1 DEF Storage
    <2>3. objs \in Seq(Nat) /\ Len(objs) = 0
        BY <2>2, AsSeq
    <2> QED
        BY <1>1, <2>3, EmptySeq
<1>6. ASSUME objs = e PROVE c = 0
    <2>1. 0 .. c - 1 = {}
        BY <1>3, <1>4, <1>6
    <2>2. c > 0 => 0 \in 0 .. c - 1
        OBVIOUS
    <2> QED
        BY <2>1, <2>2
<1> QED
    BY <1>1, <1>3, <1>5, <1>6

\* The empty storage is sound.
LEMMA SoundEmpty == \A parted : Sound(<<>>, 0, parted)
<1>1. PICK e : e = <<>>
    OBVIOUS
<1>2. 0 \in Nat /\ 0 .. 0 - 1 = {}
    OBVIOUS
<1>3. PICK f : f = [i \in 0 .. 0 - 1 |-> 0]
    OBVIOUS
<1>4. f \in Storage(0)
    BY <1>2, <1>3 DEF Storage
<1>5. f = e
    BY <1>1, <1>2, <1>4, NoObjects
<1>6. DOMAIN e = {} /\ e \in Storage(0)
    BY <1>1, <1>4, <1>5, NoObjects
<1>7. e \in Forest(0)
    BY <1>2, <1>6 DEF Forest
<1>8. \A parted : Linked(e, parted) /\ Resolvable(e)
    BY <1>6 DEF Linked, Resolvable
<1> QED
    BY <1>1, <1>2, <1>7, <1>8 DEF Sound

\* A scene loaded over what is there
LEMMA LoadedOver ==
    ASSUME NEW objs, NEW c, NEW parted, Sound(objs, c, parted), c # 0,
           NEW more, NEW d, NEW other, Sound(more, d, other),
           NEW new, new = Inserted(objs, more),
           NEW next, next = (IF c >= d THEN c ELSE d),
           NEW all, all = parted \cup other \cup DOMAIN more \cup DOMAIN objs
    PROVE  Sound(new, next, all) /\ all # {}
<1>1. c \in Nat /\ objs \in Forest(c) /\ d \in Nat /\ more \in Forest(d)
    BY DEF Sound
<1>2. DOMAIN objs = 0 .. c - 1 /\ DOMAIN more = 0 .. d - 1
    BY <1>1, InForest
<1>3. next \in Nat /\ (0 .. c - 1) \cup (0 .. d - 1) = 0 .. next - 1
    BY <1>1
<1>4. /\ DOMAIN new = 0 .. next - 1
      /\ \A i \in 0 .. next - 1 : new[i] = IF i \in 0 .. c - 1 THEN objs[i] ELSE more[i]
      /\ new = [i \in 0 .. next - 1 |-> new[i]]
    BY <1>2, <1>3 DEF Inserted
<1>5. ASSUME NEW i \in 0 .. next - 1
      PROVE  /\ new[i] \in Object
             /\ new[i].parrentID \in 0 .. next - 1 \cup {EMPTY_ID}
             /\ \A n \in DOMAIN new[i].childrenIds : new[i].childrenIds[n] \in 0 .. next - 1
    <2>1. CASE i \in 0 .. c - 1
        <3>1. new[i] = objs[i]
            BY <1>4, <2>1
        <3>2. /\ objs[i] \in Object /\ objs[i].parrentID \in 0 .. c - 1 \cup {EMPTY_ID}
              /\ \A n \in DOMAIN objs[i].childrenIds : objs[i].childrenIds[n] \in 0 .. c - 1
            BY <1>1, <2>1, InForest
        <3> QED
            BY <1>3, <3>1, <3>2
    <2>2. CASE i \notin 0 .. c - 1
        <3>1. new[i] = more[i] /\ i \in 0 .. d - 1
            BY <1>3, <1>4, <2>2
        <3>2. /\ more[i] \in Object /\ more[i].parrentID \in 0 .. d - 1 \cup {EMPTY_ID}
              /\ \A n \in DOMAIN more[i].childrenIds : more[i].childrenIds[n] \in 0 .. d - 1
            BY <1>1, <3>1, InForest
        <3> QED
            BY <1>3, <3>1, <3>2
    <2> QED
        BY <2>1, <2>2
<1>6. new \in Forest(next)
    <2>1. new \in Storage(next)
        BY <1>4, <1>5 DEF Storage
    <2> QED
        BY <1>5, <2>1 DEF Forest
<1>7. \A i \in DOMAIN new : i \in all
    BY <1>2, <1>3, <1>4
<1>8. Linked(new, all)
    BY <1>7 DEF Linked
<1>9. 0 \in all
    BY <1>1, <1>2
<1> QED
    BY <1>3, <1>6, <1>8, <1>9 DEF Sound

\* The first Transform of an object is one of its components.
LEMMA TransformIn ==
    ASSUME NEW o \in Object, HasOf(o, "Transform")
    PROVE  TransformOf(o) \in Component /\ TransformOf(o).kind = "Transform"
<1>1. PICK cs : cs = o.componenten
    OBVIOUS
<1>2. cs \in Components /\ cs \in Seq(Component)
    BY <1>1 DEF Object, Components
<1>3. PICK n \in 1 .. Len(cs) : cs[n].kind = "Transform" /\ TransformOf(o) = cs[n]
    BY <1>1, <1>2, FirstTransform
<1>4. cs[n] \in Component
    BY <1>2, ElementOfSeq
<1> QED
    BY <1>3, <1>4

\* What assigning m_parrent changes.
LEMMA ParrentPut ==
    ASSUME NEW c \in Component, NEW p \in Id, NEW t, t = [c EXCEPT !.parrent = p]
    PROVE  t \in Component /\ t.kind = c.kind /\ t.pGOID = c.pGOID /\ t.parrent = p
BY DEF Component

WithParrent(c, p) == [c EXCEPT !.parrent = p, !.pGOID = p]

\* What setting m_parrent and pGOID changes.
LEMMA ParrentSet ==
    ASSUME NEW c \in Component, NEW p \in Id, NEW t, t = WithParrent(c, p)
    PROVE  t \in Component /\ t.kind = c.kind /\ t.pGOID = p /\ t.parrent = p
BY DEF Component, WithParrent

\* What setting a position changes.
LEMMA PlacePut ==
    ASSUME NEW c \in Component, NEW place \in Places, NEW t, t = [c EXCEPT !.place = place]
    PROVE  /\ t \in Component /\ t.kind = c.kind
           /\ t.pGOID = c.pGOID /\ t.parrent = c.parrent
BY DEF Component

\* Completeness depends on the kinds alone.
LEMMA SameKinds ==
    ASSUME NEW o \in Object, NEW new \in Object,
           Len(new.componenten) = Len(o.componenten),
           \A n \in 1 .. Len(o.componenten) :
               new.componenten[n].kind = o.componenten[n].kind,
           Complete(o.componenten)
    PROVE  Complete(new.componenten)
<1>1. o.componenten \in Seq(Component) /\ new.componenten \in Seq(Component)
    BY DEF Object, Components
<1>2. PICK size : size = Len(o.componenten)
    OBVIOUS
<1>3. /\ size \in Nat /\ DOMAIN o.componenten = 1 .. size
      /\ DOMAIN new.componenten = 1 .. size
    BY <1>1, <1>2, LenProperties
<1>4. \A n \in 1 .. size : \A m \in 1 .. n - 1 : m \in 1 .. size
    BY <1>3
<1>5. PICK cs : cs = o.componenten
    OBVIOUS
<1>6. PICK ds : ds = new.componenten
    OBVIOUS
<1>7. /\ DOMAIN cs = 1 .. size /\ DOMAIN ds = 1 .. size /\ Complete(cs)
      /\ \A n \in 1 .. size : ds[n].kind = cs[n].kind
    BY <1>2, <1>3, <1>5, <1>6
<1>8. ASSUME NEW n \in 1 .. size
      PROVE  /\ \A required \in Range(Requires[ds[n].kind]) :
                    \E m \in 1 .. n - 1 : ds[m].kind = required
             /\ ds[n].kind \in Lonly => \A m \in 1 .. n - 1 : ds[m].kind # ds[n].kind
    <2>1. PICK kind : kind = cs[n].kind
        OBVIOUS
    <2>2. /\ \A required \in Range(Requires[kind]) :
                 \E m \in 1 .. n - 1 : cs[m].kind = required
          /\ kind \in Lonly => \A m \in 1 .. n - 1 : cs[m].kind # kind
        BY <1>7, <2>1 DEF Complete
    <2>3. \A m \in 1 .. n - 1 : ds[m].kind = cs[m].kind
        BY <1>4, <1>7
    <2> QED
        BY <1>7, <2>1, <2>2, <2>3
<1>9. Complete(ds)
    BY <1>7, <1>8 DEF Complete
<1> QED
    BY <1>6, <1>9

\* The objects that afterSet leaves
Resolved(objs) ==
    [i \in DOMAIN objs |->
        IF HasOf(objs[i], "Transform") /\ TransformOf(objs[i]).pGOID # EMPTY_ID
        THEN WithTransform(objs[i],
                 [TransformOf(objs[i]) EXCEPT !.parrent = TransformOf(objs[i]).pGOID])
        ELSE objs[i]]

\* What Transform::afterSet leaves of an object.
LEMMA ResolvedObject ==
    ASSUME NEW objs, NEW c \in Nat, objs \in Forest(c), NEW i \in 0 .. c - 1, NEW new,
           new = Resolved(objs)[i]
    PROVE  /\ new \in Object
           /\ new.parrentID = objs[i].parrentID /\ new.childrenIds = objs[i].childrenIds
           /\ Len(new.componenten) = Len(objs[i].componenten)
           /\ \A n \in 1 .. Len(objs[i].componenten) :
                  new.componenten[n].kind = objs[i].componenten[n].kind
           /\ HasOf(new, "Transform") <=> HasOf(objs[i], "Transform")
           /\ HasOf(new, "Transform") =>
                  /\ TransformOf(new).pGOID = TransformOf(objs[i]).pGOID
                  /\ TransformOf(new).parrent =
                         IF TransformOf(objs[i]).pGOID # EMPTY_ID
                         THEN TransformOf(objs[i]).pGOID ELSE TransformOf(objs[i]).parrent
<1>1. PICK o : o = objs[i]
    OBVIOUS
<1>2. o \in Object /\ i \in DOMAIN objs
    BY <1>1, InForest
<1>3. PICK p : p = TransformOf(o).pGOID
    OBVIOUS
<1>4. PICK t : t = [TransformOf(o) EXCEPT !.parrent = p]
    OBVIOUS
<1>5. new = IF HasOf(o, "Transform") /\ p # EMPTY_ID THEN WithTransform(o, t) ELSE o
    BY <1>1, <1>2, <1>3, <1>4 DEF Resolved
<1>6. CASE HasOf(o, "Transform") /\ p # EMPTY_ID
    <2>1. TransformOf(o) \in Component /\ TransformOf(o).kind = "Transform"
        BY <1>2, <1>6, TransformIn
    <2>2. p \in Id
        BY <1>3, <2>1 DEF Component
    <2>3. t \in Component /\ t.kind = "Transform" /\ t.pGOID = p /\ t.parrent = p
        BY <1>3, <1>4, <2>1, <2>2, ParrentPut
    <2>4. new = WithTransform(o, t)
        BY <1>5, <1>6
    <2>5. /\ new \in Object
          /\ new.parrentID = o.parrentID /\ new.childrenIds = o.childrenIds
          /\ Len(new.componenten) = Len(o.componenten)
          /\ \A n \in 1 .. Len(o.componenten) :
                 new.componenten[n].kind = o.componenten[n].kind
          /\ HasOf(new, "Transform") /\ TransformOf(new) = t
        BY <1>2, <1>6, <2>3, <2>4, ChangedTransform
    <2> QED
        BY <1>1, <1>3, <1>6, <2>3, <2>5
<1>7. CASE ~(HasOf(o, "Transform") /\ p # EMPTY_ID)
    <2>1. new = o
        BY <1>5, <1>7
    <2> QED
        BY <1>1, <1>2, <1>3, <1>7, <2>1
<1> QED
    BY <1>6, <1>7

\* afterSet changes pointers and no links, ids or saved parents.
LEMMA ResolvedScene ==
    ASSUME NEW objs, NEW c, NEW parted, Sound(objs, c, parted), NEW new, new = Resolved(objs)
    PROVE  Sound(new, c, parted) /\ DOMAIN new = DOMAIN objs
<1>1. c \in Nat /\ objs \in Forest(c) /\ Linked(objs, parted)
    BY DEF Sound
<1>2. DOMAIN objs = 0 .. c - 1 /\ DOMAIN new = 0 .. c - 1 /\ new = [i \in 0 .. c - 1 |-> new[i]]
    BY <1>1, InForest DEF Resolved
<1>3. ASSUME NEW i \in 0 .. c - 1
      PROVE  /\ new[i] \in Object
             /\ new[i].parrentID = objs[i].parrentID
             /\ new[i].childrenIds = objs[i].childrenIds
             /\ HasOf(new[i], "Transform") <=> HasOf(objs[i], "Transform")
             /\ HasOf(new[i], "Transform") =>
                    TransformOf(new[i]).pGOID = TransformOf(objs[i]).pGOID
    <2>1. PICK o : o = new[i]
        OBVIOUS
    <2>2. o = Resolved(objs)[i]
        BY <2>1
    <2>3. /\ o \in Object
          /\ o.parrentID = objs[i].parrentID /\ o.childrenIds = objs[i].childrenIds
          /\ HasOf(o, "Transform") <=> HasOf(objs[i], "Transform")
          /\ HasOf(o, "Transform") => TransformOf(o).pGOID = TransformOf(objs[i]).pGOID
        BY <1>1, <2>2, ResolvedObject
    <2> QED
        BY <2>1, <2>3
<1>4. new \in Storage(c)
    BY <1>2, <1>3 DEF Storage
<1>5. new \in Forest(c) /\ Linked(new, parted)
    BY <1>1, <1>3, <1>4, SameLinks
<1>6. ASSUME parted = {} PROVE Resolvable(new)
    <2>1. Resolvable(objs)
        BY <1>6 DEF Sound
    <2> QED
        BY <1>2, <1>3, <2>1, ResolvableKept
<1> QED
    BY <1>1, <1>2, <1>5, <1>6 DEF Sound

-----------------------------------------------------------------------------
(* Every step keeps the invariant. *)

\* What an action that neither fails nor touches the file has to keep
LEMMA Usual ==
    ASSUME IInv, ~undefined, UNCHANGED <<file, undefined, saved>>,
           NEW objs, objs = objects', NEW c, c = counter', NEW parted, parted = torn',
           NEW excepted, excepted = assigned', NEW waiting, waiting = pending',
           Sound(objs, c, parted), Parents(objs, excepted, waiting),
           OwnNames => AllComplete(objs)
    PROVE  IInv'
<1>1. Sound(objects, counter, torn)' /\ Parents(objects, assigned, pending)'
      /\ (OwnNames => AllComplete(objects)')
    OBVIOUS
<1>2. Sound(saved.objects, saved.counter, saved.torn)'
      /\ (file # NoFile => file = SerializedScene(saved.objects))'
      /\ (OwnNames => AllComplete(saved.objects)')
    BY DEF IInv
<1>3. UndefinedOnlyAfterFault'
    BY DEF UndefinedOnlyAfterFault
<1>4. OwnNames' <=> OwnNames
    BY DEF OwnNames
<1> QED
    BY <1>1, <1>2, <1>3, <1>4 DEF IInv

\* Undefined behaviour is allowed for after a torn link or without a file.
LEMMA GoesWrong ==
    ASSUME IInv, GoesUndefined, torn # {} \/ file = NoFile
    PROVE  IInv'
<1>1. UndefinedOnlyAfterFault'
    BY DEF GoesUndefined, UndefinedOnlyAfterFault
<1>2. OwnNames' <=> OwnNames
    BY DEF OwnNames
<1> QED
    BY <1>1, <1>2 DEF IInv, GoesUndefined

\* createGameObject finds the next id free.
LEMMA StepCreate ==
    ASSUME IInv, NEW name \in Names, createGameObject(name)
    PROVE  IInv'
<1>1. PICK new : new = WithNew(objects, counter, name)
    OBVIOUS
<1>2. ~undefined /\ objects' = new /\ counter' = counter + 1
      /\ UNCHANGED <<file, undefined, torn, assigned, pending, saved>>
    BY <1>1 DEF createGameObject, WithNew
<1>3. /\ Sound(new, counter + 1, torn) /\ DOMAIN new = 0 .. counter
      /\ new[counter] = NewObject(name) /\ \A i \in 0 .. counter - 1 : new[i] = objects[i]
    BY <1>1, Created DEF IInv
<1>4. counter \in Nat /\ DOMAIN objects = 0 .. counter - 1
      /\ \A i \in 0 .. counter : i = counter \/ i \in 0 .. counter - 1
    BY InForest DEF IInv, Sound
<1>5. PICK o : o = NewObject(name)
    OBVIOUS
<1>6. ~HasOf(o, "Transform") /\ DOMAIN o.componenten = {}
    BY <1>5, NewIsObject
<1>7. Parents(new, assigned, pending)
    BY <1>3, <1>4, <1>5, <1>6 DEF IInv, Parents
<1>8. ASSUME OwnNames PROVE AllComplete(new)
    <2>1. Complete(o.componenten)
        BY <1>6 DEF Complete
    <2> QED
        BY <1>3, <1>4, <1>5, <1>8, <2>1 DEF IInv, AllComplete
<1> QED
    BY <1>2, <1>3, <1>7, <1>8, Usual

\* Without an object that was torn out, a child is where its parent says.
LEMMA MayLeave ==
    ASSUME Sound(objects, counter, torn), NEW i \in DOMAIN objects, i \notin torn
    PROVE  CanLeave(i)
<1>1. DOMAIN objects = 0 .. counter - 1 /\ counter \in Nat
    BY InForest DEF Sound
<1>2. PICK p : p = objects[i].parrentID
    OBVIOUS
<1>3. CASE p = EMPTY_ID
    BY <1>2, <1>3 DEF CanLeave
<1>4. CASE p # EMPTY_ID
    <2>1. p \in DOMAIN objects
        BY <1>1, <1>2, <1>4, InForest DEF Sound
    <2>2. Once(objects[p].childrenIds, i)
        BY <1>2, <2>1 DEF Sound, Linked
    <2>3. i \in Range(objects[p].childrenIds)
        BY <2>2 DEF Once, Range
    <2> QED
        BY <1>2, <2>1, <2>3 DEF CanLeave, Exists
<1> QED
    BY <1>3, <1>4

\* What is said of components alone does not depend on links.
LEMMA KeptComponents ==
    ASSUME NEW objs, NEW new, Kept(objs, new)
    PROVE  /\ \A a, b : Parents(objs, a, b) => Parents(new, a, b)
           /\ AllComplete(objs) => AllComplete(new)
<1>1. DOMAIN new = DOMAIN objs
    BY DEF Kept
<1>2. \A j \in DOMAIN objs :
          /\ HasOf(new[j], "Transform") <=> HasOf(objs[j], "Transform")
          /\ TransformOf(new[j]) = TransformOf(objs[j])
    BY KeptTransforms
<1>3. \A a, b : Parents(objs, a, b) => Parents(new, a, b)
    BY <1>1, <1>2 DEF Parents
<1>4. AllComplete(objs) => AllComplete(new)
    BY <1>1 DEF AllComplete, Kept
<1> QED
    BY <1>3, <1>4

\* The links change and the components do not.
LEMMA Moved ==
    ASSUME IInv, ~undefined, UNCHANGED <<counter, file, undefined, assigned, pending, saved>>,
           NEW new, new = objects', Kept(objects, new), new \in Forest(counter),
           NEW parted, parted = torn', Linked(new, parted), torn \subseteq parted
    PROVE  IInv'
<1>1. Sound(new, counter, parted)
    <2>1. counter \in Nat /\ (parted = {} => Resolvable(objects))
        BY DEF IInv, Sound
    <2>2. Resolvable(objects) => Resolvable(new)
        BY KeptTransforms
    <2> QED
        BY <2>1, <2>2 DEF Sound
<1>2. Parents(new, assigned, pending)
    BY KeptComponents DEF IInv
<1>3. OwnNames => AllComplete(new)
    BY KeptComponents DEF IInv
<1> QED
    BY <1>1, <1>2, <1>3, Usual

\* setParrent finds the child with its parent, unless a link was torn.
LEMMA StepSetParrent ==
    ASSUME IInv, NEW i \in DOMAIN objects, NEW p \in DOMAIN objects, setParrent(i, p)
    PROVE  IInv'
<1>1. Sound(objects, counter, torn) /\ counter \in Nat
    BY DEF IInv, Sound
<1>2. DOMAIN objects = 0 .. counter - 1
    BY <1>1, InForest DEF Sound
<1>3. CASE ~CanLeave(i)
    <2>1. torn # {}
        BY <1>1, <1>3, MayLeave
    <2>2. GoesUndefined
        BY <1>3 DEF setParrent
    <2> QED
        BY <2>1, <2>2, GoesWrong
<1>4. CASE CanLeave(i)
    <2>1. PICK mid : mid = Left(i)
        OBVIOUS
    <2>2. PICK new : new = Joined(mid, i, p)
        OBVIOUS
    <2>3. mid \in Forest(counter) /\ Apart(mid, torn, i) /\ Kept(objects, mid)
        BY <1>1, <1>2, <1>4, <2>1, LeftApart
    <2>4. new \in Forest(counter) /\ Linked(new, torn) /\ Kept(mid, new)
        BY <1>1, <1>2, <2>2, <2>3, JoinedLinked
    <2>5. Kept(objects, new)
        BY <2>3, <2>4 DEF Kept
    <2>6. ~undefined /\ objects' = new
          /\ UNCHANGED <<counter, file, undefined, torn, assigned, pending, saved>>
        BY <1>4, <2>1, <2>2 DEF setParrent
    <2> QED
        BY <2>4, <2>5, <2>6, Moved
<1> QED
    BY <1>3, <1>4

\* An id that is not there leaves the child half moved.
LEMMA StepSetParrentID ==
    ASSUME IInv, NEW i \in DOMAIN objects, NEW p, setParrentID(i, p)
    PROVE  IInv'
<1>1. Sound(objects, counter, torn) /\ counter \in Nat
    BY DEF IInv, Sound
<1>2. DOMAIN objects = 0 .. counter - 1
    BY <1>1, InForest DEF Sound
<1>3. CASE ~CanLeave(i)
    <2>1. torn # {}
        BY <1>1, <1>3, MayLeave
    <2>2. GoesUndefined
        BY <1>3 DEF setParrentID
    <2> QED
        BY <2>1, <2>2, GoesWrong
<1>4. CASE CanLeave(i)
    <2>1. PICK mid : mid = Left(i)
        OBVIOUS
    <2>2. /\ mid \in Forest(counter) /\ Apart(mid, torn, i) /\ Kept(objects, mid)
          /\ objects[i].parrentID = EMPTY_ID => mid = objects
        BY <1>1, <1>2, <1>4, <2>1, LeftApart
    <2>3. /\ ~undefined /\ UNCHANGED <<counter, file, undefined, assigned, pending, saved>>
          /\ objects' = (IF p = EMPTY_ID THEN [mid EXCEPT ![i].parrentID = EMPTY_ID]
                         ELSE IF Exists(p) THEN Joined(mid, i, p) ELSE mid)
          /\ torn' = (IF p # EMPTY_ID /\ ~Exists(p) /\ objects[i].parrentID # EMPTY_ID
                      THEN torn \cup {i} ELSE torn)
        BY <1>4, <2>1 DEF setParrentID
    <2>4. CASE p = EMPTY_ID
        <3>1. PICK new : new = [mid EXCEPT ![i].parrentID = EMPTY_ID]
            OBVIOUS
        <3>2. new \in Forest(counter) /\ Linked(new, torn) /\ Kept(mid, new)
            BY <1>1, <1>2, <2>2, <3>1, RootedLinked
        <3>3. Kept(objects, new)
            BY <2>2, <3>2 DEF Kept
        <3>4. objects' = new /\ torn' = torn
            BY <2>3, <2>4, <3>1
        <3> QED
            BY <2>3, <3>2, <3>3, <3>4, Moved
    <2>5. CASE p # EMPTY_ID /\ Exists(p)
        <3>1. PICK new : new = Joined(mid, i, p)
            OBVIOUS
        <3>2. p \in 0 .. counter - 1
            BY <1>2, <2>5 DEF Exists
        <3>3. new \in Forest(counter) /\ Linked(new, torn) /\ Kept(mid, new)
            BY <1>1, <1>2, <2>2, <3>1, <3>2, JoinedLinked
        <3>4. Kept(objects, new)
            BY <2>2, <3>3 DEF Kept
        <3>5. objects' = new /\ torn' = torn
            BY <2>3, <2>5, <3>1
        <3> QED
            BY <2>3, <3>3, <3>4, <3>5, Moved
    <2>6. CASE p # EMPTY_ID /\ ~Exists(p) /\ objects[i].parrentID # EMPTY_ID
        <3>1. objects' = mid /\ torn' = torn \cup {i}
            BY <2>3, <2>6
        <3>2. PICK parted : parted = torn \cup {i}
            OBVIOUS
        <3>3. Linked(mid, parted) /\ torn \subseteq parted
            BY <2>2, <3>2 DEF Apart
        <3> QED
            BY <2>2, <2>3, <3>1, <3>2, <3>3, Moved
    <2>7. CASE p # EMPTY_ID /\ ~Exists(p) /\ objects[i].parrentID = EMPTY_ID
        <3>1. objects' = mid /\ torn' = torn /\ mid = objects
            BY <2>2, <2>3, <2>7
        <3>2. Linked(mid, torn)
            BY <1>1, <3>1 DEF Sound
        <3> QED
            BY <2>2, <2>3, <3>1, <3>2, Moved
    <2> QED
        BY <2>4, <2>5, <2>6, <2>7
<1> QED
    BY <1>3, <1>4

\* A Transform changes.
LEMMA Changed ==
    ASSUME IInv, ~undefined, NEW i \in DOMAIN objects, HasOf(objects[i], "Transform"),
           NEW t \in Component, t.kind = "Transform", ChangesTransform(i, t),
           \/ t.pGOID = TransformOf(objects[i]).pGOID
           \/ t.pGOID \in DOMAIN objects /\ HasOf(objects[t.pGOID], "Transform"),
           NEW excepted, excepted = assigned', assigned \ {i} \subseteq excepted,
           \/ i \in excepted
           \/ t.parrent = t.pGOID
           \/ i \in pending /\ t.parrent = EMPTY_ID
    PROVE  IInv'
<1>1. Sound(objects, counter, torn) /\ counter \in Nat
    BY DEF IInv, Sound
<1>2. DOMAIN objects = 0 .. counter - 1 /\ objects[i] \in Object
    BY <1>1, InForest DEF Sound
<1>3. PICK o : o = WithTransform(objects[i], t)
    OBVIOUS
<1>4. /\ o \in Object
      /\ o.parrentID = objects[i].parrentID /\ o.childrenIds = objects[i].childrenIds
      /\ Len(o.componenten) = Len(objects[i].componenten)
      /\ \A n \in 1 .. Len(objects[i].componenten) :
             o.componenten[n].kind = objects[i].componenten[n].kind
      /\ HasOf(o, "Transform") /\ TransformOf(o) = t
    <2>1. PICK q : q = objects[i]
        OBVIOUS
    <2>2. q \in Object /\ HasOf(q, "Transform") /\ o = WithTransform(q, t)
        BY <1>2, <1>3, <2>1
    <2>3. /\ o \in Object
          /\ o.parrentID = q.parrentID /\ o.childrenIds = q.childrenIds
          /\ Len(o.componenten) = Len(q.componenten)
          /\ \A n \in 1 .. Len(q.componenten) : o.componenten[n].kind = q.componenten[n].kind
          /\ HasOf(o, "Transform") /\ TransformOf(o) = t
        BY <2>2, ChangedTransform
    <2> QED
        BY <2>1, <2>3
<1>5. PICK new : new = [objects EXCEPT ![i] = o]
    OBVIOUS
<1>6. objects' = new /\ UNCHANGED <<counter, file, undefined, torn, pending, saved>>
    BY <1>3, <1>5 DEF ChangesTransform
<1>7. /\ Sound(new, counter, torn) /\ DOMAIN new = 0 .. counter - 1 /\ new[i] = o
      /\ \A j \in 0 .. counter - 1 : j # i => new[j] = objects[j]
    BY <1>1, <1>2, <1>4, <1>5, Composed
<1>8. Parents(new, excepted, pending)
    <2> SUFFICES ASSUME NEW j \in DOMAIN objects, j \notin excepted,
                        HasOf(new[j], "Transform")
                 PROVE  \/ TransformOf(new[j]).parrent = TransformOf(new[j]).pGOID
                        \/ j \in pending /\ TransformOf(new[j]).parrent = EMPTY_ID
        BY <1>2, <1>7 DEF Parents
    <2>1. CASE j = i
        BY <1>4, <1>7, <2>1
    <2>2. CASE j # i
        <3>1. j \notin assigned /\ new[j] = objects[j]
            BY <1>2, <1>7, <2>2
        <3> QED
            BY <3>1 DEF IInv, Parents
    <2> QED
        BY <2>1, <2>2
<1>9. ASSUME OwnNames PROVE AllComplete(new)
    <2>1. \A j \in DOMAIN objects : Complete(objects[j].componenten)
        BY <1>9 DEF IInv, AllComplete
    <2>2. Complete(o.componenten)
        BY <1>2, <1>4, <2>1, SameKinds
    <2> QED
        BY <1>2, <1>7, <2>1, <2>2 DEF AllComplete
<1> QED
    BY <1>6, <1>7, <1>8, <1>9, Usual

\* A component is added behind those it requires.
LEMMA CompleteMore ==
    ASSUME NEW o \in Object, NEW kind \in Kinds, NEW new \in Object,
           Len(new.componenten) = Len(o.componenten) + 1,
           new.componenten[Len(o.componenten) + 1].kind = kind,
           \A n \in 1 .. Len(o.componenten) : new.componenten[n] = o.componenten[n],
           ~(kind \in Lonly /\ HasOf(o, kind)),
           \A required \in Range(Requires[kind]) : HasOf(o, required),
           Complete(o.componenten)
    PROVE  Complete(new.componenten)
<1>1. PICK cs : cs = o.componenten
    OBVIOUS
<1>2. PICK ds : ds = new.componenten
    OBVIOUS
<1>3. PICK size : size = Len(cs)
    OBVIOUS
<1>4. cs \in Seq(Component) /\ ds \in Seq(Component)
    BY <1>1, <1>2 DEF Object, Components
<1>5. /\ size \in Nat /\ DOMAIN cs = 1 .. size /\ DOMAIN ds = 1 .. size + 1
      /\ ds[size + 1].kind = kind /\ \A n \in 1 .. size : ds[n] = cs[n]
    BY <1>1, <1>2, <1>3, <1>4, LenProperties
<1>6. \A other : HasOf(o, other) <=> \E m \in 1 .. size : cs[m].kind = other
    BY <1>1, <1>5 DEF HasOf, Positions
<1>7. ASSUME NEW n \in 1 .. size + 1
      PROVE  /\ \A required \in Range(Requires[ds[n].kind]) :
                    \E m \in 1 .. n - 1 : ds[m].kind = required
             /\ ds[n].kind \in Lonly => \A m \in 1 .. n - 1 : ds[m].kind # ds[n].kind
    <2>1. CASE n = size + 1
        <3>1. n - 1 = size /\ ds[n].kind = kind
            BY <1>5, <2>1
        <3>2. \A required \in Range(Requires[kind]) : \E m \in 1 .. size : ds[m].kind = required
            BY <1>5, <1>6
        <3>3. kind \in Lonly => \A m \in 1 .. size : ds[m].kind # kind
            BY <1>5, <1>6
        <3> QED
            BY <3>1, <3>2, <3>3
    <2>2. CASE n \in 1 .. size
        <3>1. PICK other : other = cs[n].kind
            OBVIOUS
        <3>2. /\ \A required \in Range(Requires[other]) :
                     \E m \in 1 .. n - 1 : cs[m].kind = required
              /\ other \in Lonly => \A m \in 1 .. n - 1 : cs[m].kind # other
            <4>1. Complete(cs) /\ n \in DOMAIN cs
                BY <1>1, <1>5, <2>2
            <4>2. /\ \A required \in Range(Requires[cs[n].kind]) :
                         \E m \in 1 .. n - 1 : cs[m].kind = required
                  /\ cs[n].kind \in Lonly => \A m \in 1 .. n - 1 : cs[m].kind # cs[n].kind
                BY <4>1 DEF Complete
            <4> QED
                BY <3>1, <4>2
        <3>3. ds[n].kind = other /\ \A m \in 1 .. n - 1 : ds[m] = cs[m]
            <4>1. \A m \in 1 .. n - 1 : m \in 1 .. size
                BY <1>5, <2>2
            <4> QED
                BY <1>5, <2>2, <3>1, <4>1
        <3> QED
            BY <3>2, <3>3
    <2> QED
        BY <1>5, <2>1, <2>2
<1>8. Complete(ds)
    BY <1>5, <1>7 DEF Complete
<1> QED
    BY <1>2, <1>8

\* addComponent checks what completeness asks for.
LEMMA StepAddComponent ==
    ASSUME IInv, NEW i \in DOMAIN objects, NEW kind \in Kinds, addComponent(i, kind)
    PROVE  IInv'
<1>1. Sound(objects, counter, torn) /\ counter \in Nat
    BY DEF IInv, Sound
<1>2. DOMAIN objects = 0 .. counter - 1 /\ objects[i] \in Object
    BY <1>1, InForest DEF Sound
<1>3. PICK q : q = objects[i]
    OBVIOUS
<1>4. PICK o : o = WithComponent(q, kind)
    OBVIOUS
<1>5. q \in Object
    BY <1>2, <1>3
<1>6. /\ o \in Object
      /\ o.parrentID = q.parrentID /\ o.childrenIds = q.childrenIds
      /\ Len(o.componenten) = Len(q.componenten) + 1
      /\ o.componenten[Len(q.componenten) + 1].kind = kind
      /\ \A n \in 1 .. Len(q.componenten) : o.componenten[n] = q.componenten[n]
      /\ HasOf(q, "Transform") => HasOf(o, "Transform") /\ TransformOf(o) = TransformOf(q)
      /\ HasOf(o, "Transform") /\ ~HasOf(q, "Transform") => TransformOf(o) = NewComponent(kind)
    BY <1>4, <1>5, AddedComponent
<1>7. PICK t : t = NewComponent(kind)
    OBVIOUS
<1>8. t.pGOID = EMPTY_ID /\ t.parrent = EMPTY_ID
    BY <1>7, NewIsComponent
<1>9. PICK new : new = [objects EXCEPT ![i] = o]
    OBVIOUS
<1>10. /\ ~undefined /\ objects' = new
       /\ UNCHANGED <<counter, file, undefined, torn, assigned, pending, saved>>
       /\ ~(kind \in Lonly /\ HasOf(q, kind))
       /\ \A required \in Range(Requires[kind]) : HasOf(q, required)
    BY <1>3, <1>4, <1>9 DEF addComponent, AddTo, WithComponent
<1>11. /\ Sound(new, counter, torn) /\ DOMAIN new = 0 .. counter - 1 /\ new[i] = o
       /\ \A j \in 0 .. counter - 1 : j # i => new[j] = objects[j]
    <2>1. HasOf(o, "Transform") /\ TransformOf(o).pGOID # EMPTY_ID =>
              HasOf(objects[i], "Transform")
              /\ TransformOf(objects[i]).pGOID = TransformOf(o).pGOID
        BY <1>3, <1>6, <1>7, <1>8
    <2>2. o.parrentID = objects[i].parrentID /\ o.childrenIds = objects[i].childrenIds
          /\ (HasOf(objects[i], "Transform") => HasOf(o, "Transform"))
        BY <1>3, <1>6
    <2> QED
        BY <1>1, <1>2, <1>6, <1>9, <2>1, <2>2, Composed
<1>12. Parents(new, assigned, pending)
    <2> SUFFICES ASSUME NEW j \in DOMAIN objects, j \notin assigned,
                        HasOf(new[j], "Transform")
                 PROVE  \/ TransformOf(new[j]).parrent = TransformOf(new[j]).pGOID
                        \/ j \in pending /\ TransformOf(new[j]).parrent = EMPTY_ID
        BY <1>2, <1>11 DEF Parents
    <2>1. CASE j = i /\ HasOf(q, "Transform")
        BY <1>3, <1>6, <1>11, <2>1 DEF IInv, Parents
    <2>2. CASE j = i /\ ~HasOf(q, "Transform")
        BY <1>6, <1>7, <1>8, <1>11, <2>2
    <2>3. CASE j # i
        BY <1>2, <1>11, <2>3 DEF IInv, Parents
    <2> QED
        BY <2>1, <2>2, <2>3
<1>13. ASSUME OwnNames PROVE AllComplete(new)
    <2>1. \A j \in DOMAIN objects : Complete(objects[j].componenten)
        BY <1>13 DEF IInv, AllComplete
    <2>2. Complete(q.componenten)
        BY <1>3, <2>1
    <2>3. Complete(o.componenten)
        BY <1>5, <1>6, <1>10, <2>2, CompleteMore
    <2> QED
        BY <1>2, <1>11, <2>1, <2>3 DEF AllComplete
<1> QED
    BY <1>10, <1>11, <1>12, <1>13, Usual

\* A new position changes no pointer and no saved parent.
LEMMA StepSetPosition ==
    ASSUME IInv, NEW i \in DOMAIN objects, NEW place \in Places, SetPosition(i, place)
    PROVE  IInv'
<1>1. objects[i] \in Object /\ ~undefined /\ HasOf(objects[i], "Transform")
    BY InForest DEF IInv, Sound, SetPosition
<1>2. PICK c : c = TransformOf(objects[i])
    OBVIOUS
<1>3. c \in Component /\ c.kind = "Transform"
    BY <1>1, <1>2, TransformIn
<1>4. PICK t : t = [c EXCEPT !.place = place]
    OBVIOUS
<1>5. t \in Component /\ t.kind = "Transform" /\ t.pGOID = c.pGOID /\ t.parrent = c.parrent
    BY <1>3, <1>4, PlacePut
<1>6. ChangesTransform(i, t) /\ assigned' = assigned
    BY <1>2, <1>4 DEF SetPosition
<1>7. i \in assigned \/ t.parrent = t.pGOID \/ (i \in pending /\ t.parrent = EMPTY_ID)
    BY <1>1, <1>2, <1>5 DEF IInv, Parents
<1> QED
    BY <1>1, <1>2, <1>5, <1>6, <1>7, Changed

\* Transform::setParrent sets both, or throws in between, which is then
\* recorded.
LEMMA StepSetTransformParrent ==
    ASSUME IInv, NEW i \in DOMAIN objects, NEW p \in DOMAIN objects, setTransformParrent(i, p)
    PROVE  IInv'
<1>1. /\ objects[i] \in Object /\ ~undefined /\ p \in Id
      /\ HasOf(objects[i], "Transform") /\ HasOf(objects[p], "Transform")
    <2>1. p \in Nat /\ objects[i] \in Object
        BY InForest DEF IInv, Sound
    <2> QED
        BY <2>1 DEF setTransformParrent, Id
<1>2. PICK c : c = TransformOf(objects[i])
    OBVIOUS
<1>3. c \in Component /\ c.kind = "Transform"
    BY <1>1, <1>2, TransformIn
<1>4. CASE Cardinality(Positions(objects[p], "Transform")) = 1
    <2>1. PICK t : t = WithParrent(c, p)
        OBVIOUS
    <2>2. t \in Component /\ t.kind = "Transform" /\ t.pGOID = p /\ t.parrent = p
        BY <1>1, <1>3, <2>1, ParrentSet
    <2>3. ChangesTransform(i, t) /\ assigned' = assigned \ {i}
        BY <1>2, <1>4, <2>1 DEF setTransformParrent, WithParrent
    <2>4. PICK excepted : excepted = assigned \ {i}
        OBVIOUS
    <2> QED
        BY <1>1, <2>2, <2>3, <2>4, Changed
<1>5. CASE Cardinality(Positions(objects[p], "Transform")) # 1
    <2>1. PICK t : t = [c EXCEPT !.parrent = p]
        OBVIOUS
    <2>2. t \in Component /\ t.kind = "Transform" /\ t.pGOID = c.pGOID
        BY <1>1, <1>3, <2>1, ParrentPut
    <2>3. ChangesTransform(i, t) /\ assigned' = assigned \cup {i}
        BY <1>2, <1>5, <2>1 DEF setTransformParrent
    <2>4. PICK excepted : excepted = assigned \cup {i}
        OBVIOUS
    <2>5. i \in excepted /\ assigned \ {i} \subseteq excepted
        BY <2>4
    <2> QED
        BY <1>1, <1>2, <2>2, <2>3, <2>4, <2>5, Changed
<1> QED
    BY <1>4, <1>5

\* An assignment to m_parrent is recorded.
LEMMA StepAssign ==
    ASSUME IInv, NEW i \in DOMAIN objects, NEW p \in DOMAIN objects,
           assignTransformParrent(i, p)
    PROVE  IInv'
<1>1. /\ objects[i] \in Object /\ ~undefined /\ p \in Id
      /\ HasOf(objects[i], "Transform")
    <2>1. p \in Nat /\ objects[i] \in Object
        BY InForest DEF IInv, Sound
    <2> QED
        BY <2>1 DEF assignTransformParrent, Id
<1>2. PICK c : c = TransformOf(objects[i])
    OBVIOUS
<1>3. c \in Component /\ c.kind = "Transform"
    BY <1>1, <1>2, TransformIn
<1>4. PICK t : t = [c EXCEPT !.parrent = p]
    OBVIOUS
<1>5. t \in Component /\ t.kind = "Transform" /\ t.pGOID = c.pGOID
    BY <1>1, <1>3, <1>4, ParrentPut
<1>6. ChangesTransform(i, t) /\ assigned' = assigned \cup {i}
    BY <1>2, <1>4 DEF assignTransformParrent
<1>7. PICK excepted : excepted = assigned \cup {i}
    OBVIOUS
<1>8. i \in excepted /\ assigned \ {i} \subseteq excepted
    BY <1>7
<1> QED
    BY <1>1, <1>2, <1>5, <1>6, <1>7, <1>8, Changed

\* The empty map has no ids.
LEMMA NothingThere == DOMAIN <<>> = {}
<1>1. 0 \in Nat /\ 0 .. 0 - 1 = {}
    OBVIOUS
<1>2. PICK objs : objs \in Storage(0)
    <2>1. [i \in 0 .. 0 - 1 |-> NewObject(<<>>)] \in Storage(0)
        BY <1>1 DEF Storage
    <2> QED
        BY <2>1
<1> QED
    BY <1>1, <1>2, NoObjects

\* clear leaves the empty storage.
LEMMA StepClear ==
    ASSUME IInv, clear
    PROVE  IInv'
<1>1. PICK e : e = <<>>
    OBVIOUS
<1>2. ~undefined /\ objects' = e /\ counter' = 0 /\ torn' = {} /\ assigned' = {}
      /\ pending' = {} /\ UNCHANGED <<file, undefined, saved>>
    BY <1>1 DEF clear
<1>3. Sound(e, 0, {})
    BY <1>1, SoundEmpty
<1>4. DOMAIN e = {}
    BY <1>1, NothingThere
<1>5. Parents(e, {}, {}) /\ AllComplete(e)
    BY <1>4 DEF Parents, AllComplete
<1> QED
    BY <1>2, <1>3, <1>5, Usual

\* The file holds the storage as it is now.
LEMMA StepSave ==
    ASSUME IInv, save
    PROVE  IInv'
<1>1. /\ ~undefined /\ file' = SerializedScene(objects)
      /\ saved' = [objects |-> objects, counter |-> counter, torn |-> torn]
      /\ UNCHANGED <<objects, counter, undefined, torn, assigned, pending>>
    BY DEF save
<1>2. saved'.objects = objects /\ saved'.counter = counter /\ saved'.torn = torn
    BY <1>1
<1>3. Sound(objects, counter, torn)' /\ Parents(objects, assigned, pending)'
      /\ UndefinedOnlyAfterFault'
    BY <1>1 DEF IInv, UndefinedOnlyAfterFault
<1>4. Sound(saved.objects, saved.counter, saved.torn)'
      /\ (file # NoFile => file = SerializedScene(saved.objects))'
    BY <1>1, <1>2 DEF IInv
<1>5. OwnNames' <=> OwnNames
    BY DEF OwnNames
<1>6. (OwnNames => AllComplete(objects) /\ AllComplete(saved.objects))'
    BY <1>1, <1>2, <1>5 DEF IInv
<1> QED
    BY <1>3, <1>4, <1>6 DEF IInv

\* What is read from the file of a sound storage is sound, and no Transform
\* has a parent.
LEMMA RereadIs ==
    ASSUME NEW objs, NEW c, NEW parted, Sound(objs, c, parted), NEW new, new = Reread(objs, c)
    PROVE  /\ Sound(new, c, parted) /\ DOMAIN new = 0 .. c - 1
           /\ \A i \in 0 .. c - 1 : new[i] = BackObject(objs[i]) /\ objs[i] \in Object
           /\ \A i \in 0 .. c - 1 :
                  HasOf(new[i], "Transform") => TransformOf(new[i]).parrent = EMPTY_ID
<1>1. c \in Nat /\ objs \in Forest(c)
    BY DEF Sound
<1>2. Sound(new, c, parted) /\ DOMAIN new = 0 .. c - 1
    <2>1. Sound(new, c, parted)
        BY LoadedScene
    <2>2. DOMAIN new = 0 .. c - 1
        BY DEF Reread
    <2> QED
        BY <2>1, <2>2
<1>3. \A i \in 0 .. c - 1 : new[i] = BackObject(objs[i]) /\ objs[i] \in Object
    BY <1>1, InForest DEF Reread
<1>4. ASSUME NEW i \in 0 .. c - 1, HasOf(new[i], "Transform")
      PROVE  TransformOf(new[i]).parrent = EMPTY_ID
    <2>1. PICK o : o = objs[i]
        OBVIOUS
    <2>2. PICK q : q = new[i]
        OBVIOUS
    <2>3. o \in Object /\ q = BackObject(o) /\ HasOf(q, "Transform")
        BY <1>3, <1>4, <2>1, <2>2
    <2>4. TransformOf(q) = Back(TransformOf(o))
        BY <2>3, LoadedObject
    <2> QED
        BY <2>2, <2>4 DEF Back
<1> QED
    BY <1>2, <1>3, <1>4

\* With components that write their own names, what was complete is so again.
LEMMA RereadComplete ==
    ASSUME OwnNames, NEW objs, NEW c, NEW parted, Sound(objs, c, parted), AllComplete(objs),
           NEW new, new = Reread(objs, c)
    PROVE  \A i \in 0 .. c - 1 : Complete(new[i].componenten)
<1>1. c \in Nat /\ objs \in Forest(c)
    BY DEF Sound
<1>2. DOMAIN objs = 0 .. c - 1 /\ \A i \in 0 .. c - 1 : objs[i] \in Object
    BY <1>1, InForest
<1> SUFFICES ASSUME NEW i \in 0 .. c - 1
             PROVE  Complete(new[i].componenten)
    OBVIOUS
<1>3. PICK o : o = objs[i]
    OBVIOUS
<1>4. PICK q : q = new[i]
    OBVIOUS
<1>5. o \in Object /\ q = BackObject(o) /\ Complete(o.componenten)
    BY <1>2, <1>3, <1>4 DEF AllComplete, Reread
<1>6. q \in Object /\ Len(q.componenten) = Len(o.componenten)
      /\ \A n \in 1 .. Len(o.componenten) : q.componenten[n] = Back(o.componenten[n])
    BY <1>5, LoadedObject
<1>7. o.componenten \in Seq(Component)
    BY <1>5 DEF Object, Components
<1>8. \A n \in 1 .. Len(o.componenten) : o.componenten[n].kind \in Kinds
    <2>1. \A n \in 1 .. Len(o.componenten) : o.componenten[n] \in Component
        BY <1>7, ElementOfSeq
    <2> QED
        BY <2>1 DEF Component
<1>9. \A n \in 1 .. Len(o.componenten) : q.componenten[n].kind = o.componenten[n].kind
    <2>1. \A k \in Kinds : WritesNameOf[k] = k
        BY DEF OwnNames
    <2>2. ASSUME NEW n \in 1 .. Len(o.componenten)
          PROVE  q.componenten[n].kind = o.componenten[n].kind
        <3>1. PICK part : part = o.componenten[n]
            OBVIOUS
        <3>2. q.componenten[n] = Back(part) /\ WritesNameOf[part.kind] = part.kind
            BY <1>6, <1>8, <2>1, <3>1
        <3>3. Back(part).kind = WritesNameOf[part.kind]
            BY DEF Back
        <3> QED
            BY <3>1, <3>2, <3>3
    <2> QED
        BY <2>2
<1> QED
    BY <1>4, <1>5, <1>6, <1>9, SameKinds

\* What load makes of a file that was saved
LEMMA StepLoad ==
    ASSUME IInv, load
    PROVE  IInv'
<1>1. PICK body : body = ReadScene(file)
    OBVIOUS
<1>2. PICK next : next = CounterAfter(body.value)
    OBVIOUS
<1>3. LoadScene(body, next) /\ ~undefined
    BY <1>1, <1>2 DEF load, LoadScene
<1>4. PICK c, d, held, other :
          c = counter /\ d = saved.counter /\ held = saved.objects /\ other = saved.torn
    OBVIOUS
<1>5. /\ Sound(objects, c, torn) /\ Sound(held, d, other) /\ c \in Nat /\ d \in Nat
      /\ objects \in Storage(c) /\ held \in Storage(d) /\ DOMAIN objects = 0 .. c - 1
    <2>1. Sound(objects, c, torn) /\ Sound(held, d, other)
        BY <1>4 DEF IInv
    <2>2. c \in Nat /\ objects \in Forest(c) /\ d \in Nat /\ held \in Forest(d)
        BY <2>1 DEF Sound
    <2> QED
        BY <2>1, <2>2, InForest
<1>6. CASE file = NoFile
    <2>1. ~body.r.ok
        BY <1>1, <1>6, NothingToRead
    <2>2. GoesUndefined
        BY <1>3, <2>1 DEF LoadScene
    <2> QED
        BY <1>6, <2>2, GoesWrong
<1>7. CASE file # NoFile
    <2>1. PICK more : more = Reread(held, d)
        OBVIOUS
    <2>2. body.r.ok /\ body.value = more
        <3>1. file = SerializedScene(held)
            BY <1>4, <1>7 DEF IInv
        <3>2. /\ ReadScene(SerializedScene(held)).r.ok
              /\ ReadScene(SerializedScene(held)).value = [i \in 0 .. d - 1 |-> BackObject(held[i])]
            BY <1>5, SceneBack
        <3> QED
            BY <1>1, <2>1, <3>1, <3>2 DEF Reread
    <2>3. /\ Sound(more, d, other) /\ DOMAIN more = 0 .. d - 1
          /\ \A i \in 0 .. d - 1 :
                 HasOf(more[i], "Transform") => TransformOf(more[i]).parrent = EMPTY_ID
        BY <1>5, <2>1, RereadIs
    <2>4. OwnNames => \A i \in 0 .. d - 1 : Complete(more[i].componenten)
        <3>1. OwnNames => AllComplete(held)
            BY <1>4 DEF IInv
        <3> QED
            BY <1>5, <2>1, <3>1, RereadComplete
    <2>5. next = IF c >= d THEN c ELSE d
        <3>1. next = Max({c} \cup {i + 1 : i \in 0 .. d - 1})
            BY <1>2, <1>4, <2>2, <2>3 DEF CounterAfter
        <3> QED
            BY <1>5, <3>1, CounterIs
    <2>6. PICK new : new = Inserted(objects, more)
        OBVIOUS
    <2>7. PICK waiting : waiting = pending \cup (DOMAIN more \ DOMAIN objects)
        OBVIOUS
    <2>8. PICK all : all = IF objects = <<>> THEN other
                           ELSE torn \cup other \cup DOMAIN more \cup DOMAIN objects
        OBVIOUS
    <2>9. /\ objects' = new /\ counter' = next /\ torn' = all /\ pending' = waiting
          /\ UNCHANGED <<file, undefined, assigned, saved>>
        BY <1>3, <1>4, <2>2, <2>6, <2>7, <2>8 DEF LoadScene
    <2>10. DOMAIN new = DOMAIN objects \cup DOMAIN more
           /\ \A i \in DOMAIN new : new[i] = IF i \in DOMAIN objects THEN objects[i] ELSE more[i]
        BY <2>6 DEF Inserted
    <2>11. Sound(new, next, all)
        <3>1. CASE c = 0
            <4>1. objects = <<>> /\ DOMAIN objects = {}
                BY <1>5, <3>1, NoObjects
            <4>2. next = d /\ all = other
                BY <1>5, <2>5, <2>8, <3>1, <4>1
            <4>3. new = more
                <5>1. new = [i \in DOMAIN more |-> more[i]]
                    BY <2>6, <4>1 DEF Inserted
                <5>2. more = [i \in DOMAIN more |-> more[i]]
                    BY <2>1, <2>3 DEF Reread
                <5> QED
                    BY <5>1, <5>2
            <4> QED
                BY <2>3, <4>2, <4>3
        <3>2. CASE c # 0
            <4>1. objects # <<>>
                BY <1>5, <3>2, NoObjects
            <4>2. all = torn \cup other \cup DOMAIN more \cup DOMAIN objects
                BY <2>8, <4>1
            <4> QED
                BY <1>5, <2>3, <2>5, <2>6, <3>2, <4>2, LoadedOver
        <3> QED
            BY <3>1, <3>2
    <2>12. Parents(new, assigned, waiting)
        <3> SUFFICES ASSUME NEW i \in DOMAIN new, i \notin assigned, HasOf(new[i], "Transform")
                     PROVE  \/ TransformOf(new[i]).parrent = TransformOf(new[i]).pGOID
                            \/ i \in waiting /\ TransformOf(new[i]).parrent = EMPTY_ID
            BY DEF Parents
        <3>1. CASE i \in DOMAIN objects
            <4>1. new[i] = objects[i]
                BY <2>10, <3>1
            <4> QED
                BY <2>7, <3>1, <4>1 DEF IInv, Parents
        <3>2. CASE i \notin DOMAIN objects
            <4>1. new[i] = more[i] /\ i \in DOMAIN more
                BY <2>10, <3>2
            <4> QED
                BY <2>3, <2>7, <3>2, <4>1
        <3> QED
            BY <3>1, <3>2
    <2>13. ASSUME OwnNames PROVE AllComplete(new)
        <3>1. \A i \in DOMAIN objects : Complete(objects[i].componenten)
            BY <2>13 DEF IInv, AllComplete
        <3> QED
            BY <2>3, <2>4, <2>10, <2>13, <3>1 DEF AllComplete
    <2> QED
        BY <1>3, <2>9, <2>11, <2>12, <2>13, Usual
<1> QED
    BY <1>6, <1>7

\* afterSet finds every id, and every parent that a Transform names.
LEMMA StepAfterSet ==
    ASSUME IInv, afterSet
    PROVE  IInv'
<1>1. Sound(objects, counter, torn) /\ counter \in Nat /\ objects \in Forest(counter)
    BY DEF IInv, Sound
<1>2. DOMAIN objects = 0 .. counter - 1 /\ \A i \in DOMAIN objects : objects[i] \in Object
    BY <1>1, InForest
<1>3. DOMAIN objects = 0 .. Cardinality(DOMAIN objects) - 1
    <2>1. Cardinality(0 .. counter - 1) = counter
        <3>1. 0 \in Int /\ counter - 1 \in Int
            BY <1>1
        <3>2. Cardinality(0 .. counter - 1)
                  = IF 0 > counter - 1 THEN 0 ELSE (counter - 1) - 0 + 1
            BY <3>1, FS_Interval
        <3> QED
            BY <1>1, <3>2
    <2> QED
        BY <1>2, <2>1
<1> DEFINE lost == \E i \in DOMAIN objects :
               /\ HasOf(objects[i], "Transform") /\ TransformOf(objects[i]).pGOID # EMPTY_ID
               /\ ~(/\ Exists(TransformOf(objects[i]).pGOID)
                    /\ HasOf(objects[TransformOf(objects[i]).pGOID], "Transform"))
<1>4. PICK new : new = Resolved(objects)
    OBVIOUS
<1>5. /\ ~undefined
      /\ lost => GoesUndefined
      /\ ~lost => /\ objects' = new /\ pending' = {}
                  /\ UNCHANGED <<counter, file, undefined, torn, assigned, saved>>
    BY <1>3, <1>4 DEF afterSet, Resolved
<1>6. CASE lost
    <2>1. ~Resolvable(objects)
        BY <1>6 DEF Resolvable, Exists
    <2>2. torn # {}
        BY <1>1, <2>1 DEF Sound
    <2>3. GoesUndefined
        BY <1>5, <1>6
    <2> HIDE DEF lost
    <2> QED
        BY <2>2, <2>3, GoesWrong
<1>7. CASE ~lost
    <2>1. /\ objects' = new /\ pending' = {}
          /\ UNCHANGED <<counter, file, undefined, torn, assigned, saved>>
        BY <1>5, <1>7
    <2> HIDE DEF lost
    <2>2. Sound(new, counter, torn) /\ DOMAIN new = DOMAIN objects
        BY <1>1, <1>4, ResolvedScene
    <2>3. ASSUME NEW i \in DOMAIN objects
          PROVE  /\ new[i] \in Object
                 /\ Len(new[i].componenten) = Len(objects[i].componenten)
                 /\ \A n \in 1 .. Len(objects[i].componenten) :
                        new[i].componenten[n].kind = objects[i].componenten[n].kind
                 /\ HasOf(new[i], "Transform") <=> HasOf(objects[i], "Transform")
                 /\ HasOf(new[i], "Transform") =>
                        /\ TransformOf(new[i]).pGOID = TransformOf(objects[i]).pGOID
                        /\ TransformOf(new[i]).parrent =
                               IF TransformOf(objects[i]).pGOID # EMPTY_ID
                               THEN TransformOf(objects[i]).pGOID
                               ELSE TransformOf(objects[i]).parrent
        <3>1. PICK o : o = new[i]
            OBVIOUS
        <3>2. o = Resolved(objects)[i] /\ i \in 0 .. counter - 1
            BY <1>2, <1>4, <3>1
        <3>3. /\ o \in Object
              /\ Len(o.componenten) = Len(objects[i].componenten)
              /\ \A n \in 1 .. Len(objects[i].componenten) :
                     o.componenten[n].kind = objects[i].componenten[n].kind
              /\ HasOf(o, "Transform") <=> HasOf(objects[i], "Transform")
              /\ HasOf(o, "Transform") =>
                     /\ TransformOf(o).pGOID = TransformOf(objects[i]).pGOID
                     /\ TransformOf(o).parrent =
                            IF TransformOf(objects[i]).pGOID # EMPTY_ID
                            THEN TransformOf(objects[i]).pGOID
                            ELSE TransformOf(objects[i]).parrent
            BY <1>1, <3>2, ResolvedObject
        <3> QED
            BY <3>1, <3>3
    <2>4. Parents(new, assigned, {})
        <3> SUFFICES ASSUME NEW i \in DOMAIN objects, i \notin assigned,
                            HasOf(new[i], "Transform")
                     PROVE  TransformOf(new[i]).parrent = TransformOf(new[i]).pGOID
            BY <2>2 DEF Parents
        <3>1. \/ TransformOf(objects[i]).parrent = TransformOf(objects[i]).pGOID
              \/ TransformOf(objects[i]).parrent = EMPTY_ID
            BY <2>3 DEF IInv, Parents
        <3> QED
            BY <2>3, <3>1
    <2>5. ASSUME OwnNames PROVE AllComplete(new)
        <3> SUFFICES ASSUME NEW i \in DOMAIN objects
                     PROVE  Complete(new[i].componenten)
            BY <2>2 DEF AllComplete
        <3>1. PICK o, q : o = objects[i] /\ q = new[i]
            OBVIOUS
        <3>2. o \in Object /\ q \in Object /\ Len(q.componenten) = Len(o.componenten)
              /\ \A n \in 1 .. Len(o.componenten) :
                     q.componenten[n].kind = o.componenten[n].kind
            BY <1>2, <2>3, <3>1
        <3>3. Complete(o.componenten)
            BY <2>5, <3>1 DEF IInv, AllComplete
        <3> QED
            BY <3>1, <3>2, <3>3, SameKinds
    <2> QED
        BY <1>5, <2>1, <2>2, <2>4, <2>5, Usual
<1> QED
    BY <1>6, <1>7

\* A stuttering step keeps the invariant.
LEMMA Stays ==
    ASSUME IInv, UNCHANGED vars
    PROVE  IInv'
<1>1. OwnNames' <=> OwnNames
    BY DEF OwnNames
<1> QED
    BY <1>1 DEF IInv, UndefinedOnlyAfterFault, vars

\* The invariant holds when the program starts.
LEMMA Starts ==
    ASSUME Init
    PROVE  IInv
<1>1. PICK e : e = <<>>
    OBVIOUS
<1>2. /\ objects = e /\ counter = 0 /\ torn = {} /\ assigned = {} /\ pending = {}
      /\ saved = [objects |-> e, counter |-> 0, torn |-> {}]
      /\ file = NoFile /\ undefined = FALSE
    BY <1>1 DEF Init
<1>3. saved.objects = e /\ saved.counter = 0 /\ saved.torn = {}
    BY <1>2
<1>4. Sound(e, 0, {})
    BY <1>1, SoundEmpty
<1>5. DOMAIN e = {}
    BY <1>1, NothingThere
<1>6. Parents(e, {}, {}) /\ AllComplete(e)
    BY <1>5 DEF Parents, AllComplete
<1> QED
    BY <1>2, <1>3, <1>4, <1>6 DEF IInv, UndefinedOnlyAfterFault

\* Every call keeps the invariant, whatever calls came before it.
LEMMA EveryStep ==
    ASSUME IInv, [Next]_vars
    PROVE  IInv'
<1>1. CASE Change
    <2>1. CASE \E name \in Names : createGameObject(name)
        BY <2>1, StepCreate
    <2>2. ASSUME NEW i \in DOMAIN objects, NEW p \in DOMAIN objects, setParrent(i, p)
          PROVE  IInv'
        BY <2>2, StepSetParrent
    <2>3. ASSUME NEW i \in DOMAIN objects, NEW p \in DOMAIN objects, setTransformParrent(i, p)
          PROVE  IInv'
        BY <2>3, StepSetTransformParrent
    <2>4. ASSUME NEW i \in DOMAIN objects, NEW p \in DOMAIN objects,
                 assignTransformParrent(i, p)
          PROVE  IInv'
        BY <2>4, StepAssign
    <2>5. ASSUME NEW i \in DOMAIN objects, NEW p, setParrentID(i, p)
          PROVE  IInv'
        BY <2>5, StepSetParrentID
    <2>6. ASSUME NEW i \in DOMAIN objects, NEW kind \in Kinds, addComponent(i, kind)
          PROVE  IInv'
        BY <2>6, StepAddComponent
    <2>7. ASSUME NEW i \in DOMAIN objects, NEW place \in Places, SetPosition(i, place)
          PROVE  IInv'
        BY <2>7, StepSetPosition
    <2> QED
        BY <1>1, <2>1, <2>2, <2>3, <2>4, <2>5, <2>6, <2>7 DEF Change
<1>2. CASE clear
    BY <1>2, StepClear
<1>3. CASE save
    BY <1>3, StepSave
<1>4. CASE load
    BY <1>4, StepLoad
<1>5. CASE afterSet
    BY <1>5, StepAfterSet
<1>6. CASE UNCHANGED vars
    BY <1>6, Stays
<1> QED
    BY <1>1, <1>2, <1>3, <1>4, <1>5, <1>6 DEF Next

\* The storage is sound after every call, and so is the one in the file.
THEOREM SpecIInv == Spec => []IInv
<1>1. Init => IInv
    BY Starts
<1>2. IInv /\ [Next]_vars => IInv'
    BY EveryStep
<1> QED
    BY <1>1, <1>2, PTL DEF Spec

-----------------------------------------------------------------------------
(* What follows from the invariant *)

\* After any mixture of createGameObject, clear, loading and setParrent, the
\* ids in the map are 0 .. counter - 1, for any number of objects: the walks
\* by operator[] in findByName and afterSet insert nothing, and the next id
\* is free.
THEOREM SpecIdsContiguous == Spec => []IdsContiguous
<1>1. IInv => IdsContiguous
    <2>1. ASSUME IInv PROVE counter \in Nat /\ objects \in Forest(counter)
        BY <2>1 DEF IInv, Sound
    <2> QED
        BY <2>1, InForest DEF IdsContiguous
<1> QED
    BY <1>1, SpecIInv, PTL

\* An object is in the childrenIds of its parent exactly once and in no
\* other's, for any forest: setParrent erases the entry it wrote, and writing
\* the children backwards restores their order, unless an exception left the
\* two halves of a link apart.
THEOREM SpecLinksAgree == Spec => []LinksAgree
<1>1. ASSUME IInv, NEW i \in DOMAIN objects, NEW p \in DOMAIN objects, i \notin torn
      PROVE  Cardinality({n \in DOMAIN objects[p].childrenIds : objects[p].childrenIds[n] = i})
               = IF objects[i].parrentID = p THEN 1 ELSE 0
    <2>1. PICK s : s = objects[p].childrenIds
        OBVIOUS
    <2>2. IF objects[i].parrentID = p THEN Once(s, i) ELSE Never(s, i)
        BY <1>1, <2>1 DEF IInv, Sound, Linked
    <2>3. PICK places : places = {n \in DOMAIN s : s[n] = i}
        OBVIOUS
    <2>4. CASE objects[i].parrentID = p
        <3>1. PICK n : places = {n}
            <4>1. PICK n \in DOMAIN s : s[n] = i /\ \A m \in DOMAIN s : s[m] = i => m = n
                BY <2>2, <2>4 DEF Once
            <4>2. places = {n}
                BY <2>3, <4>1
            <4> QED
                BY <4>2
        <3>2. Cardinality(places) = 1
            BY <3>1, FS_Singleton
        <3> QED
            BY <2>1, <2>3, <2>4, <3>2
    <2>5. CASE objects[i].parrentID # p
        <3>1. places = {}
            BY <2>2, <2>3, <2>5 DEF Never
        <3>2. Cardinality(places) = 0
            BY <3>1, FS_EmptySet
        <3> QED
            BY <2>1, <2>3, <2>5, <3>2
    <2> QED
        BY <2>4, <2>5
<1>2. IInv => LinksAgree
    BY <1>1 DEF LinksAgree
<1> QED
    BY <1>2, SpecIInv, PTL

\* erase(end()), a null Transform and a misread body need a link that was torn
\* before, or a file that was never written.
THEOREM SpecUndefinedOnlyAfterFault == Spec => []UndefinedOnlyAfterFault
<1>1. IInv => UndefinedOnlyAfterFault
    BY DEF IInv
<1> QED
    BY <1>1, SpecIInv, PTL

\* What serialize writes for a Transform (pGOID) is the parent that it uses
\* (m_parrent), but for direct assignments and for Transforms that wait for
\* afterSet.
THEOREM SpecParentSaved == Spec => []ParentSaved
<1>1. IInv => ParentSaved
    BY DEF IInv, Parents, ParentSaved
<1> QED
    BY <1>1, SpecIInv, PTL

\* What addComponent checks, requirements and Lonly, holds of every object in
\* the storage, loaded or not, when each component writes the name of its own
\* type.
THEOREM SpecComponentsComplete ==
    ASSUME OwnNames
    PROVE  Spec => []ComponentsComplete
<1>1. IInv => ComponentsComplete
    BY DEF IInv, AllComplete, Complete, ComponentsComplete
<1> QED
    BY <1>1, SpecIInv, PTL

\* Writing a storage of any size, with any children, names and components,
\* and loading it into an empty one restores it, and counter with it.
THEOREM SpecRoundTrip == Spec => RoundTrip
<1>1. ASSUME IInv, objects = <<>>, file # NoFile, load
      PROVE  /\ objects' = [i \in DOMAIN saved.objects |-> Reloaded(saved.objects[i])]
             /\ counter' = saved.counter
    <2>1. PICK held, d : held = saved.objects /\ d = saved.counter
        OBVIOUS
    <2>2. Sound(held, d, saved.torn) /\ d \in Nat /\ held \in Storage(d) /\ DOMAIN held = 0 .. d - 1
          /\ counter = 0
        <3>1. Sound(held, d, saved.torn) /\ d \in Nat /\ held \in Forest(d)
            BY <1>1, <2>1 DEF IInv, Sound
        <3>2. counter \in Nat /\ objects \in Forest(counter)
            BY <1>1 DEF IInv, Sound
        <3>3. objects \in Storage(counter)
            BY <3>2, InForest
        <3> QED
            BY <1>1, <3>1, <3>2, <3>3, InForest, NoObjects
    <2>3. PICK more : more = Reread(held, d)
        OBVIOUS
    <2>4. PICK scene : scene = ReadScene(file)
        OBVIOUS
    <2>5. scene.r.ok /\ scene.value = more
        <3>1. file = SerializedScene(held)
            BY <1>1, <2>1 DEF IInv
        <3>2. /\ ReadScene(SerializedScene(held)).r.ok
              /\ ReadScene(SerializedScene(held)).value = [i \in 0 .. d - 1 |-> BackObject(held[i])]
            BY <2>2, SceneBack
        <3> QED
            BY <2>3, <2>4, <3>1, <3>2 DEF Reread
    <2>6. objects' = Inserted(objects, more) /\ counter' = CounterAfter(more)
        BY <1>1, <2>4, <2>5 DEF load, LoadScene
    <2>7. DOMAIN more = 0 .. d - 1 /\ more = [i \in DOMAIN more |-> more[i]]
        BY <2>3 DEF Reread
    <2>8. DOMAIN objects = {}
        BY <1>1, NothingThere
    <2>9. Inserted(objects, more) = more
        <3>1. Inserted(objects, more) = [i \in DOMAIN more |-> more[i]]
            BY <2>8 DEF Inserted
        <3> QED
            BY <2>7, <3>1
    <2>10. CounterAfter(more) = d
        <3>1. CounterAfter(more) = Max({0} \cup {i + 1 : i \in 0 .. d - 1})
            BY <2>2, <2>7 DEF CounterAfter
        <3>2. Max({0} \cup {i + 1 : i \in 0 .. d - 1}) = IF 0 >= d THEN 0 ELSE d
            <4>1. 0 \in Nat
                OBVIOUS
            <4> QED
                BY <2>2, <4>1, CounterIs
        <3> QED
            BY <2>2, <3>1, <3>2
    <2>11. ASSUME NEW o \in Object PROVE BackObject(o) = Reloaded(o)
        <3>1. PICK cs : cs = o.componenten
            OBVIOUS
        <3>2. cs \in Seq(Component)
            BY <3>1 DEF Object, Components
        <3>3. DOMAIN cs = 1 .. Len(cs)
            BY <3>2, LenProperties
        <3>4. Backs(cs, Len(cs)) =
                  [n \in DOMAIN cs |->
                      [kind |-> WritesNameOf[cs[n].kind], place |-> cs[n].place,
                       pGOID |-> cs[n].pGOID, parrent |-> EMPTY_ID]]
            BY <3>3 DEF Backs, Back
        <3> QED
            BY <3>1, <3>4 DEF BackObject, Reloaded
    <2>12. more = [i \in 0 .. d - 1 |-> Reloaded(held[i])]
        <3>1. \A i \in 0 .. d - 1 : BackObject(held[i]) = Reloaded(held[i])
            BY <2>2, <2>11 DEF Storage
        <3> QED
            BY <2>3, <3>1 DEF Reread
    <2> QED
        BY <2>1, <2>2, <2>6, <2>9, <2>10, <2>12
<1>2. IInv => (objects = <<>> /\ file # NoFile /\ load =>
                  /\ objects' = [i \in DOMAIN saved.objects |-> Reloaded(saved.objects[i])]
                  /\ counter' = saved.counter)
    BY <1>1
<1> QED
    BY <1>2, SpecIInv, PTL DEF RoundTrip
=============================================================================
