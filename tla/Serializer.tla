----------------------------- MODULE Serializer -----------------------------
(***************************************************************************)
(* SerializedObject (src/Serializer/Serializer.h): a vector of bytes used  *)
(* as a stack, so that operator>> takes values off in the reverse order in *)
(* which operator<< put them on.                                           *)
(*                                                                         *)
(* The bytes of one value of standard layout form one unit with its width; *)
(* each character of a string is a unit of its own, as the code copies it. *)
(* A read that does not meet a unit of its width at the end of the body    *)
(* would interpret bytes of other values, or memory outside the vector: it *)
(* makes the reader not ok, and every later read leaves it so.             *)
(***************************************************************************)
EXTENDS Integers, SequencesExt

CharWidth == 1
IntWidth == 4
SizeWidth == 8

Unit(width, value) == [width |-> width, value |-> value]

\* A reader: the body that is left and the value last read.
Reader(body) == [ok |-> TRUE, body |-> body, value |-> 0]

Failed == [ok |-> FALSE, body |-> <<>>, value |-> 0]

\* operator<< of a value of standard layout
PutValue(body, width, value) == Append(body, Unit(width, value))

\* the same for each of a sequence of values
PutValues(body, width, values) ==
    body \o [k \in DOMAIN values |-> Unit(width, values[k])]

PutStringLong(body, string) ==
    PutValue(PutValues(body, CharWidth, string), SizeWidth, Len(string))

\* operator<< of a std::string or a C string: the characters, then their number
PutString(body, string) ==
    PutValue(PutValues(body, CharWidth, string), IntWidth, Len(string))

\* operator>> of a value of standard layout
GetValue(reader, width) ==
    LET body == reader.body IN
    IF reader.ok /\ body /= <<>> /\ Last(body).width = width
    THEN [ok |-> TRUE, body |-> Front(body), value |-> Last(body).value]
    ELSE Failed

\* `count` values of one width, in the order in which >> yields them
GetValues(reader, width, count) ==
    LET rest == Len(reader.body) - count
        taken == SubSeq(reader.body, rest + 1, Len(reader.body))
    IN  IF /\ reader.ok
           /\ count >= 0
           /\ rest >= 0
           /\ \A k \in DOMAIN taken : taken[k].width = width
        THEN [ok |-> TRUE,
              body |-> SubSeq(reader.body, 1, rest),
              value |-> [k \in 1 .. count |-> taken[count + 1 - k].value]]
        ELSE Failed

\* operator>> of a std::string: the number, then the characters in place
GetString(reader) ==
    LET size == GetValue(reader, IntWidth)
        chars == GetValues(size, CharWidth, size.value)
    IN  IF chars.ok
        THEN [ok |-> TRUE, body |-> chars.body, value |-> Reverse(chars.value)]
        ELSE Failed
=============================================================================
