------------------------------- MODULE Button -------------------------------
(***************************************************************************)
(* Button::checkKlicked (src/Engine/Core/Button.h) as a function of the    *)
(* two flags that a Button keeps between its calls.  All actors of a       *)
(* button are called alike; `klicked` stands for that call.                *)
(***************************************************************************)

\* up and down have no initial value, and the factory creates a component
\* with `new T`: at first they hold anything.
Flags == [up : BOOLEAN, down : BOOLEAN]

Forgotten == [up |-> FALSE, down |-> FALSE]

Answer(flags, klicked) == [flags |-> flags, klicked |-> klicked]

checkKlickedSticky(flags, over, _down, _up) ==
    IF over /\ _down
    THEN IF flags.up THEN Answer(Forgotten, TRUE)
         ELSE Answer([flags EXCEPT !.down = TRUE], FALSE)
    ELSE IF over /\ _up
    THEN IF flags.down THEN Answer(Forgotten, TRUE)
         ELSE Answer([flags EXCEPT !.up = TRUE], FALSE)
    ELSE Answer(flags, FALSE)

\* over: the mouse is inside the rectangle that the button has on the screen
checkKlicked(flags, over, _down, _up) ==
    IF ~over THEN Answer(Forgotten, FALSE)
    ELSE IF _down
    THEN IF flags.up THEN Answer(Forgotten, TRUE)
         ELSE Answer([flags EXCEPT !.down = TRUE], FALSE)
    ELSE IF _up
    THEN IF flags.down THEN Answer(Forgotten, TRUE)
         ELSE Answer([flags EXCEPT !.up = TRUE], FALSE)
    ELSE Answer(flags, FALSE)
=============================================================================
