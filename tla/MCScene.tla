------------------------------ MODULE MCScene ------------------------------
(***************************************************************************)
(* Scene with components of the applications.  A string is a sequence of   *)
(* small numbers; only which strings differ matters.                       *)
(***************************************************************************)
EXTENDS Scene

MCNames == {<<7, 8>>}
MCPlaces == {0}

MCKinds == {"Transform", "DragMover"}
ViewerKinds == {"DrawableRenderer", "Transform", "DragMover", "ButtonChecker"}

MCTypeName ==
    [GameObject |-> <<1>>, ObjectStorrage |-> <<2>>, Transform |-> <<3, 1>>,
     DragMover |-> <<3, 2>>, ButtonChecker |-> <<3, 3>>,
     DrawableRenderer |-> <<3, 4>>]

MCRequires ==
    [k \in Kinds |-> CASE k = "DragMover" -> <<"Transform">>
                       [] k = "ButtonChecker" -> <<"DrawableRenderer">>
                       [] OTHER -> <<>>]

\* ButtonChecker::serialize writes typeid(DragMover).name().
MCWritesNameOf ==
    [k \in Kinds |-> IF k = "ButtonChecker" THEN "DragMover" ELSE k]
=============================================================================
