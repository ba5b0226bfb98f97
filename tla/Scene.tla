------------------------------- MODULE Scene -------------------------------
(***************************************************************************)
(* ObjectStorrage and GameObject (src/Serializer/Objects.h) with the       *)
(* component Transform (src/Engine/other/Transform.h), as applications use *)
(* them: a forest of objects linked in both directions, components and     *)
(* their requirements, and the scene written to and read from a file       *)
(* through module Serializer.  Everything runs on one thread; each action  *)
(* is a call an application makes.                                         *)
(*                                                                         *)
(* Only Transform has data here; the other kinds of component are told     *)
(* apart by their type names alone.  A pointer to a Transform is the id of *)
(* its game object.                                                        *)
(***************************************************************************)
EXTENDS FiniteSets, Serializer

CONSTANTS
    Names,          \* names an application gives to its objects
    Places,         \* positions, rotations and scales, taken together; a new
                    \* Transform is at 0
    Kinds,          \* the component types, "Transform" among them
    Lonly,          \* those whose getIsLonly() is true
    Requires,       \* kind -> the sequence getRequirements() returns
    WritesNameOf,   \* kind -> the kind whose typeid name serialize() writes
    TypeName,       \* kind, "GameObject", "ObjectStorrage" -> typeid name
    MaxObjects,     \* bound: objects in the storage
    MaxComponents,  \* bound: components in the storage
    MaxSize,        \* bound: objects and components together
    MaxEdits        \* bound: changes after a scene has been saved

ASSUME KindAssumption ==
    /\ "Transform" \in Kinds
    /\ Lonly \subseteq Kinds
    /\ Requires \in [Kinds -> BoundedSeq(Kinds, 1)]
    /\ WritesNameOf \in [Kinds -> Kinds]
    \* Transform::serialize writes the name of Transform, and no other does.
    /\ \A kind \in Kinds : WritesNameOf[kind] = "Transform" <=> kind = "Transform"
    /\ IsInjective(TypeName)

\* A string is a sequence of characters, which are numbers.
ASSUME StringAssumption ==
    /\ Names \subseteq Seq(Nat)
    /\ \A kind \in Kinds \cup {"GameObject", "ObjectStorrage"} :
           kind \in DOMAIN TypeName /\ TypeName[kind] \in Seq(Nat)

ASSUME PlaceAssumption == 0 \in Places

VARIABLES
    objects,        \* ObjectStrorrage::objects, id -> game object
    counter,        \* the id createGameObject gives out next
    file,           \* the body in the file, NoFile before the first save
    undefined,      \* an invalid iterator, a null pointer or a misread body
    torn,           \* history: objects whose links were left half changed
    assigned,       \* history: objects whose Transform::m_parrent was
                    \* assigned without setParrent
    pending,        \* history: objects loaded and not yet through afterSet
    saved,          \* history: the storage when the file was written
    edits           \* changes since then, for the bound

vars == <<objects, counter, file, undefined, torn, assigned, pending, saved,
          edits>>

EMPTY_ID == -1
NoFile == <<>>
PlaceWidth == 36    \* three XMFLOAT3

Ids == 0 .. MaxObjects - 1

\* place: m_position, m_rotation and m_scale; parrent: m_parrent.
NewComponent(kind) ==
    [kind |-> kind, place |-> 0, pGOID |-> EMPTY_ID, parrent |-> EMPTY_ID]

NewObject(name) ==
    [name |-> name, parrentID |-> EMPTY_ID, childrenIds |-> <<>>,
     componenten |-> <<>>]

Exists(i) == i \in DOMAIN objects

\* findComponents: the positions of the components of one kind
Positions(o, kind) == {n \in DOMAIN o.componenten : o.componenten[n].kind = kind}
HasOf(o, kind) == Positions(o, kind) /= {}

\* the first Transform of an object
TransformOf(o) == o.componenten[Min(Positions(o, "Transform"))]
WithTransform(o, t) ==
    [o EXCEPT !.componenten[Min(Positions(o, "Transform"))] = t]

Init ==
    /\ objects = <<>>
    /\ counter = 0
    /\ file = NoFile
    /\ undefined = FALSE
    /\ torn = {}
    /\ assigned = {}
    /\ pending = {}
    /\ saved = [objects |-> <<>>, counter |-> 0, torn |-> {}]
    /\ edits = 0

-----------------------------------------------------------------------------
(* Objects and their links *)

ComponentCount == MapThenSumSet(LAMBDA i : Len(objects[i].componenten),
                                DOMAIN objects)

\* The bounds on objects and components
HasRoom(maxObjects, maxComponents) ==
    /\ Cardinality(DOMAIN objects) < maxObjects
    /\ ComponentCount < maxComponents
    /\ Cardinality(DOMAIN objects) + ComponentCount < MaxSize

\* addOnId: std::map::insert keeps an object that already has the id.
Inserted(objs, more) ==
    [i \in DOMAIN objs \cup DOMAIN more |->
        IF i \in DOMAIN objs THEN objs[i] ELSE more[i]]

createGameObject(name) ==
    /\ ~undefined
    /\ HasRoom(MaxObjects, MaxComponents + 1)
    /\ objects' = Inserted(objects, [i \in {counter} |-> NewObject(name)])
    /\ counter' = counter + 1
    /\ UNCHANGED <<file, undefined, torn, assigned, pending, saved>>

\* The object is among the children of the parent it names, or names none.
CanLeave(i) ==
    LET p == objects[i].parrentID IN
    p = EMPTY_ID \/ (Exists(p) /\ i \in Range(objects[p].childrenIds))

\* The objects once i has left its parent: remChild erases the first entry.
\* With no entry, erase(end()) is undefined; see CanLeave.
Left(i) ==
    IF objects[i].parrentID = EMPTY_ID THEN objects
    ELSE [objects EXCEPT ![objects[i].parrentID].childrenIds =
              RemoveFirst(@, i)]

Joined(objs, i, p) ==
    [[objs EXCEPT ![p].childrenIds = Append(@, i)] EXCEPT ![i].parrentID = p]

\* Undefined behaviour: the program has no further steps.
GoesUndefined ==
    /\ undefined' = TRUE
    /\ UNCHANGED <<objects, counter, file, torn, assigned, pending, saved>>

setParrentStays(i, p) ==
    /\ ~undefined
    /\ objects' = Joined(objects, i, p)
    /\ UNCHANGED <<counter, file, undefined, torn, assigned, pending, saved>>

setParrent(i, p) ==
    /\ ~undefined
    /\ IF CanLeave(i)
       THEN /\ objects' = Joined(Left(i), i, p)
            /\ UNCHANGED <<counter, file, undefined, torn, assigned, pending,
                           saved>>
       ELSE GoesUndefined

\* With an id: EMPTY_ID makes i a root; for an id that is not in the storage
\* the function throws, when i has already left its parent.
setParrentID(i, p) ==
    /\ ~undefined
    /\ IF ~CanLeave(i) THEN GoesUndefined
       ELSE /\ objects' = IF p = EMPTY_ID
                          THEN [Left(i) EXCEPT ![i].parrentID = EMPTY_ID]
                          ELSE IF Exists(p) THEN Joined(Left(i), i, p)
                          ELSE Left(i)
            /\ torn' = IF /\ p /= EMPTY_ID
                          /\ ~Exists(p)
                          /\ objects[i].parrentID /= EMPTY_ID
                       THEN torn \cup {i} ELSE torn
            /\ UNCHANGED <<counter, file, undefined, assigned, pending, saved>>

\* The destructors of the objects delete the components.
clear ==
    /\ ~undefined
    /\ objects' = <<>>
    /\ counter' = 0
    /\ torn' = {}
    /\ assigned' = {}
    /\ pending' = {}
    /\ UNCHANGED <<file, undefined, saved>>

-----------------------------------------------------------------------------
(* Components *)

AddTo(i, kind) ==
    /\ objects' = [objects EXCEPT ![i].componenten =
                      Append(@, NewComponent(kind))]
    /\ UNCHANGED <<counter, file, undefined, torn, assigned, pending, saved>>

addComponentUnchecked(i, kind) ==
    /\ ~undefined
    /\ HasRoom(MaxObjects + 1, MaxComponents)
    /\ ~(kind \in Lonly /\ HasOf(objects[i], kind))
    /\ AddTo(i, kind)

\* It throws, before anything changes, for a second component of a Lonly kind
\* and for a requirement that the object lacks.
addComponent(i, kind) ==
    /\ ~undefined
    /\ HasRoom(MaxObjects + 1, MaxComponents)
    /\ ~(kind \in Lonly /\ HasOf(objects[i], kind))
    /\ \A required \in Range(Requires[kind]) : HasOf(objects[i], required)
    /\ AddTo(i, kind)

ChangesTransform(i, t) ==
    /\ objects' = [objects EXCEPT ![i] = WithTransform(@, t)]
    /\ UNCHANGED <<counter, file, undefined, torn, pending, saved>>

\* Transform::SetPosition, SetRotation, SetScale and the Add functions
SetPosition(i, place) ==
    /\ ~undefined
    /\ HasOf(objects[i], "Transform")
    /\ ChangesTransform(i, [TransformOf(objects[i]) EXCEPT !.place = place])
    /\ UNCHANGED assigned

setTransformParrentForgets(i, p) ==
    /\ ~undefined
    /\ HasOf(objects[i], "Transform")
    /\ HasOf(objects[p], "Transform")
    /\ ChangesTransform(i, [TransformOf(objects[i]) EXCEPT !.parrent = p])
    /\ UNCHANGED assigned

\* Transform::setParrent.  m_parrent is set first; the function throws when the
\* other object has more than one Transform, with pGOID as it was.
setTransformParrent(i, p) ==
    /\ ~undefined
    /\ HasOf(objects[i], "Transform")
    /\ HasOf(objects[p], "Transform")
    /\ IF Cardinality(Positions(objects[p], "Transform")) = 1
       THEN /\ ChangesTransform(i, [TransformOf(objects[i]) EXCEPT
                                       !.parrent = p, !.pGOID = p])
            /\ assigned' = assigned \ {i}
       ELSE /\ ChangesTransform(i, [TransformOf(objects[i]) EXCEPT
                                       !.parrent = p])
            /\ assigned' = assigned \cup {i}

\* SceenViewer writes the public member without setParrent.
assignTransformParrent(i, p) ==
    /\ ~undefined
    /\ HasOf(objects[i], "Transform")
    /\ HasOf(objects[p], "Transform")
    /\ ChangesTransform(i, [TransformOf(objects[i]) EXCEPT !.parrent = p])
    /\ assigned' = assigned \cup {i}

-----------------------------------------------------------------------------
(* Writing the scene *)

PutInt(body, v) == PutValue(body, IntWidth, v)

\* serialize of a component: its data, then the name of its type
WriteComponent(body, c) ==
    PutString(IF c.kind = "Transform"
              THEN PutInt(PutValue(body, PlaceWidth, c.place), c.pGOID)
              ELSE body,
              TypeName[WritesNameOf[c.kind]])

\* The components of an object, the last one first
WriteComponents(body, components) ==
    LET size == Len(components)
        written[n \in 0 .. size] ==
            IF n = 0 THEN body
            ELSE WriteComponent(written[n - 1], components[size + 1 - n])
    IN  written[size]

\* GameObject::serialize, with the children in the order given
WriteObjectWith(body, i, o, children) ==
    LET components ==
            PutInt(WriteComponents(body, o.componenten), Len(o.componenten))
        links ==
            PutInt(PutValues(components, IntWidth, children), Len(children))
    IN  PutString(
            PutInt(PutString(PutInt(links, o.parrentID), o.name), i),
            TypeName["GameObject"])

WriteObjectForwards(body, i, o) ==
    WriteObjectWith(body, i, o, o.childrenIds)

\* Both loops count down, because the reader takes the last value first.
WriteObject(body, i, o) ==
    WriteObjectWith(body, i, o, Reverse(o.childrenIds))

\* The order in which a map is walked
Ascending(ids) ==
    [k \in 1 .. Cardinality(ids) |->
        CHOOSE i \in ids : Cardinality({j \in ids : j < i}) = k - 1]

WriteObjects(objs) ==
    LET ids == Ascending(DOMAIN objs)
        written[n \in 0 .. Cardinality(DOMAIN objs)] ==
            IF n = 0 THEN <<>>
            ELSE WriteObject(written[n - 1], ids[n], objs[ids[n]])
    IN  written[Cardinality(DOMAIN objs)]

\* ObjectStorrage::serialize
SerializedScene(objs) ==
    PutString(
        PutValue(WriteObjects(objs), SizeWidth, Cardinality(DOMAIN objs)),
        TypeName["ObjectStorrage"])

\* writeToFile; when the file cannot be opened nothing changes.  Bound: the
\* file is written once, which loses nothing that a scene can be, because a
\* loaded scene is again one that could have been built.
save ==
    /\ ~undefined
    /\ file = NoFile
    /\ file' = SerializedScene(objects)
    /\ saved' = [objects |-> objects, counter |-> counter, torn |-> torn]
    /\ UNCHANGED <<objects, counter, undefined, torn, assigned, pending>>

-----------------------------------------------------------------------------
(* Reading it *)

GetInt(r) == GetValue(r, IntWidth)

\* How often a loop up to a number that was read runs
Times(size) == IF size > 0 THEN size ELSE 0

\* createInstance by name, then set; an unknown name yields a null pointer.
\* `so` holds a reader and the components read so far.
ReadComponent(so) ==
    LET name == GetString(so.r)
        kinds == {k \in Kinds : name.ok /\ TypeName[k] = name.value}
        kind == CHOOSE k \in kinds : TRUE
        pGOID == GetInt(name)
        place == GetValue(pGOID, PlaceWidth)
    IN  IF kinds = {} THEN [r |-> Failed, value |-> so.value]
        ELSE IF kind /= "Transform"
        THEN [r |-> name, value |-> Append(so.value, NewComponent(kind))]
        ELSE [r |-> place,
              value |-> Append(so.value,
                  [kind |-> kind, place |-> place.value, pGOID |-> pGOID.value,
                   parrent |-> EMPTY_ID])]

\* after their number has been read
ReadComponents(r) ==
    LET size == Times(r.value)
        read[n \in 0 .. size] ==
            IF n = 0 THEN [r |-> r, value |-> <<>>] ELSE ReadComponent(read[n - 1])
    IN  read[size]

\* GameObject::set, after the name of the type has been read; `so` holds a
\* reader and the objects read so far.
ReadObject(so) ==
    LET type == GetString(so.r)
        id == GetInt(type)
        name == GetString(id)
        parrentID == GetInt(name)
        size == GetInt(parrentID)
        children == GetValues(size, IntWidth, size.value)
        components == ReadComponents(GetInt(children))
        o == [name |-> name.value, parrentID |-> parrentID.value,
              childrenIds |-> children.value, componenten |-> components.value]
    IN  IF ~components.r.ok THEN [r |-> Failed, value |-> so.value]
        ELSE [r |-> components.r,
              value |-> Inserted(so.value, [i \in {id.value} |-> o])]

ReadObjects(r) ==
    LET size == Times(r.value)
        read[n \in 0 .. size] ==
            IF n = 0 THEN [r |-> r, value |-> <<>>] ELSE ReadObject(read[n - 1])
    IN  read[size]

\* ObjectStorrage::set, after the caller has read the name of the type
ReadScene(body) == ReadObjects(GetValue(GetString(Reader(body)), SizeWidth))

CounterAfter(loaded) == Max({counter} \cup {i + 1 : i \in DOMAIN loaded})

\* `scene` is what was read, `next` the counter afterwards.  Existing objects keep
\* their ids, because insert does not replace them; the links of the two scenes
\* need not agree then.
LoadScene(scene, next) ==
    LET fresh == DOMAIN scene.value \ DOMAIN objects
    IN
    /\ ~undefined
    /\ IF ~scene.r.ok THEN GoesUndefined
       ELSE /\ objects' = Inserted(objects, scene.value)
            /\ counter' = next
            /\ torn' = IF objects = <<>> THEN saved.torn
                       ELSE torn \cup saved.torn \cup DOMAIN scene.value
                                 \cup DOMAIN objects
            /\ pending' = pending \cup fresh
            /\ UNCHANGED <<file, undefined, assigned, saved>>

loadKeepsCounter ==
    LET scene == ReadScene(file) IN LoadScene(scene, Cardinality(DOMAIN scene.value))

load == LET scene == ReadScene(file) IN LoadScene(scene, CounterAfter(scene.value))

\* ObjectStorrage::afterSet looks objects up by 0 .. size - 1 and calls
\* Transform::afterSet, which resolves pGOID to the object's first Transform.
afterSet ==
    LET unresolved == {i \in DOMAIN objects :
            /\ HasOf(objects[i], "Transform")
            /\ TransformOf(objects[i]).pGOID /= EMPTY_ID}
        target(i) == TransformOf(objects[i]).pGOID
    IN
    /\ ~undefined
    /\ IF \/ DOMAIN objects /= 0 .. Cardinality(DOMAIN objects) - 1
          \/ \E i \in unresolved :
                 ~(Exists(target(i)) /\ HasOf(objects[target(i)], "Transform"))
       THEN GoesUndefined
       ELSE /\ objects' = [i \in DOMAIN objects |->
                  IF i \in unresolved
                  THEN WithTransform(objects[i],
                           [TransformOf(objects[i]) EXCEPT !.parrent = target(i)])
                  ELSE objects[i]]
            /\ pending' = {}
            /\ UNCHANGED <<counter, file, undefined, torn, assigned, saved>>

-----------------------------------------------------------------------------

Change ==
    \/ \E name \in Names : createGameObject(name)
    \/ \E i, p \in DOMAIN objects :
           \/ setParrent(i, p)
           \/ setTransformParrent(i, p)
           \/ assignTransformParrent(i, p)
    \/ \E i \in DOMAIN objects :
           \/ \E p \in Ids \cup {EMPTY_ID} : setParrentID(i, p)
           \/ \E kind \in Kinds : addComponent(i, kind)
           \/ \E place \in Places : SetPosition(i, place)

Next ==
    \/ /\ file = NoFile \/ edits < MaxEdits
       /\ edits' = IF file = NoFile THEN 0 ELSE edits + 1
       /\ Change
    \/ (clear \/ save \/ load \/ afterSet) /\ UNCHANGED edits

Spec == Init /\ [][Next]_vars

-----------------------------------------------------------------------------
(* Properties *)

\* The ids in the map are 0 .. counter - 1, after any mixture of creating,
\* clearing and loading over what is there.  findByName and afterSet rely on
\* it: they walk the map by operator[], which inserts null for a missing id,
\* and createGameObject relies on counter being free.
IdsContiguous == DOMAIN objects = 0 .. counter - 1

\* A child is listed by the parent it names, once, and by nobody else.  The
\* exceptions are objects whose setParrentID threw half-way and scenes loaded
\* over existing objects.
LinksAgree ==
    \A i, p \in DOMAIN objects : i \notin torn =>
        Cardinality({n \in DOMAIN objects[p].childrenIds :
                         objects[p].childrenIds[n] = i})
          = IF objects[i].parrentID = p THEN 1 ELSE 0

\* No call erases a child that is not there, misreads a file or follows a
\* null pointer, unless setParrentID threw before, a scene was loaded over
\* existing objects, or there was no file.
UndefinedOnlyAfterFault == undefined => torn /= {} \/ file = NoFile

\* What addComponent checks stays true of every object, through saving and
\* loading too: a component follows those it requires, and a Lonly kind is
\* there once.
ComponentsComplete ==
    \A i \in DOMAIN objects : LET c == objects[i].componenten IN
        \A n \in DOMAIN c :
            /\ \A required \in Range(Requires[c[n].kind]) :
                   \E m \in 1 .. n - 1 : c[m].kind = required
            /\ c[n].kind \in Lonly => \A m \in 1 .. n - 1 : c[m].kind /= c[n].kind

\* The parent a Transform uses is the one that serialize saves, unless
\* m_parrent was assigned directly or afterSet is still to come.
ParentSaved ==
    \A i \in DOMAIN objects \ (assigned \cup pending) :
        HasOf(objects[i], "Transform") =>
            TransformOf(objects[i]).parrent = TransformOf(objects[i]).pGOID

\* What load makes of a saved object: a Transform does not know its parent yet.
Reloaded(o) ==
    [name |-> o.name, parrentID |-> o.parrentID, childrenIds |-> o.childrenIds,
     componenten |-> [n \in DOMAIN o.componenten |-> LET c == o.componenten[n] IN
         [kind |-> WritesNameOf[c.kind], place |-> c.place, pGOID |-> c.pGOID,
          parrent |-> EMPTY_ID]]]

\* Loading into an empty storage restores what was saved: every object, the
\* order of its children and components, and the next free id.
RoundTrip ==
    [][objects = <<>> /\ file /= NoFile /\ load =>
           /\ objects' = [i \in DOMAIN saved.objects |->
                              Reloaded(saved.objects[i])]
           /\ counter' = saved.counter]_vars

\* A loaded component has the kind it had when it was saved, as the pattern in
\* Serializer/tests.cpp has it: a component writes the name of its own type.
LoadKeepsKinds ==
    [][objects = <<>> /\ load =>
           \A i \in DOMAIN objects' \cap DOMAIN saved.objects :
               \A n \in DOMAIN saved.objects[i].componenten :
                   objects'[i].componenten[n].kind
                     = saved.objects[i].componenten[n].kind]_vars
=============================================================================
