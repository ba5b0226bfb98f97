------------------------------ MODULE Renderer ------------------------------
(***************************************************************************)
(* DrawableRenderer with its base Dx11Base (src/Engine): what is drawn and *)
(* which buttons there are, each kept as pointers and again as the ids     *)
(* that are saved; the device, the shaders and the resources of the        *)
(* drawables; and the buttons as the message loop of the applications      *)
(* drives them.  Everything runs on one thread.                            *)
(*                                                                         *)
(* A drawable is identified by what m_allDrawableIDs holds for it, the id  *)
(* of its game object and its position there; a button by the id of its    *)
(* game object.  Direct3D is external: a call succeeds or fails.           *)
(***************************************************************************)
EXTENDS FiniteSets, Serializer, Button

CONSTANTS
    Drawables,      \* pairs of an id and a position
    PathOf,         \* drawable -> the path of its shader
    WithTransform,  \* drawables drawn at a transform that setRequirements sets
    Buttons,        \* ids
    Watched,        \* the buttons that the mouse gets to
    MaxIDs,         \* bound: length of the lists of ids
    MaxChanges      \* bound: calls, presses and releases

ASSUME RendererAssumption ==
    /\ Drawables \subseteq Int \X Int /\ WithTransform \subseteq Drawables
    /\ Buttons \subseteq Int /\ Watched \subseteq Buttons

VARIABLES
    device,         \* "unset", "live", or "null" after Terminate
    camera,         \* m_currentCamera and its id have been set
    noTransform,    \* the camera, drawables and buttons that lack a transform
    m_allDrawable, m_allDrawableIDs,
    m_buttons, m_buttonGameObjectIDs,
    m_allShaders,   \* the paths in the map
    container,      \* m_shaderContainer: "unset", "null", "valid", "stale"
    held,           \* drawables that hold Direct3D resources
    flags,          \* the flags of each watched button
    LButton,        \* the button of the mouse, as the last event had it
    dragFirst,      \* a DragMover is registered before the ButtonChecker
    file,           \* the renderer in the file, NoFile before the first save
    undefined,      \* an invalid pointer was used
    klicked,        \* history: the buttons klicked in the last turn
    mouse,          \* history: what the mouse did over a button since it came
    unseen,         \* history: buttons whose flags may say what the mouse did not do
    removed,        \* history: drawables that remDrawable has taken out
    unloaded,       \* history: drawables that UnloadContent has taken out
    cleared,        \* history: clear() was called
    late,           \* history: drawables added since Initialize
    uncompiled,     \* history: drawables whose shader did not compile then
    failed,         \* history: Initialize returned false
    leaked,         \* history: drawables whose resources were overwritten
    changes         \* changes so far, for the bound

drawables == <<m_allDrawable, m_allDrawableIDs, removed, unloaded>>
buttons == <<m_buttons, m_buttonGameObjectIDs, cleared>>
resources == <<m_allShaders, container, held, leaked>>
setup == <<late, uncompiled, failed>>
input == <<flags, LButton, dragFirst, klicked, mouse, unseen>>

vars == <<device, camera, noTransform, drawables, buttons, resources, setup,
          input, file, undefined, changes>>

NoFile == <<>>
CameraID == 0
ParamsWidth == 29   \* the colour, the format and the refresh rate

Init ==
    /\ device = "unset"
    /\ camera = FALSE
    /\ noTransform = [camera |-> FALSE, drawables |-> {}, buttons |-> {}]
    /\ m_allDrawable = <<>>
    /\ m_allDrawableIDs = <<>>
    /\ m_buttons = <<>>
    /\ m_buttonGameObjectIDs = <<>>
    /\ m_allShaders = {}
    /\ container = [d \in Drawables |-> "unset"]
    /\ held = {}
    /\ flags \in [Watched -> Flags]
    /\ LButton = FALSE
    /\ dragFirst \in BOOLEAN
    /\ file = NoFile
    /\ undefined = FALSE
    /\ klicked = {}
    /\ mouse = [b \in Watched |-> {}]
    /\ unseen = Watched
    /\ removed = {}
    /\ unloaded = {}
    /\ cleared = FALSE
    /\ late = {}
    /\ uncompiled = {}
    /\ failed = FALSE
    /\ leaked = {}
    /\ changes = 0

Counted == changes < MaxChanges /\ changes' = changes + 1

\* A call of the application
Change == ~undefined /\ Counted

-----------------------------------------------------------------------------
(* The lists *)

\* The drawable may be new: addComponent sets the transform of what it makes.
addDrawable(d) ==
    /\ Change
    /\ d \notin Range(m_allDrawable)
    /\ Len(m_allDrawableIDs) < MaxIDs
    /\ m_allDrawable' = Append(m_allDrawable, d)
    /\ m_allDrawableIDs' = Append(m_allDrawableIDs, d)
    /\ late' = late \cup {d}
    /\ noTransform' \in {noTransform,
                         [noTransform EXCEPT !.drawables = @ \ {d}]}
    /\ UNCHANGED <<device, camera, removed, unloaded, buttons, resources,
                   uncompiled, failed, input, file, undefined>>

\* m_allDrawableIDs stays as it is.
remDrawable(d) ==
    /\ Change
    /\ d \in Range(m_allDrawable)
    /\ m_allDrawable' = RemoveFirst(m_allDrawable, d)
    /\ removed' = removed \cup {d}
    /\ UNCHANGED <<device, camera, noTransform, m_allDrawableIDs, unloaded,
                   buttons, resources, setup, input, file, undefined>>

addButton(b) ==
    /\ Change
    /\ b \notin Range(m_buttons)
    /\ Len(m_buttonGameObjectIDs) < MaxIDs
    /\ m_buttons' = Append(m_buttons, b)
    /\ m_buttonGameObjectIDs' = Append(m_buttonGameObjectIDs, b)
    /\ noTransform' \in {noTransform, [noTransform EXCEPT !.buttons = @ \ {b}]}
    /\ UNCHANGED <<device, camera, drawables, cleared, resources, setup, input,
                   file, undefined>>

RemoveButton(b, position) ==
    /\ Change
    /\ b \in Range(m_buttons)
    /\ m_buttons' = RemoveFirst(m_buttons, b)
    /\ m_buttonGameObjectIDs' = RemoveAt(m_buttonGameObjectIDs, position)
    /\ UNCHANGED <<device, camera, noTransform, drawables, cleared, resources,
                   setup, input, file, undefined>>

remButtonLast(b) == RemoveButton(b, Len(m_buttonGameObjectIDs))

\* Both lists lose the element at the position of the button.
remButton(b) ==
    RemoveButton(b, SelectInSeq(m_buttons, LAMBDA x : x = b))

\* A camera of addComponent, or one whose transform the application has set
setKamera ==
    /\ Change
    /\ camera' = TRUE
    /\ noTransform' = [noTransform EXCEPT !.camera = FALSE]
    /\ UNCHANGED <<device, drawables, buttons, resources, setup, input, file,
                   undefined>>

-----------------------------------------------------------------------------
(* Device, shaders and resources *)

GoesUndefined ==
    /\ undefined' = TRUE
    /\ UNCHANGED <<device, camera, noTransform, drawables, buttons, resources,
                   setup, input, file>>

\* How often a list names d.
Times(list, d) == Cardinality({n \in DOMAIN list : list[n] = d})

\* m_allShaders after addShaderByPath for the drawables of a list; the shaders
\* at `bad` paths do not compile.
addShaderByPath(list, bad) ==
    m_allShaders \cup ({PathOf[d] : d \in Range(list)} \ bad)

\* It answers true for a shader that does not compile as well.
registerShader(list, bad) ==
    LET compiled == addShaderByPath(list, bad) IN
    /\ m_allShaders' = compiled
    /\ container' = [d \in Drawables |->
           IF d \notin Range(list) THEN container[d]
           ELSE IF PathOf[d] \in compiled THEN "valid" ELSE "null"]
    /\ uncompiled' = {d \in Range(list) : PathOf[d] \notin compiled}

\* The pointers to the resources are written, whatever they held.
loadAll(list) ==
    /\ held' = held \cup Range(list)
    /\ leaked' = leaked \cup {d \in Range(list) : d \in held \/ Times(list, d) > 1}

\* LoadContent after a device has been created.  `done` calls succeed, of
\* registerShader for every drawable and then of load; a failing load fails at
\* its texture and creates nothing.
LoadContent(done, bad) ==
    LET size == Len(m_allDrawable) IN
    /\ registerShader(SubSeq(m_allDrawable, 1, IF done < size THEN done ELSE size),
                      bad)
    /\ loadAll(SubSeq(m_allDrawable, 1, done - size))
    /\ failed' = (done < 2 * size)

\* No application calls it while it has a device.
Initialize(done, bad) ==
    /\ Change
    /\ device /= "live"
    /\ device' = "live"
    /\ late' = {}
    /\ LoadContent(done, bad)
    /\ UNCHANGED <<camera, noTransform, drawables, buttons, input, file,
                   undefined>>

\* D3D11CreateDeviceAndSwapChain fails and leaves null pointers.  A failure
\* between it and LoadContent is left out.
InitializeFails ==
    /\ Change
    /\ device /= "live"
    /\ device' = "null"
    /\ failed' = TRUE
    /\ UNCHANGED <<camera, noTransform, drawables, buttons, resources, late,
                   uncompiled, input, file, undefined>>

ReleaseShaders ==
    /\ m_allShaders' = {}
    /\ container' = [d \in Drawables |->
           IF container[d] = "valid" THEN "stale" ELSE container[d]]

Unload(kept, shown) ==
    /\ held' = kept
    /\ m_allDrawable' = shown
    /\ unloaded' = unloaded \cup Range(m_allDrawable)
    /\ ReleaseShaders
    /\ UNCHANGED <<m_allDrawableIDs, removed, leaked>>

\* Each drawable in the list releases what it holds.
unload == held \ Range(m_allDrawable)

UnloadContentKeepsResources == Unload(held, <<>>)
UnloadContentKeepsDrawables == Unload(unload, m_allDrawable)

\* The elements of m_allShaders go, and with them what the drawables point to.
UnloadContent == Unload(unload, <<>>)

\* It tests the pointers of Dx11Base, which have no value before Initialize.
Terminate ==
    /\ Change
    /\ IF device = "unset" THEN GoesUndefined
       ELSE /\ UnloadContent
            /\ device' = "null"
            /\ UNCHANGED <<camera, noTransform, buttons, setup, input, file,
                           undefined>>

\* m_buttonGameObjectIDs stays as it is.
clear ==
    /\ Change
    /\ UnloadContent
    /\ m_buttons' = <<>>
    /\ cleared' = TRUE
    /\ UNCHANGED <<device, camera, noTransform, m_buttonGameObjectIDs, setup,
                   input, file, undefined>>

Ready(d) ==
    container[d] = "valid" /\ d \in held /\ d \notin noTransform.drawables

\* getProjectionMatrix follows the pointers to the camera and to its transform.
Projects == camera /\ ~noTransform.camera

\* Nothing is drawn without a device; a drawable is drawn by the pointer to
\* its shader, its buffers and its transform, and the camera is asked for each
\* of them.
Render ==
    /\ ~undefined
    /\ undefined' = \/ device = "unset"
                    \/ /\ device = "live"
                       /\ \E d \in Range(m_allDrawable) : ~(Projects /\ Ready(d))
    /\ UNCHANGED <<device, camera, noTransform, drawables, buttons, resources,
                   setup, input, file, changes>>

-----------------------------------------------------------------------------
(* Saving and loading *)

PutInt(body, v) == PutValue(body, IntWidth, v)

\* The ids and positions of the drawables, one after the other, from the end
Pairs(list) ==
    [n \in 1 .. 2 * Len(list) |-> list[Len(list) - (n - 1) \div 2][2 - (n % 2)]]

\* serialize, up to the name of the type: as many ids as there are buttons,
\* and all ids of drawables, each list from its end.  Without a camera its id
\* has no value, here -1.
Serialized ==
    LET size == Len(m_buttons)
        ids == [n \in 1 .. size |-> m_buttonGameObjectIDs[size + 1 - n]]
        params == PutValue(PutInt(<<>>, IF camera THEN CameraID ELSE -1),
                           ParamsWidth, 0)
        body == PutInt(PutValues(params, IntWidth, ids), size)
    IN  PutInt(PutValues(body, IntWidth, Pairs(m_allDrawableIDs)),
               Len(m_allDrawableIDs))

\* set: the position of a drawable comes before its id.
Read(body) ==
    LET count == GetValue(Reader(body), IntWidth)
        pairs == GetValues(count, IntWidth, 2 * count.value)
        size == GetValue(pairs, IntWidth)
        ids == GetValues(size, IntWidth, size.value)
        params == GetValue(ids, ParamsWidth)
        cameraID == GetValue(params, IntWidth)
    IN  [ok |-> cameraID.ok,
         drawables |-> [n \in 1 .. count.value |->
                           <<pairs.value[2 * n], pairs.value[2 * n - 1]>>],
         buttons |-> ids.value,
         camera |-> cameraID.value = CameraID]

save ==
    /\ Change
    /\ file = NoFile
    /\ file' = Serialized
    /\ UNCHANGED <<device, camera, noTransform, drawables, buttons, resources,
                   setup, input, undefined>>

\* GameObject::set creates the components of the file without setRequirements,
\* from which they would get their transform.
WithoutRequirements ==
    [camera |-> TRUE, drawables |-> WithTransform, buttons |-> Buttons]

\* set and afterSet of a new renderer, with new drawables and buttons, in place
\* of one that has no device (any more).  An id of a camera that was never set
\* is not found.
load ==
    LET scene == Read(file) IN
    /\ Change
    /\ device /= "live"
    /\ file /= NoFile
    /\ IF ~(scene.ok /\ scene.camera) THEN GoesUndefined
       ELSE /\ device' = "unset"
            /\ camera' = TRUE
            /\ noTransform' = WithoutRequirements
            /\ m_allDrawable' = scene.drawables
            /\ m_allDrawableIDs' = scene.drawables
            /\ m_buttons' = scene.buttons
            /\ m_buttonGameObjectIDs' = scene.buttons
            /\ cleared' = FALSE
            /\ m_allShaders' = {}
            /\ container' = [d \in Drawables |-> "unset"]
            /\ held' = {}
            /\ flags' \in [Watched -> Flags]
            /\ unseen' = Watched
            /\ late' = {}
            /\ uncompiled' = {}
            /\ failed' = FALSE
            /\ LButton' = FALSE
            /\ klicked' = {}
            /\ mouse' = [b \in Watched |-> {}]
            /\ UNCHANGED <<removed, unloaded, leaked, dragFirst, file,
                           undefined>>

-----------------------------------------------------------------------------
(* The mouse *)

\* checkButtons for the buttons in m_buttons: their new flags and whether each
\* was klicked.  A button listed more than once is asked again; asked a third
\* time it would change nothing and not be klicked.
Asked(b, over, down, up) ==
    LET once == checkKlicked(flags[b], over, down, up)
        again == checkKlicked(once.flags, over, down, up)
    IN  IF Times(m_buttons, b) = 1 THEN once
        ELSE [again EXCEPT !.klicked = @ \/ once.klicked]

\* One turn of the message loop: the state of the mouse is compared with the
\* one before and the event is dispatched.  ButtonChecker tells the buttons;
\* a DragMover that comes before it consumes the event while the button of the
\* mouse is held.
turn(over, pressed) ==
    LET down == pressed /\ ~LButton
        up == ~pressed /\ LButton
        told == ~(dragFirst /\ pressed /\ LButton)
        asked(b) == told /\ b \in Range(m_buttons)
        answer(b) == IF asked(b) THEN Asked(b, b \in over, down, up)
                     ELSE Answer(flags[b], FALSE)
        event == IF down THEN {"press"} ELSE IF up THEN {"release"} ELSE {}
    IN
    /\ ~undefined
    /\ IF event = {} THEN UNCHANGED changes ELSE Counted
    /\ LButton' = pressed
    /\ undefined' = /\ told /\ m_buttons /= <<>>
                     /\ \/ ~(Projects /\ device = "live")
                        \/ Range(m_buttons) \cap noTransform.buttons /= {}
    /\ flags' = [b \in Watched |-> answer(b).flags]
    /\ klicked' = {b \in Watched : answer(b).klicked}
    /\ mouse' = [b \in Watched |->
           IF b \notin over THEN {}
           ELSE event \cup (IF b \in klicked THEN {} ELSE mouse[b])]
    /\ unseen' = {b \in Watched :
           \/ b \notin over /\ ~asked(b)
           \/ b \in over /\ b \in unseen /\ flags[b] /= Forgotten
           \/ Times(m_buttons, b) > 1}
    /\ UNCHANGED <<device, camera, noTransform, drawables, buttons, resources,
                   setup, dragFirst, file>>

-----------------------------------------------------------------------------

Paths == {PathOf[d] : d \in Drawables}

Next ==
    \/ \E d \in Drawables : addDrawable(d) \/ remDrawable(d)
    \/ \E b \in Buttons : addButton(b) \/ remButton(b)
    \/ setKamera
    \/ \E done \in 0 .. 2 * Len(m_allDrawable), bad \in SUBSET Paths :
           Initialize(done, bad)
    \/ InitializeFails
    \/ Terminate
    \/ clear
    \/ Render
    \/ save
    \/ load
    \/ \E over \in SUBSET Watched, pressed \in BOOLEAN : turn(over, pressed)

Spec == Init /\ [][Next]_vars

-----------------------------------------------------------------------------
(* Properties *)

Before(list, d, e) ==
    \E m, n \in DOMAIN list : m < n /\ list[m] = d /\ list[n] = e

\* What a save now would load again agrees with what is shown.  Every drawable
\* on the screen comes back, and those that have never been taken out come back
\* once and in their order (the others keep their ids in m_allDrawableIDs: they
\* may come back although they are not shown, or twice).  The buttons come back
\* exactly, as long as clear() has not emptied m_buttons alone: the two lists of
\* a button go through addButton and remButton in step.
\* DrawableRenderer::serialize, set, remDrawable; Dx11Base::remButton, clear
SavedIsShown ==
    LET scene == Read(Serialized)
        kept == Drawables \ (removed \cup unloaded)
    IN
    /\ scene.ok
    /\ Range(m_allDrawable) \subseteq Range(scene.drawables)
    /\ kept \cap Range(scene.drawables) \subseteq Range(m_allDrawable)
    /\ \A d, e \in kept :
           /\ Before(scene.drawables, d, e) <=> Before(m_allDrawable, d, e)
           /\ ~Before(scene.drawables, d, d)
    /\ ~cleared => scene.buttons = m_buttons

\* What would be used now lacks its transform, which a load does not set.
FromFile ==
    \/ noTransform.camera
    \/ Range(m_allDrawable) \cap noTransform.drawables /= {}
    \/ Range(m_buttons) \cap noTransform.buttons /= {}

\* An invalid pointer is used only in one of these cases.  The application asks
\* before Initialize, without a camera, or after an Initialize that failed; it
\* shows a drawable added since Initialize, or one whose shader did not compile
\* (which registerShader does not report); it checks buttons after Terminate,
\* where Render checks for a device and checkButtons does not; or the camera, a
\* drawable on the screen or a button came from a file and has no transform, for
\* GameObject::set does not call setRequirements: a scene that was loaded cannot
\* be drawn as it is.  Terminate and clear leave nothing behind that a later frame
\* would follow, and a camera, drawables and buttons made after a load are safe.
\* DrawableRenderer::Render, UnloadContent, addShaderByPath;
\* Dx11Base::checkButtons, Terminate; GameObject::set
UndefinedOnlyByMisuse ==
    undefined =>
        \/ device = "unset"
        \/ device = "null" /\ m_buttons /= <<>>
        \/ failed
        \/ ~camera
        \/ file /= NoFile /\ ~Read(file).camera
        \/ Range(m_allDrawable) \cap (late \cup uncompiled) /= {}
        \/ FromFile

\* A drawable that holds Direct3D resources is still in m_allDrawable, where
\* UnloadContent finds it, and load() never overwrites resources that are held:
\* unless the drawable has been taken out, for remDrawable does not unload it,
\* and the id that stays behind may bring a drawable back twice.
\* DrawableRenderer::remDrawable, UnloadContent, LoadContent
NothingLeaks ==
    /\ held \subseteq removed \cup Range(m_allDrawable)
    /\ leaked \subseteq removed \cup unloaded

\* A button is klicked only if the button of the mouse has gone down and up over
\* it since the mouse came to it or since the last klick, in either order: the
\* flags up and down agree with what the mouse did.  Exempt is a button that did
\* not see the mouse go: one whose flags have never been written, one outside
\* m_buttons, and one whose ButtonChecker comes after a DragMover.
\* Button::checkKlicked; ButtonChecker and DragMover of the applications
KlickedOverButton ==
    \A b \in klicked : mouse[b] = {"press", "release"} \/ b \in unseen
=============================================================================
