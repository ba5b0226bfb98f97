---------------------------- MODULE EventSystem ----------------------------
(***************************************************************************)
(* EventSystem (src/EventSystem/EventSystem.h): listeners, events fired at *)
(* once and events queued for the next update().  Everything runs on the   *)
(* one thread of the message loop, but a listener is free to call back     *)
(* into the event system while onEvent runs: it may add or remove          *)
(* listeners, queue events and fire others at once.  Each running dispatch *)
(* loop is therefore a frame on an explicit stack, and a step is what      *)
(* happens up to the next call of onEvent or return from it.               *)
(*                                                                         *)
(* Positions are numbered from 1 where the code counts from 0.             *)
(***************************************************************************)
EXTENDS Naturals, FiniteSets, SequencesExt

CONSTANTS
    Listeners,      \* the EventListener components there can be
    Events,         \* the events the program allocates
    Usable,         \* those whose `usable` is true: a listener may consume them
    Destroy,        \* those whose `destroy` is true: update() deletes them
    MaxListeners,   \* bound: length of the vector of listeners
    MaxQueue,       \* bound: events queued between two clears
    MaxDepth        \* bound: dispatch loops running inside one another

ASSUME EventAssumption == Usable \subseteq Events /\ Destroy \subseteq Events

ASSUME BoundAssumption ==
    MaxListeners \in Nat /\ MaxQueue \in Nat /\ MaxDepth \in Nat \ {0}

VARIABLES
    listener,       \* the registered listeners
    listenerIDs,    \* the parallel vector: which component each of them is
    onNextUpdate,   \* the events queued for update()
    deleted,        \* events that update() has deleted
    gone,           \* listeners whose game object has been deleted
    stack,          \* the dispatch loops that run, the innermost last
    undefined,      \* an event or a listener was used after its deletion
    owed,           \* history: dispatches each event still has to get
    requeued        \* history: events queued again while they were queued

vars == <<listener, listenerIDs, onNextUpdate, deleted, gone, stack,
          undefined, owed, requeued>>

\* A dispatch loop.  i: the position in onNextUpdate that update() is at, 0 for an instant
\* trigger; j: the position in listener; running: listener[j] is in onEvent;
\* stopped: it consumed the event.  History: served, the listeners called for
\* this event, and shifted, how often a listener at or before j was removed.
Loop(e, i) == [event |-> e, i |-> i, j |-> 1, running |-> FALSE,
               stopped |-> FALSE, served |-> <<>>, shifted |-> 0]

\* The count stops at MaxListeners, as many as there are to be missed.
MoreShifted(n) == IF n < MaxListeners THEN n + 1 ELSE n

Top == Last(stack)

\* The message loop or a listener has control, not a dispatch loop.
UserCode == ~undefined /\ (stack /= <<>> => Top.running)

\* A dispatch loop has control.
LoopCode == ~undefined /\ stack /= <<>> /\ ~Top.running

Init ==
    /\ listener = <<>>
    /\ listenerIDs = <<>>
    /\ onNextUpdate = <<>>
    /\ deleted = {}
    /\ gone = {}
    /\ stack = <<>>
    /\ undefined = FALSE
    /\ owed = [e \in Events |-> 0]
    /\ requeued = {}

-----------------------------------------------------------------------------
(* Operations that the application and the listeners call *)

\* A listener finds itself among the components of its game object and is
\* appended to both vectors; the id stands for the pair of object and index.
addEventListener(l) ==
    /\ UserCode
    /\ l \notin gone
    /\ Len(listener) < MaxListeners
    /\ listener' = Append(listener, l)
    /\ listenerIDs' = Append(listenerIDs, l)
    /\ UNCHANGED <<onNextUpdate, deleted, gone, stack, undefined, owed,
                   requeued>>

\* The k-th listener and the id at position `id` go, the loops that run become
\* `frames`.
RemoveEntry(k, id, frames) ==
    /\ UserCode
    /\ k > 0
    /\ listener' = RemoveAt(listener, k)
    /\ listenerIDs' = RemoveAt(listenerIDs, id)
    /\ stack' = frames
    /\ UNCHANGED <<onNextUpdate, deleted, gone, undefined, owed, requeued>>

IndexOf(l) == SelectInSeq(listener, LAMBDA x : x = l)

\* The loops that run keep their index and miss what moves below it.
LoopsShifted(k) ==
    [n \in DOMAIN stack |->
        [stack[n] EXCEPT !.shifted =
            IF k <= stack[n].j THEN MoreShifted(@) ELSE @]]

removeEventListenerFirstID(l) ==
    RemoveEntry(IndexOf(l), 1, LoopsShifted(IndexOf(l)))

\* Only the first occurrence goes, from both vectors.
removeEventListener(l) ==
    RemoveEntry(IndexOf(l), IndexOf(l), LoopsShifted(IndexOf(l)))

addInstantTrigger(e) ==
    /\ UserCode
    /\ e \notin deleted
    /\ Len(stack) < MaxDepth
    /\ stack' = Append(stack, Loop(e, 0))
    /\ UNCHANGED <<listener, listenerIDs, onNextUpdate, deleted, gone,
                   undefined, owed, requeued>>

addUpdateTrigger(e) ==
    /\ UserCode
    /\ e \notin deleted
    /\ Len(onNextUpdate) < MaxQueue
    /\ onNextUpdate' = Append(onNextUpdate, e)
    /\ owed' = [owed EXCEPT ![e] = @ + 1]
    /\ requeued' = IF e \in Range(onNextUpdate) THEN requeued \cup {e}
                   ELSE requeued
    /\ UNCHANGED <<listener, listenerIDs, deleted, gone, stack, undefined>>

\* ObjectStorrage::clear deletes every game object with its components: the
\* registered ones and those that exist without being registered.  Nothing
\* takes them out of the event system.
clearObjects(components) ==
    /\ stack = <<>>
    /\ ~undefined
    /\ Range(listener) \subseteq components
    /\ gone' = gone \cup components
    /\ UNCHANGED <<listener, listenerIDs, onNextUpdate, deleted, stack,
                   undefined, owed, requeued>>

\* The message loop calls update; with nothing queued it returns at once.
update ==
    /\ stack = <<>>
    /\ ~undefined
    /\ onNextUpdate /= <<>>
    /\ stack' = <<Loop(onNextUpdate[1], 1)>>
    /\ UNCHANGED <<listener, listenerIDs, onNextUpdate, deleted, gone,
                   undefined, owed, requeued>>

-----------------------------------------------------------------------------
(* The dispatch loops *)

\* listener[j]->onEvent(e)
callOnEvent ==
    /\ LoopCode
    /\ ~Top.stopped
    /\ Top.j <= Len(listener)
    /\ LET l == listener[Top.j] IN
       /\ undefined' = (l \in gone \/ Top.event \in deleted)
       /\ stack' = [stack EXCEPT ![Len(stack)].running = TRUE,
                                 ![Len(stack)].served = Append(@, l)]
    /\ UNCHANGED <<listener, listenerIDs, onNextUpdate, deleted, gone, owed,
                   requeued>>

Returns(consumed) ==
    /\ ~undefined
    /\ stack /= <<>>
    /\ Top.running
    /\ stack' = [stack EXCEPT
            ![Len(stack)].running = FALSE,
            ![Len(stack)].stopped = consumed,
            ![Len(stack)].j = IF consumed THEN @ ELSE @ + 1]
    /\ UNCHANGED <<listener, listenerIDs, onNextUpdate, deleted, gone,
                   undefined, owed, requeued>>

onEventReturnsAnyway(answer) == Returns(answer)

\* ... returns `answer`, and `usable` decides whether that ends the loop.
onEventReturns(answer) == Returns(answer /\ Top.event \in Usable)

LoopEnds == LoopCode /\ (Top.stopped \/ Top.j > Len(listener))

endInstantTrigger ==
    /\ LoopEnds
    /\ Top.i = 0
    /\ stack' = Front(stack)
    /\ UNCHANGED <<listener, listenerIDs, onNextUpdate, deleted, gone,
                   undefined, owed, requeued>>

\* The end of the outer loop's body in update: delete the event if `deletes`,
\* then go on with the next one at listener j if there are `more`.
UpdateGoesOn(deletes, more, j) ==
    /\ LoopEnds
    /\ Top.i > 0
    /\ undefined' = (Top.event \in deleted)
    /\ deleted' = IF deletes THEN deleted \cup {Top.event} ELSE deleted
    /\ owed' = [owed EXCEPT ![Top.event] = @ - 1]
    /\ IF more
       THEN /\ stack' = <<[Loop(onNextUpdate[Top.i + 1], Top.i + 1)
                             EXCEPT !.j = j]>>
            /\ UNCHANGED onNextUpdate
       ELSE /\ stack' = <<>>
            /\ onNextUpdate' = <<>>
    /\ UNCHANGED <<listener, listenerIDs, gone, requeued>>

endUpdateEventKeepsJ ==
    UpdateGoesOn(Top.event \in Destroy, Top.i < Len(onNextUpdate), Top.j)

endUpdateEventStops ==
    UpdateGoesOn(Top.event \in Destroy,
                 Top.i < Len(onNextUpdate) /\ ~Top.stopped, 1)

endUpdateEventDeletes == UpdateGoesOn(TRUE, Top.i < Len(onNextUpdate), 1)

\* onNextUpdate.size() is read again for every event, so that events queued in
\* the meantime are dispatched too.
endUpdateEvent ==
    UpdateGoesOn(Top.event \in Destroy, Top.i < Len(onNextUpdate), 1)

Next ==
    \/ \E l \in Listeners : addEventListener(l) \/ removeEventListener(l)
    \/ \E e \in Events : addInstantTrigger(e) \/ addUpdateTrigger(e)
    \/ \E components \in SUBSET Listeners : clearObjects(components)
    \/ update
    \/ callOnEvent
    \/ \E answer \in BOOLEAN : onEventReturns(answer)
    \/ endInstantTrigger
    \/ endUpdateEvent

Spec == Init /\ [][Next]_vars

\* The message loop calls update in every turn, whatever it fires before; a
\* dispatch loop runs on; every onEvent returns in the end, whatever it fires.
Fairness ==
    /\ SF_vars(update)
    /\ WF_vars(callOnEvent \/ endInstantTrigger \/ endUpdateEvent)
    /\ \A depth \in 1 .. MaxDepth :
           SF_vars(/\ Len(stack) = depth
                   /\ \E answer \in BOOLEAN : onEventReturns(answer))

FairSpec == Spec /\ Fairness

-----------------------------------------------------------------------------
(* Properties *)

\* The state has the types of the members of EventSystem, the index of a loop
\* stays inside what the code may read, and the two vectors, linked by nothing
\* but position, stay in step: after any sequence of adding and removing, inside
\* dispatch loops too, listenerIDs names the components in listener, which is
\* what serialize writes down.
TypeOK ==
    /\ listener \in BoundedSeq(Listeners, MaxListeners)
    /\ listenerIDs = listener
    /\ onNextUpdate \in BoundedSeq(Events, MaxQueue)
    /\ deleted \subseteq Events
    /\ gone \subseteq Listeners
    /\ Len(stack) <= MaxDepth
    /\ \A n \in DOMAIN stack :
           /\ stack[n].shifted \in 0 .. MaxListeners
           /\ stack[n].event \in Events
           /\ stack[n].i \in 0 .. MaxQueue
           /\ stack[n].j \in 1 .. MaxListeners + 1
           /\ Len(stack[n].served) <= MaxListeners
    /\ undefined \in BOOLEAN
    /\ owed \in [Events -> 0 .. MaxQueue]
    /\ requeued \subseteq Events

\* A loop during which nobody before or at its index was removed has called
\* every listener once and in order when it ends, those added on the way
\* included; it leaves listeners out only at the end, and only if the event is
\* usable and was consumed.
ServedInOrder ==
    LoopEnds /\ Top.shifted = 0 =>
        \/ Top.served = listener
        \/ Top.event \in Usable /\ IsPrefix(Top.served, listener)

\* A listener that removes itself or an earlier one moves the vector under the
\* index of the loops that run.  Each such removal makes a loop miss at most
\* one listener, however deep the loops are nested.
SkipsBounded ==
    \A n \in DOMAIN stack :
        Cardinality({k \in DOMAIN listener :
            k < stack[n].j /\ listener[k] \notin Range(stack[n].served)})
          <= stack[n].shifted

\* onNextUpdate.clear() at the end of update drops nothing: what is queued
\* from the loop's position on is what the events still have to get, also for
\* events that listeners queue while update() runs.
Remaining == IF stack = <<>> THEN 1 ELSE IF stack[1].i = 0 THEN 1 ELSE stack[1].i

NothingLost ==
    \A e \in Events :
        owed[e] = Cardinality({k \in Remaining .. Len(onNextUpdate) :
                                   onNextUpdate[k] = e})

\* A deleted object is used only after one of two mistakes of the program: an
\* event that update() deletes was queued twice, or the game objects were
\* cleared while components of them were registered.
UndefinedOnlyByMisuse ==
    undefined => \/ requeued \cap Destroy /= {}
                 \/ Range(listener) \cap gone /= {}

\* Every queued event is dispatched in the end.
EventuallyDispatched ==
    \A e \in Events : owed[e] > 0 ~> (owed[e] = 0 \/ undefined)
=============================================================================
