# BackupEngine: a TLA+ model of the engine

The repository is a small C++ game engine: a header-only network layer on asio
(`src/Netzwerk`), a serializer with an object tree (`src/Serializer`), an event
system (`src/EventSystem`), a Direct3D 11 renderer (`src/Engine`) and a few
applications (`src/Application`). `src/asio-1.18.0` is a vendored library.

The network layer is where threads, failures and ordering meet; the modules
here cover all of its state-changing operations. The event system, the object
tree with its serialization, the renderer with its buttons, and the map of
SiedlerServer follow.

## Inventory

| part | state it keeps | operations | hard because |
|---|---|---|---|
| `tsqueue` (tsQueue.h) | `deqQueue`, `muxQueue`, `muxBlocking`, `cvBlocking` | push and pop at both ends, `clear`, `empty`, `wait` | two mutexes taken in a nested way by producers and separately by the consumer; a condition variable without a predicate |
| `connection` (Connection.h) | `m_socket`, `m_qMessagesOut`, `m_msgTemporaryIn`, `id` | `ConnectToClient`, `ConnectToServer`, `Send`, `Disconnect`, the handlers of `WriteHeader`, `WriteBody`, `ReadHeader`, `ReadBody` | a chain of completion handlers that must start one another; buffers that live in the queue; errors and aborts between any two handlers |
| `server_interface` (ServerBase.h) | `m_deqConnections`, `m_qMessagesIn`, `nIDCounter`, the thread | `Start`, `Stop`, accepting, `MessageClient`, `MessageClientGroup`, `MessageAllClients`, `Update` | the deque is used by two threads without a lock; clients disconnect in the middle of broadcasts; `MessageAllClients` calls itself |
| `client_interface` (ClientBase.h) | `m_context`, `thrContext`, `m_connection` | `Connect`, `Disconnect`, `Send` | `stop()` races with the posted close; the context is reused |
| `message` (Message.h) | header and body | `<<`, `>>` | the body outlives the message it belonged to |
| `SerializedObject`, FileWriter.h | a byte stack | `<<`, `>>`, read and write a file | what is written last is read first |
| `ObjectStorrage`, `GameObject` (Objects.h) | map of objects, parent ids, child ids, components | create, `setParrent`, `setParrentID`, `addComponent`, `serialize`, `set`, `clear` | links kept on both sides; a throw in the middle; ids after a load |
| `EventSystem` (EventSystem.h) | listeners, queued events | add, remove, `addInstantTrigger`, `addUpdateTrigger`, `update` | listeners and events added or removed while one is dispatched |
| `Transform`, `Kamera` | cached matrix, dirty flag, parent | setters, `GetWorldMatrix`, `setParrent` | cache validity; the parent that is used and the one that is saved |
| `Button`, `Dx11Base`, `DrawableRenderer` and drawables | lists of buttons, drawables and their ids, shader cache | add, remove, load, unload, render, `checkKlicked` | parallel lists; load and unload in the wrong order |
| `Map` (SiedlerServer) | tiles, places, villages, streets | `setTile`, `addVillage`, `addStreet` | index arithmetic; pointers into growing vectors |
| asio (external) | | | modelled from its use |

How the parts interact: an application calls `client_interface` or
`server_interface` from its own thread. They call `connection`, which posts a
lambda to the `io_context`; everything a connection does to its queues and its
socket after that happens in handlers on the context's one thread. The handlers
push what they received into the `tsqueue` of the interface, from which the
application's thread takes it in `Update`. The engine parts run on one thread,
driven by the message loop of the applications; `EventSystem` calls listeners,
which are components of game objects, and those call the other parts.

## Modules

**Mailbox** is what `tsqueue` promises: a double-ended queue whose operations
take effect one at a time. **TsQueue** is the implementation. A step is what a
thread does between two points at which it can be made to wait or be observed.
`push_*` holds `muxQueue` while it waits for `muxBlocking`, so it is three
steps (`push_back`/`push_front`, `LockBlocking`, `Notify`); `wait` is the cycle
`WaitTest`, `WaitLock`, `WaitSleep`, `WaitRelock`, `WaitUnlock`; the loop of
`server_interface::Update` is `DrainTest` and `pop_front`. Items are numbered
in the order of their arrival, which is enough to tell them apart.

**Channel** is what the two ends of a connection promise each other: each
receives a prefix of what the other sent, up to the first message with a body
that its header does not announce. **Connection** is the implementation
with both ends, a FIFO of posted lambdas per end, at most one outstanding read
and write per end, and the network. Each handler in the code is an action; so is
each completion by asio (`WriteComplete`, `ReadComplete`, ...), marked external.
A message is its number, the size its header announces and the length of its
body. The two differ in a message that was received without a body, delivered
with the body of the one before it (Connection.h:149) and passed on to `Send`
(`PassedOn`): the writer goes by `body.size()` (Connection.h:92), the reader by
`header.size` (Connection.h:143). A header and a body each travel as one frame,
because `async_read` and `async_write` complete only when the whole buffer is
transferred. A reader that meets a body where it awaits a header takes its bytes
for one (`Misread`) and has `lost` the frames: what it reads from then on is of no
message and announces any size. `m_msgTemporaryIn` keeps header and body
separately, because the code fills them separately.

**Server** is `server_interface` with the accept handler in three steps
(`AcceptClient`, `ConnectBack`, `ClientConnected`: it uses `m_deqConnections` three
times, ServerBase.h:62-65), connections reduced to socket and outstanding
operations, and the application's thread as an explicit call stack: one step
visits one client of a loop, so handlers run between any two visits. The
unlocked `erase(remove(..), end())` is three steps, too: the end of the loop,
`Remove`, which moves the kept pointers up and leaves null pointers behind them, and
`Erase`. `EndLoop` keeps the `end()` that a compiler may compute before `remove()`,
`Erase` takes any `end()` since `remove()`: a client that was pushed in between is
kept or erased with the null pointers. `raced` are the clients whose accept handler
met such an erase. For them the code promises nothing, and the model reaches
that: a connected client is dropped without notice, `ConnectToClient` and
`OnClientConnect` get another connection, or `back()` is a null pointer or of an
empty deque. The last, and an erase up to an `end()` that is older than the
`push_back`, make `context` "undefined", after which nothing happens. A message
is reduced to the farewell it carries, the client whose `OnClientDisconnect`
returned it. Who holds a `shared_ptr` is computed (`Referenced`), so a
connection is destroyed in the step in which the last pointer goes.
**MCServer** adds the symmetry of the clients, and for each passing run a view
without the histories and ids that neither a guard nor its invariants read. The farewell
and notification histories (`known`, `raced`, `notified`, `direct`, `owed`, `told`)
exist for the properties, `known` also for the name of the next client.

**Client** is `client_interface` over several connects: `Disconnect` is four
steps (post the close, `stop()`, `join()`, `release()`) and handlers run between
them. Of each connection it keeps the socket, the outstanding operations and
the posted lambdas.

**EventSystem** is the event system of the same name. A listener may call back
into it while `onEvent` runs, so each dispatch loop is a frame of an explicit
stack with its indices `i` and `j`; a step goes to the next call of `onEvent` or
the return from it. The frame of `update()` stays at the bottom and walks
`onNextUpdate`, whose size it reads again each time. A use of a deleted event
or listener sets `undefined`, after which nothing happens. `served`, `shifted`,
`owed` and `requeued` exist only for the properties. `delete` of an event through
`Event`, which has no virtual destructor, is modelled as the deletion it is in
practice.

**Serializer** is the byte stack: a value is one unit with its width, a string
is its characters and then their number, and a reader that meets a unit of
another width fails, because the code would then interpret bytes of other
values. **Scene** is `ObjectStorrage` with `GameObject` and `Transform`:
`objects` is the map from ids, `file` the body written by `serialize`, and
`load` reads it with the steps of `ObjectStorrage::set`, `GameObject::set` and
the components in the order of the code. Only `Transform` has data; its
position, rotation and scale travel as one unit. A call that throws before it
changes anything is not an action; `setParrentID` throws after the object has
left its parent, and that is one. An invalid iterator, a null pointer or a
misread body sets `undefined`. `torn`, `assigned`, `pending` and `saved` are
history. **MCScene** gives the kinds of component of the applications.

**Map** is the board of SiedlerServer. Coordinates and the index formulas are
those of the code, each vector is a function on the indices it has (`Resized`),
and a pointer to a tile is a block of memory and a position in it, so that a
`push_back` that moves `allTiles` leaves old pointers behind. `setTile` contains
`place::afterSet` with its six villages and six streets. A negative index sets
`undefined`. `calls` and `resized` are history. **MCMap** gives the two sizes.

**Button** is `checkKlicked` as a function of the two flags. **Renderer** is
`DrawableRenderer` with `Dx11Base`: for drawables and buttons both lists, of
pointers and of ids, the shaders with the pointers into them (`container`), the
resources each drawable holds, and save and load through Serializer. Direct3D
succeeds or fails: `Initialize` says how many calls did and which shaders do not
compile. `turn` is a turn of the message loop, in which `ButtonChecker` asks
the buttons unless a `DragMover` has consumed the event. An uninitialised, null or
dangling pointer sets `undefined`. `noTransform` has the camera, drawables and
buttons whose `transform` is unset: all that a load makes, because
`GameObject::set` never calls `setRequirements` (Objects.h:279-285), until the
application makes new ones or assigns it (as SceenViewer/Main.cpp:243 does). From `klicked` on, the variables are history or
bounds. A guard says that nobody calls `Initialize` or loads over a live
device, which no application does. **MCRenderer** gives the drawables.

Server and Client abstract the connection to what their own properties need;
Connection is the module with its details. Each action of theirs that stands
for a handler is mapped to the same lines of Connection.h.

## Runs

| run | module | bounds | shows |
|---|---|---|---|
| tsqueue | TsQueue | 2 producers, 3 pushes, batches of 0..2 | `PopNeverEmpty`: `Update` never pops an empty deque. `SleepsOnlyIfMissed`: a wake-up is lost only if the notification comes between `empty()` and the lock of `muxBlocking` (tsQueue.h:80-82), where the code does lose it. `PushCompletes`: the mutexes never deadlock. `SleeperServed`: a sleeper that did not miss its notification gets to the queue. `IsMailbox`: refinement. Deadlock is checked. |
| connection | Connection | bodies of size 0 and 1, 2 messages, passed on or not, 1 Disconnect, any number of network errors | `NoOverlap`: never two writes (or reads) on a socket. `BufferIsFront`: the buffer being written stays at the front. `BodyOwnOrStale`: a message without a body arrives with the previous body. `IsChannel`: refinement. `SentIsDelivered`: what is sent arrives unless the connection breaks or a message before it has a body that its header does not announce. `CloseSpreads`: when one end closes, so does the other. |
| server | MCServer | 2 clients, 2 calls, 1 message | `BackIsNew`: `back()` in the accept handler is the new client. `ConnectedIsKept`: the deque keeps every connected client, in order of id. `NotifiedOnce`: `OnClientDisconnect` comes before a client is dropped, and a second time only after `MessageClient` or `MessageClientGroup` called it. All three but for clients in `raced`; the order of the ids and the count of notifications for these, too. |
| server_farewell | MCServer | 3 clients, 1 call, 0 messages | `FarewellsSent`: every farewell reaches every client that was there and stayed. `RecursionBounded`: the depth of `MessageAllClients` is bounded by the clients it has dropped, plus two. |
| server_lifetime | MCServer | 2 clients, 2 calls, 1 message | violated: a connection is destroyed while its `async_write` is outstanding. |
| client | Client | 3 connects, 2 messages | `ReleasedIsQuiet`: a released connection is never touched again. `OpenOnlyIfCloseDiscarded`: if `Disconnect` leaves a socket open, its close was posted and discarded. `DisconnectReturns`. |
| client_restart | Client | 2 connects, 1 message | violated: a second `Connect` runs a stopped context. |
| eventsystem | EventSystem | 2 listeners, 2 events (one that is consumed, one that is deleted), 2 entries of each vector, 2 nested loops | `ServedInOrder`: without removals a loop calls every listener once and in order, up to the one that consumes. `SkipsBounded`: each removal at or before a loop's index makes it miss at most one. `NothingLost`, `EventuallyDispatched`: every queued event is dispatched, once per queueing, also when queued during `update()`. `UndefinedOnlyByMisuse`: deleted objects are used only if an event that is destroyed was queued twice or objects were cleared while registered. `TypeOK` includes that `listenerIDs` follows `listener`. |
| scene | MCScene | 3 objects, 2 components, together at most 4, one save, 1 change after it | `LinksAgree`: parents and children agree, except for objects whose `setParrentID` threw and scenes loaded over others. `IdsContiguous`: ids are 0 .. counter - 1. `ComponentsComplete`: requirements and `Lonly` hold through save and load. `ParentSaved`: `m_parrent` and `pGOID` agree unless `m_parrent` was assigned directly or `afterSet` has not run. `UndefinedOnlyAfterFault`: undefined behaviour only after these or without a file. `RoundTrip`: what is loaded is what was saved. |
| scene_kinds | MCScene | 1 object, the 4 kinds of SceenViewer | violated: a saved `ButtonChecker` comes back as a `DragMover`. |
| map | MCMap | boards of 2 x 3 and 3 x 2, 2 lists of items, 3 calls of `setTile`, any number of `setMaxSize` | `PlacesShowTheirTiles`: every place shows the last tile set there, through a pointer that is valid unless a new tile moved `allTiles`. `CornersAndSides`: every corner lists the tiles around it in order, through pointers that are valid unless a new tile moved `allTiles`, and every side has its own slot. `UndefinedOnlyAtOrigin`: an index is negative only for a tile at 0, 0. |
| renderer | MCRenderer | 2 drawables of one object, one of which has a transform, 2 buttons of which the mouse gets to 1, lists of up to 3 ids, 6 calls, presses and releases | `SavedIsShown`: what a save brings back against what is shown. `UndefinedOnlyByMisuse`: which calls lead to an invalid pointer, and that what a load has made does. `NothingLeaks`: whose Direct3D resources are never released or are overwritten. `KlickedOverButton`: a button is klicked only if the mouse button went down and up over it. |

The violations of the network layer are disagreements between the code and the
documentation of asio that the repository carries (`write.hpp:727-729`,
`io_context.hpp:527-530`). Both are reached by ordinary use: a client that
disconnects while it is being sent to, and a client that reconnects.
`scene_kinds` is a disagreement with the pattern of a component in
`Serializer/tests.cpp:14-17`.

Behaviours the passing runs show that a user of the code should know:
the lost wake-up of `wait()`; the stale body of a message of size 0
(Connection.h:149-151), which puts the stream out of step when the message is
passed on to `Send`; the client that is lost when it connects while another one is
erased (ServerBase.h:132); a second `OnClientDisconnect` for a client that
`MessageClient` found disconnected, because `client.reset()` (ServerBase.h:85)
resets the parameter only; the socket that stays open after
`client_interface::Disconnect` when `stop()` overtakes the posted close; the
listener that is skipped when one removes itself; the parent that a `Transform`
loses on loading because SceenViewer assigns `m_parrent` without `setParrent`
(SceenViewer/Main.cpp:375); the object that no parent lists after `setParrentID`
threw. `GameObject::set` never calls `setRequirements`, so loaded components do not
know the ones they require: Renderer has what follows for cameras, drawables and
buttons, but loaded listeners, which are not registered, are in no property.

In the renderer: a removed drawable keeps its id and comes back with a saved scene,
and one removed and added again is saved twice; a scene that was saved and loaded
cannot be rendered, as its camera has no transform (Kamera.h:26); `clear()` keeps the ids of the
buttons, and buttons added after it are saved with the old ids; a drawable added
after `Initialize` is rendered with null pointers; `registerShader` answers true for a
shader that does not compile (Sprite.h:48-50), which is then rendered;
`checkButtons` after `Terminate` uses the null context that `Render` tests
(Dx11Base.h:216). A button counts a release and then a press as a click, too, as its
flags know no order. In the map: `addStreet` writes `streets[-1]` for a tile at
0, 0; a pointer kept by a place dangles once a new tile has moved `allTiles`; and
since the constructor of `village` sets `isInitialized`, the branch of
`addVillage` that fills in coordinates is never taken and `getVillages` returns
every slot that `resize` has created.

### Why the bounds are enough

*tsqueue*: the smallest queue on which a push can find it empty, non-empty or
being drained while another producer waits for either mutex needs two producers;
three items let one arrive during each of test, lock and drain. *connection*:
two messages make a queue with a message behind the one being written, in both
orders of sizes, and let the second follow one that was passed on; larger totals add
no new state of a handler. The close may come
at any point, and errors are not bounded at all. *server*: two clients give a
connected one before and after a disconnected one; two calls let the second meet
what the first left behind. Farewells need three: one who leaves, one who leaves
during the broadcast, one who stays. A null pointer to erase and a client who is
accepted meanwhile take two clients and one call. *client*: three connects, so that a
connection can be left over on a context that is used twice more.
*eventsystem*: two listeners and two loops are enough for a removal to shift the
index of the loop that runs and of the one around it; two entries in the queue
let one be queued while the other is dispatched, or the same one twice.
*scene*: three objects give a parent with two children in either order and
a new parent beside the old one; `RoundTrip` walks every forest over them, and
the graphs with cycles that `setParrent` allows. Two objects can have a
`Transform` with a `DragMover`, or one each that point at each other. The file is
written once, because a loaded scene is again one that could have been built.
*map*: three calls give a vector that moves twice, a place set twice and
neighbours that share corners and sides; with two sizes a formula that swaps
width and height shows; the three invariants are proved for every size.
*renderer*: six calls are the longest scenario of the code (add, initialize,
remove, add again, save or terminate, load) with room for one call in between; two
drawables that share a shader let the second find it in the cache. The second
button tells a removal from the wrong position. The changes of a turn without press
or release are not bounded.

### Deadlock

It is checked for TsQueue. Because `Update` can be called again and a sleeper can
wake up spuriously, a deadlock of the two mutexes alone need not stop the whole
model, so `PushCompletes` says it of each push. The other runs switch the check
off: a message loop that quits, a program after undefined behaviour, a connection that is closed and drained, a server, a map and a renderer whose bounded
calls are used up and a client that has terminated rightly stop.

### Fairness

* TsQueue: weak fairness of a producer inside `push_*` and of the consumer
  inside `Update` (a thread that can run, runs; `std::mutex` is free again and
  again because its holders do not block). Not of new calls, and not of spurious
  wake-ups.
* Connection: weak fairness of each kind of handler per end (the context's
  thread keeps running) and of asio's completion of a read that has data, of a
  write (complete or fail) and of a read whose peer closed (it fails). Network
  errors and application calls have none.
* Client: weak fairness of the three later steps of `Disconnect` and of `run()`
  returning once stopped. No handler has any: a read may wait for ever.
* EventSystem: strong fairness of `update()`, which the message loop calls in
  every turn (SceenViewer/Main.cpp:344), whatever is fired in between; weak
  fairness of the dispatch loops; strong fairness of the return from `onEvent`
  at each depth, because a listener that fires again and again returns in the
  end. No fairness of what listeners and the application choose to do.
* Server, Scene, Map and Renderer: safety only. Nothing there is promised to
  happen without a call of the application.

## Proofs

What is proved holds for every value of the constants, not only for the bounds
of the runs.

`TsQueueProofs` proves, for every set of producers and all bounds, type
correctness, `PopNeverEmpty`, `SleepsOnlyIfMissed` and `IsMailbox`. The
inductive invariant adds to the types which thread holds which mutex in which
state (`Locks`), that the missed-notification window is open from the moment
`empty()` was true (`Window`), and that the consumer is about to pop only when
both halves of the loop's condition held (`MayPop`). `Locks` is what makes the
rest inductive: a producer in `push_*` excludes every other change of the queue.
Assumptions: the threads are distinct (`ThreadAssumption`) and the bounds are
numbers (`BoundAssumption`).

`ConnectionProofs` proves, for any sizes of bodies, any number of messages and
closes and any of the messages passed on with a body they do not announce, type correctness, `NoOverlap`, `BufferIsFront`, `BodyOwnOrStale` and
`IsChannel`. None of them is inductive: that the second handler of a write finds
its message at the front, or that the frame read next is the header of the next
message, depends on everything between `Send` and the handler. The invariant
`IInv` therefore follows the messages of an end through all the places they can
be in:

* `SentInv`: messages are numbered in the order of `Send`;
* `PostsInv`: the posted lambdas carry the messages sent and not yet queued, in
  order;
* `QueueInv`: `m_qMessagesOut` is the end of what was queued;
* `StreamInv`: the wire holds header, body, header, ... of consecutive messages,
  and a body wherever the message has one, announced or not;
* `WriteInv`: the outstanding write is of the front of the queue and continues
  the wire, and a queue that is empty has been written completely;
* `ReadInv`: until the frames are lost, the peer's outstanding read is of the frame
  that comes next; `BufferInv`: `m_msgTemporaryIn` holds the header read last and the
  body delivered last, whatever they were read from;
* `DeliveredInv`: until then, what was delivered is a prefix of what was sent;
* `LostInv`: they are lost only after a delivered message whose size and length differ;
* `SetupInv`: an end that is not connected has not started to read.

Each of these is preserved because of the one before it, end by end: `WriterStep`
and `ReaderStep` collect one lemma per handler, and a step of one end can disturb
the other only by letting its history grow (`HistoryGrows`, `ReaderKept`).
`DeliverStep` and `ChannelStep` map the steps to those of Channel: `Send` to
`Send`, a handler that calls `AddToIncomingMessageQueue` to `Deliver`, every
other action to a stutter. That `IsChannel` says something of the messages before
the first one whose size and length differ needs `LostInv`: an end that has lost
the frames has been delivered that message. Assumption: sizes are numbers, and 0 is
one (`SizesAssumption`).

`ClientProofs` proves, for any number of connects and messages,
`OpenOnlyIfCloseDiscarded` and `ReleasedIsQuiet`. The invariant says that the
context is stopped once `Disconnect` has called `stop()` and whenever a connection
has been released (`Stopped`), that the connection in use is not a released one
(`Reached`), and that while `Disconnect` runs its connection is closed or the lambda
that closes it is still posted (`Closing`). `ReleasedIsQuiet` then follows step by
step: handlers of a released connection would need a context that runs. Assumption: the
bounds are numbers (`BoundAssumption`).

`ServerProofs` proves, for any clients, any number of calls and any depth of the
recursion, all five invariants of Server: `BackIsNew`, `ConnectedIsKept`,
`NotifiedOnce`, `FarewellsSent` and `RecursionBounded`. Its invariant says, besides the
types,

* of the deque: a connection is in it once, and every open one is, but for those in
  `raced` (`Deque`); ids are given out in its order, also when `back()` is another
  connection than the new one (`Ids`); while the accept handler is between its steps no
  other handler can close the new connection, so it stays open and at the end, unless it
  meets an erase (`Accepting`);
* of the calls: only the innermost one loops and only the outermost can be a group's,
  and a loop stays inside the list it is over (`Frames`); a null pointer in the deque
  lies behind the position of the loop that reset it, which will erase it (`Resets`), so
  that no loop meets a null pointer; between `remove()` and `erase()` the null pointers
  are exactly the positions left over, and what is behind them was pushed since
  (`Erases`), so that an erase drops nothing but null pointers and clients in `raced`;
* of what is owed: `OnClientDisconnect` was called once for each dropped client
  (`Notified`); a farewell that has not reached a client is still kept by a call of the
  stack, or is the message of a loop that has yet to visit the client (`Farewells`);
* of the recursion: each call below the innermost one, but a group's, has dropped a
  client (`Depth`).

`RemovedList`, about `std::remove`, rests on `Ranks`: counting the positions of a set
from the front numbers them without gaps. `Rearranged` collects what `RemoveStep` and
`EraseStep` share: a deque that keeps all clients but some in `raced`, in their order. Assumption: a null pointer is no client
(`ClientAssumption`) and the bounds are numbers (`BoundAssumption`).

`EventSystemProofs` proves, for any listeners, events, bounds and depth of nesting,
type correctness, `NothingLost`, `UndefinedOnlyByMisuse`, `SkipsBounded` and
`ServedInOrder`. The invariant `IInv` adds to the types:

* `Loops`: each loop that runs has made one call for each position up to its index;
  a position there that does not hold a listener it has called is a gap, and there
  are at most as many gaps as removals at or before the index. The gaps, and not the
  listeners missed, are what is inductive: `erase` moves the positions behind the
  erased one down, so that the gaps move along injectively and at most one comes in
  at the index (`LoopAfterRemove`), while a listener that is appended later may stand
  in a gap (`LoopAfterAppend`);
* `Nested`: only the outermost loop can be that of `update()`, every loop but the
  innermost waits for an `onEvent`, and the loop of `update()` holds the event at its
  position in the queue. Hence that loop is alone whenever it has control
  (`UpdateAlone`), and what is left of the queue changes only when it goes on;
* `Queue`: an event that is in the queue twice has been queued again, and one that is
  deleted and still to come is such an event, which is why `UndefinedOnlyByMisuse`
  names no other mistake.

Assumptions: the events that `usable` and `destroy` name are events
(`EventAssumption`) and the bounds are numbers (`BoundAssumption`).

`RendererProofs` proves, for any drawables, shaders and buttons and any number of calls,
all four invariants of Renderer: `SavedIsShown`, `UndefinedOnlyByMisuse`,
`NothingLeaks` and `KlickedOverButton`. `ReadBack`, a lemma about every state, says that
`set` reads exactly what `serialize` wrote: it takes the six values off the end one by
one (`GotValue`, `GotValues`), and the pairs of ids come out turned round
(`PairsBack`). The invariant says, besides the types,

* of the lists: what is shown is listed, and what was never taken out is listed as it
  is shown, once and in the same order (`Shown`), in memory and in the file (`Filed`);
  the ids of the buttons are at least as many as the buttons, and the same unless
  `clear` emptied one list (`InStep`), without which `serialize` would read outside;
* of the resources: without a device only drawables that were taken out hold any
  (`Released`), and after an `Initialize` that succeeded everything shown since then can
  be drawn, but for a transform that a load left unset (`Loaded`);
* of the mouse: the flags of a button that has seen the mouse come remember only what
  it did since (`Remembered`).

The proof showed what the run's bound hid: a button that is listed twice is klicked by
the first of its checks and may keep a flag from the second, so that after it has been
taken out once a release alone klicks it. `unseen` therefore exempts a button as long as
its flags hold something from a turn that it was asked twice in. Assumption:
drawables are pairs of numbers, buttons are numbers (`RendererAssumption`).

`MapProofs` proves, for boards of every size, any items and any number of calls, what
the run shows on two boards: `PlacesShowTheirTiles`, `CornersAndSides` and
`UndefinedOnlyAtOrigin`. The formulas for places, corners and sides give different
indices (`PlacesDistinct`, `VillagesDistinct`, `StreetsDistinct`, by `RowMajor`, the
uniqueness of a row-by-row index), and the only negative index among the sides of
places belongs to row -1 of column 0 (`NegativeIsFirst`). The six calls of
`addVillage` and `addStreet` therefore change six villages and six streets and no
others (`SixVillages`, `SixStreets`). The invariant relates the vectors to the history of
calls:

* `PlacesInv`: the last call for a place stands where its index says, with a pointer
  that is in the block of memory in use unless a list of items was new since then
  (`Points`, kept by `PointsKept`), and nothing stands elsewhere;
* `VillagesInv`: what a corner lists was set by the calls around it, one by each and in
  their order, and each pointer in the list is as valid as the place's (`Points` again); `StreetsInv`: the streets are the sides of the calls, each in its slot;
* `Memory`: `allTiles` fits into its block and holds what `setTile` was called with, so
  that a list of items makes it move only if no earlier call had it.

Assumption: sizes are positive (`SizeAssumption`).

`SceneProofs` proves, for any number of objects, components and calls, all that the run
of Scene checks: `IdsContiguous`, `LinksAgree`, `UndefinedOnlyAfterFault`,
`ParentSaved`, `RoundTrip`, and `ComponentsComplete` for components that write the name
of their own type (`OwnNames`, which `ButtonChecker` does not: see `scene_kinds`). The
first half of the module is about every state: what `set` reads is what `serialize`
wrote. The functions that stand for the loops are followed loop by loop, from values
(`GotValue`, `GotValues`, `GotString`) to a component (`ComponentBack`), the components
of an object (`ComponentsBack`), an object (`ObjectBack`), the objects (`ObjectsBack`)
and the file (`SceneBack`): after n turns the reader stands where the writer stood n
turns before its end, so that each induction is over the turns of one loop, on a set of
numbers (`UpTo`) and not on data, and `Recursion` gives the values of such a function.
The second half is the invariant `IInv`:

* `Sound`, of the storage and of the one in the file: the ids are 0 .. counter - 1, all
  parents and children are among them (`Forest`), each link is there from both sides
  (`Linked`), and, as long as no link was torn, the parent that a `Transform` saves is
  an object that has one (`Resolvable`), which `afterSet` needs;
* `Parents`: a `Transform` uses the parent it saves, or it was loaded, waits for
  `afterSet` and uses none, so that `afterSet` makes the two agree;
* the file is what `SerializedScene` makes of the storage that was saved;
* with `OwnNames`, every object, also in the file, is complete.

`setParrent` erases the first entry of the child (`RemovedChild`) and appends one
(`AddedChild`); between the two the child is nowhere (`Apart`), which is what remains
when `setParrentID` throws. A scene that is loaded into an empty storage is sound
because the saved one was (`LoadedScene`); over existing objects only the ids agree
(`LoadedOver`). Assumptions: type names are different strings, and the name of
`Transform` is written by `Transform` and by no other component (`KindAssumption`,
`StringAssumption`); 0 is a place (`PlaceAssumption`).

Only model-checked: the liveness properties (`PushCompletes`, `SleeperServed`,
`SentIsDelivered`, `CloseSpreads`, `DisconnectReturns`, `EventuallyDispatched`),
because the prover has no fairness. Every invariant and every other action property
of a passing run is proved.

## Not modelled

* The vendored asio (about 168000 of the 173500 lines of the repository; the
  engine's own code has some 5200) is a library: what it does for `src/Netzwerk` is
  modelled as external, its implementation is not the subject.
* Direct3D calls beyond success and failure, vertex and instance buffers, tiles of
  a picture, the parsers of sprite files, and the Win32 calls of the message loop:
  I/O and geometry, with no order to get wrong.
* The matrices of `Transform` and `Kamera`: floating point. Their dirty flags are set
  by every setter and cleared by the one getter. That `GetWorldMatrix` recurses
  for ever when transforms are each other's parents is a consequence of the cycles
  the scene run reaches and no document forbids; it is not a property here.
* The actors of a `Button` and the ids they are saved by: a list like the ones of
  the renderer, erased in step.
* `Inventar`: no method fills it. The `<<` and `>>` of `message`: they copy values to
  and from the end of the body.
* `nIDCounter`'s 32-bit wrap, and the memory corruption that a `push_back` into
  `m_deqConnections` during an unlocked loop or erase may cause; the model of the loop
  has the outcome in which it keeps the end it computed first, and the erase those
  in which each of `push_back`, `remove()`, `end()` and `erase()` takes effect at once.
* `IsConnected()` and what the server does with the answer are one step. A socket
  that is found closed is not opened again, and a `Send` to one that is closed in
  between posts what it would have posted before, so that two steps show the same.
* A second `ObjectStorrage`: Scene is the one that `getInstance` returns. SceenViewer
  has another one, of the same class, for the scene that it inspects.
* The shader objects that leak when a pixel shader does not compile: `NothingLeaks` is
  about drawables.

Open, in the order of what they would add: the actors of a button in Renderer; a
handler of `connection` that runs on more than one thread of the context, which no
program of the repository sets up.
