------------------------------- MODULE Server -------------------------------
(***************************************************************************)
(* Netzwerk::server_interface (src/Netzwerk/ServerBase.h): the connections *)
(* a server keeps, the thread of its io_context that accepts clients and   *)
(* runs their handlers, and the application's thread that takes messages   *)
(* out of m_qMessagesIn and sends to one client, to a group or to all.     *)
(*                                                                         *)
(* A step of the io_context's thread is one handler, except that accepting *)
(* a client is three: it uses m_deqConnections three times.  A step of the *)
(* application's thread visits one client of a loop, and                   *)
(* erase(remove(..), end()) is three steps: the io_context's thread runs   *)
(* between any two of them.                                                *)
(*                                                                         *)
(* m_deqConnections has no lock.  A push_back during a loop is modelled by *)
(* the outcome in which the loop keeps the end it computed first.  One     *)
(* during an erase is kept, or dropped with the reset pointers, by where   *)
(* it falls.  A use of an empty back() and an erase up to an end() older   *)
(* than the push_back are undefined, and not followed further.             *)
(*                                                                         *)
(* What a client is sent is abstracted to farewells: a message is the      *)
(* client whose OnClientDisconnect returned it, or NoClient.               *)
(***************************************************************************)
EXTENDS Naturals, Sequences, FiniteSets

CONSTANTS
    Clients,        \* connection objects
    NoClient,       \* nullptr, and an ordinary message
    FirstId,        \* initial value of nIDCounter
    MaxCalls,       \* bound: calls of MessageClient, -Group and -AllClients
    MaxIncoming     \* bound: messages received

ASSUME ClientAssumption == NoClient \notin Clients
ASSUME BoundAssumption == FirstId \in Nat /\ MaxCalls \in Nat /\ MaxIncoming \in Nat

VARIABLES
    context,        \* m_asioContext and its thread: "new", "running", "stopped",
                    \* or "undefined" after a use of memory that is not defined
    accepting,      \* the client whose accept handler is past its push_back
    greeting,       \* ... and past ConnectToClient
    m_deqConnections,
    nIDCounter,
    id,             \* id of each connection, 0 before ConnectToClient
    open,           \* m_socket.is_open()
    ops,            \* what asio holds of each connection, see NoOps
    m_qMessagesIn,  \* senders of the received messages
    current,        \* msg.remote while OnMessage runs
    held,           \* connections the application keeps a shared_ptr to
    stack,          \* calls of MessageClientGroup and MessageAllClients
    calls, incoming,    \* history: for the bounds
    known,          \* history: clients that were put into m_deqConnections
    raced,          \* history: clients whose accept handler met an erase
    notified,       \* history: how often OnClientDisconnect was called for each
    direct,         \* history: how often by MessageClient or MessageClientGroup
    owed,           \* history: farewells made while the client was kept and connected
    told            \* history: farewells sent to each client

server == <<context, accepting, greeting, m_deqConnections, nIDCounter, id>>
net == <<open, ops, m_qMessagesIn, incoming>>
history == <<known, raced, notified, direct, owed>>
vars == <<context, accepting, greeting, m_deqConnections, nIDCounter, id, open, ops,
          m_qMessagesIn, current, held, stack, calls, incoming, known, raced, notified,
          direct, owed, told>>

\* the outstanding read and write, the posted lambdas of Send, and the length
\* of m_qMessagesOut
NoOps == [read |-> FALSE, write |-> FALSE, send |-> 0, queue |-> 0]

InSeq(x, s) == \E i \in 1 .. Len(s) : s[i] = x

\* A call on the application's thread.  In its loop it visits list[i] for i up
\* to end; list is the vector of a group, or empty for m_deqConnections itself.
\* While it erases, i .. end are the positions that remove() has left over.
Frame(list, end, msg, ignore) ==
    [list |-> list, i |-> 1, end |-> end, msg |-> msg, ignore |-> ignore,
     phase |-> "loop", afterDisconectSend |-> <<>>]

\* Who holds a shared_ptr to the connection.  Without one it is destroyed.
Referenced(c) ==
    \/ InSeq(c, m_deqConnections)
    \/ InSeq(c, m_qMessagesIn)
    \/ c \in held \cup {current}
    \/ \E k \in 1 .. Len(stack) : InSeq(c, stack[k].list)

Destroyed(c) == c \in known /\ ~Referenced(c)

IsConnected(c) == c # NoClient /\ open[c]

Init ==
    /\ context = "new"
    /\ accepting = NoClient /\ greeting = FALSE
    /\ m_deqConnections = <<>>
    /\ nIDCounter = FirstId
    /\ id = [c \in Clients |-> 0]
    /\ open = [c \in Clients |-> FALSE]
    /\ ops = [c \in Clients |-> NoOps]
    /\ m_qMessagesIn = <<>>
    /\ current = NoClient
    /\ held = {}
    /\ stack = <<>>
    /\ calls = 0 /\ incoming = 0
    /\ known = {} /\ raced = {}
    /\ notified = [c \in Clients |-> 0]
    /\ direct = [c \in Clients |-> 0]
    /\ owed = [c \in Clients |-> {}]
    /\ told = [c \in Clients |-> {}]

-----------------------------------------------------------------------------
(* Start, Stop and the thread of m_asioContext *)

Start ==
    /\ context = "new"
    /\ context' = "running"
    /\ UNCHANGED <<accepting, greeting, m_deqConnections, nIDCounter, id, net, current,
                   held, stack, calls, history, told>>

\* stop() and join: the handler that is running is finished first
Stop ==
    /\ context = "running" /\ accepting = NoClient /\ stack = <<>>
    /\ context' = "stopped"
    /\ UNCHANGED <<accepting, greeting, m_deqConnections, nIDCounter, id, net, current,
                   held, stack, calls, history, told>>

\* the innermost call
Top == stack[Len(stack)]

Defined == context # "undefined"
Idle == Defined /\ stack = <<>>
InPhase(phase) == Defined /\ stack # <<>> /\ Top.phase = phase

\* the new connection meets an erase: remove() has run, and erase() has not
Meets(c) == raced' = IF InPhase("erase") THEN raced \cup {c} ELSE raced

\* mutant: the accept handler uses push_front, but still back()
AcceptPushesFront(c) ==
    /\ context = "running" /\ accepting = NoClient
    /\ c \notin known
    /\ accepting' = c
    /\ known' = known \cup {c}
    /\ open' = [open EXCEPT ![c] = TRUE]
    /\ m_deqConnections' = <<c>> \o m_deqConnections
    /\ Meets(c)
    /\ UNCHANGED <<context, greeting, nIDCounter, id, ops, m_qMessagesIn, incoming,
                   current, held, stack, calls, notified, direct, owed, told>>

\* accept handler: OnClientRequestConnect agreed, m_deqConnections.push_back
AcceptClient(c) ==
    /\ context = "running" /\ accepting = NoClient
    /\ c \notin known
    /\ accepting' = c
    /\ known' = known \cup {c}
    /\ open' = [open EXCEPT ![c] = TRUE]
    /\ m_deqConnections' = Append(m_deqConnections, c)
    /\ Meets(c)
    /\ UNCHANGED <<context, greeting, nIDCounter, id, ops, m_qMessagesIn, incoming,
                   current, held, stack, calls, notified, direct, owed, told>>

Back == m_deqConnections[Len(m_deqConnections)]
BackDefined == m_deqConnections # <<>> /\ Back # NoClient

\* m_deqConnections.back()->ConnectToClient(nIDCounter++), which starts to
\* read.  If an erase has put another connection at the back, that one gets
\* a new id and reads once more.
ConnectBack ==
    /\ context = "running" /\ accepting # NoClient /\ ~greeting
    /\ BackDefined
    /\ id' = IF open[Back] THEN [id EXCEPT ![Back] = nIDCounter] ELSE id
    /\ ops' = IF open[Back] THEN [ops EXCEPT ![Back].read = TRUE] ELSE ops
    /\ nIDCounter' = nIDCounter + 1
    /\ greeting' = TRUE
    /\ UNCHANGED <<context, accepting, m_deqConnections, open, m_qMessagesIn, incoming,
                   current, held, stack, calls, history, told>>

\* OnClientConnect(m_deqConnections.back()), in which the application may keep
\* the pointer
ClientConnected(keep) ==
    /\ context = "running" /\ greeting
    /\ BackDefined
    /\ held' = IF keep THEN held \cup {Back} ELSE held
    /\ accepting' = NoClient
    /\ greeting' = FALSE
    /\ UNCHANGED <<context, m_deqConnections, nIDCounter, id, net, current, stack, calls,
                   history, told>>

\* back() of an empty deque, or a null pointer that remove() has left there
BackUndefined ==
    /\ context = "running" /\ accepting # NoClient
    /\ ~BackDefined
    /\ context' = "undefined"
    /\ UNCHANGED <<accepting, greeting, m_deqConnections, nIDCounter, id, net, current,
                   held, stack, calls, history, told>>

\* the handlers of a connection run on the io_context's thread, one at a time
Runs(c) == context = "running" /\ accepting = NoClient /\ ~Destroyed(c)

Others == <<server, current, held, stack, calls, history, told>>

\* a complete message: push_back({shared_from_this(), msg}), ReadHeader().
\* The read may have completed before the socket was closed.
ReadHandler(c) ==
    /\ Runs(c) /\ ops[c].read
    /\ incoming < MaxIncoming
    /\ incoming' = incoming + 1
    /\ m_qMessagesIn' = Append(m_qMessagesIn, c)
    /\ UNCHANGED <<open, ops, Others>>

\* the lambda Send posted
SendHandler(c) ==
    /\ Runs(c) /\ ops[c].send > 0
    /\ ops' = [ops EXCEPT ![c].send = @ - 1, ![c].queue = @ + 1,
                          ![c].write = @ \/ ops[c].queue = 0]
    /\ UNCHANGED <<open, m_qMessagesIn, incoming, Others>>

\* a message is written: pop_front() and WriteHeader() of the next
WriteHandler(c) ==
    /\ Runs(c) /\ ops[c].write
    /\ ops' = [ops EXCEPT ![c].queue = @ - 1, ![c].write = ops[c].queue > 1]
    /\ UNCHANGED <<open, m_qMessagesIn, incoming, Others>>

\* a read or write failed, or was aborted by an earlier close: m_socket.close()
ErrorHandler(c) ==
    /\ Runs(c)
    /\ \/ ops[c].read /\ ops' = [ops EXCEPT ![c].read = FALSE]
       \/ ops[c].write /\ ops' = [ops EXCEPT ![c].write = FALSE]
    /\ open' = [open EXCEPT ![c] = FALSE]
    /\ UNCHANGED <<m_qMessagesIn, incoming, Others>>

Context ==
    \/ \E c \in Clients : AcceptClient(c) \/ ReadHandler(c) \/ SendHandler(c)
                          \/ WriteHandler(c) \/ ErrorHandler(c)
    \/ ConnectBack
    \/ \E keep \in BOOLEAN : ClientConnected(keep)
    \/ BackUndefined

-----------------------------------------------------------------------------
(* The application's thread *)

\* Update: pop_front() and the call of OnMessage ...
TakeMessage ==
    /\ Idle /\ current = NoClient
    /\ m_qMessagesIn # <<>>
    /\ current' = Head(m_qMessagesIn)
    /\ m_qMessagesIn' = Tail(m_qMessagesIn)
    /\ UNCHANGED <<server, open, ops, incoming, held, stack, calls, history, told>>

\* ... which returns, and msg goes out of scope
MessageHandled ==
    /\ Idle /\ current # NoClient
    /\ current' = NoClient
    /\ UNCHANGED <<server, net, held, stack, calls, history, told>>

\* connection::Send
SendTo(c, msg) ==
    /\ ops' = [ops EXCEPT ![c].send = @ + 1]
    /\ told' = [told EXCEPT ![c] = @ \cup ({msg} \ {NoClient})]

\* OnClientDisconnect(c) makes c's farewell
OnClientDisconnect(c) ==
    /\ notified' = [notified EXCEPT ![c] = @ + 1]
    /\ owed' = [d \in Clients |->
                 IF open[d] /\ InSeq(d, m_deqConnections) THEN owed[d] \cup {c} ELSE owed[d]]
    /\ UNCHANGED <<known, raced>>

Kept(deq) == {i \in 1 .. Len(deq) : deq[i] # NoClient}

\* std::remove(..., nullptr): the pointers that are kept move up in their order,
\* and leave null pointers behind.
Removed(deq) ==
    LET nth(n) == CHOOSE i \in Kept(deq) : Cardinality({j \in Kept(deq) : j <= i}) = n
    IN  [n \in 1 .. Len(deq) |->
            IF n <= Cardinality(Kept(deq)) THEN deq[nth(n)] ELSE NoClient]

Pointers == (held \cup {current}) \ {NoClient}

Called ==
    /\ Idle
    /\ calls < MaxCalls
    /\ calls' = calls + 1

\* client.reset() resets the parameter: m_deqConnections keeps its pointer.
\* What follows is like the end of a group's loop, see EndLoop.
MessageClient(c) ==
    /\ Called
    /\ c \in Pointers
    /\ \/ /\ IsConnected(c)
          /\ SendTo(c, NoClient)
          /\ UNCHANGED <<stack, history>>
       \/ /\ ~IsConnected(c)
          /\ OnClientDisconnect(c)
          /\ direct' = [direct EXCEPT ![c] = @ + 1]
          /\ stack' = <<[Frame(<<NoClient>>, Len(m_deqConnections), NoClient, NoClient)
                            EXCEPT !.phase = "remove", !.afterDisconectSend = <<c>>]>>
          /\ UNCHANGED <<ops, told>>
    /\ UNCHANGED <<server, open, m_qMessagesIn, incoming, current, held>>

MessageClientGroup(group) ==
    /\ Called
    /\ stack' = <<Frame(group, Len(group), NoClient, NoClient)>>
    /\ UNCHANGED <<server, net, current, held, history, told>>

MessageAllClients(ignore) ==
    /\ Called
    /\ stack' = <<Frame(<<>>, Len(m_deqConnections), NoClient, ignore)>>
    /\ UNCHANGED <<server, net, current, held, history, told>>

SetTop(frame) == stack' = [stack EXCEPT ![Len(stack)] = frame]
Visited == [Top EXCEPT !.i = @ + 1]
IsGroup(frame) == frame.list # <<>>
Client == IF IsGroup(Top) THEN Top.list[Top.i] ELSE m_deqConnections[Top.i]
Visiting == InPhase("loop") /\ Top.i <= Top.end
Ignored == ~IsGroup(Top) /\ Client = Top.ignore

Outside == <<context, accepting, greeting, nIDCounter, id, open, m_qMessagesIn, incoming,
             current, held, calls>>

\* mutant: the pointer of the ignored client is reset as well
VisitIgnoredResets ==
    /\ Visiting /\ Ignored
    /\ SetTop(Visited)
    /\ m_deqConnections' = [m_deqConnections EXCEPT ![Top.i] = NoClient]
    /\ UNCHANGED <<Outside, ops, history, told>>

VisitIgnored ==
    /\ Visiting /\ Ignored
    /\ SetTop(Visited)
    /\ UNCHANGED <<Outside, m_deqConnections, ops, history, told>>

VisitConnected ==
    /\ Visiting /\ ~Ignored
    /\ IsConnected(Client)
    /\ SendTo(Client, Top.msg)
    /\ SetTop(Visited)
    /\ UNCHANGED <<Outside, m_deqConnections, history>>

\* mutant: the loop is over copies of the pointers (auto instead of auto&)
VisitCopy ==
    /\ Visiting /\ ~Ignored
    /\ ~IsConnected(Client)
    /\ OnClientDisconnect(Client)
    /\ SetTop([Visited EXCEPT !.afterDisconectSend = Append(@, Client)])
    /\ direct' = IF IsGroup(Top) THEN [direct EXCEPT ![Client] = @ + 1] ELSE direct
    /\ UNCHANGED <<Outside, m_deqConnections, ops, told>>

\* OnClientDisconnect(client) and client.reset(), where client is a reference
\* into the group's vector or into m_deqConnections
VisitDisconnected ==
    /\ Visiting /\ ~Ignored
    /\ ~IsConnected(Client)
    /\ OnClientDisconnect(Client)
    /\ LET after == [Visited EXCEPT !.afterDisconectSend = Append(@, Client)] IN
        \/ /\ IsGroup(Top)
           /\ SetTop([after EXCEPT !.list[Top.i] = NoClient])
           /\ direct' = [direct EXCEPT ![Client] = @ + 1]
           /\ UNCHANGED m_deqConnections
        \/ /\ ~IsGroup(Top)
           /\ SetTop(after)
           /\ m_deqConnections' = [m_deqConnections EXCEPT ![Top.i] = NoClient]
           /\ UNCHANGED direct
    /\ UNCHANGED <<Outside, ops, told>>

\* if (bInvalidClientExists) the reset pointers are erased.  The compiler may
\* evaluate the second argument of erase(), end(), before the first.
EndLoop ==
    /\ InPhase("loop") /\ Top.i > Top.end
    /\ SetTop(IF Top.afterDisconectSend = <<>> THEN [Top EXCEPT !.phase = "farewell"]
              ELSE [Top EXCEPT !.phase = "remove", !.end = Len(m_deqConnections)])
    /\ UNCHANGED <<Outside, m_deqConnections, ops, history, told>>

\* std::remove(begin(), end(), nullptr)
Remove ==
    /\ InPhase("remove")
    /\ SetTop([Top EXCEPT !.phase = "erase",
                          !.i = Cardinality(Kept(m_deqConnections)) + 1,
                          !.end = Len(m_deqConnections)])
    /\ m_deqConnections' = Removed(m_deqConnections)
    /\ raced' = raced \cup ({accepting} \ {NoClient})
    /\ UNCHANGED <<Outside, ops, known, notified, direct, owed, told>>

\* m_deqConnections.erase(.., end()): what was pushed since remove() is before
\* that end(), or behind it
Erase ==
    /\ InPhase("erase")
    /\ \E end \in Top.end .. Len(m_deqConnections) :
           m_deqConnections' = SubSeq(m_deqConnections, 1, Top.i - 1)
                               \o SubSeq(m_deqConnections, end + 1, Len(m_deqConnections))
    /\ SetTop([Top EXCEPT !.phase = "farewell"])
    /\ UNCHANGED <<Outside, ops, history, told>>

\* end() came first, and a push_back before remove(): erase() ends before the
\* last of the positions that are left over, or even before the first
EraseUndefined ==
    /\ InPhase("remove") /\ Top.end < Len(m_deqConnections)
    /\ context' = "undefined"
    /\ UNCHANGED <<accepting, greeting, m_deqConnections, nIDCounter, id, net, current,
                   held, stack, calls, history, told>>

\* mutant: only the last farewell is broadcast
FarewellLastOnly ==
    /\ InPhase("farewell") /\ Top.afterDisconectSend # <<>>
    /\ stack' = [stack EXCEPT ![Len(stack)].afterDisconectSend = <<>>]
                \o <<Frame(<<>>, Len(m_deqConnections),
                          Top.afterDisconectSend[Len(Top.afterDisconectSend)], NoClient)>>
    /\ UNCHANGED <<Outside, m_deqConnections, ops, history, told>>

\* for (msg : afterDisconectSend) MessageAllClients(msg)
Farewell ==
    /\ InPhase("farewell") /\ Top.afterDisconectSend # <<>>
    /\ stack' = [stack EXCEPT ![Len(stack)].afterDisconectSend = Tail(@)]
                \o <<Frame(<<>>, Len(m_deqConnections), Head(Top.afterDisconectSend), NoClient)>>
    /\ UNCHANGED <<Outside, m_deqConnections, ops, history, told>>

Return ==
    /\ InPhase("farewell") /\ Top.afterDisconectSend = <<>>
    /\ stack' = SubSeq(stack, 1, Len(stack) - 1)
    /\ UNCHANGED <<Outside, m_deqConnections, ops, history, told>>

Application ==
    \/ Start
    \/ Stop
    \/ TakeMessage
    \/ MessageHandled
    \/ \E c \in Clients : MessageClient(c)
    \/ \E c \in Pointers, d \in Pointers : MessageClientGroup(<<c, d>>)
    \/ \E ignore \in Pointers \cup {NoClient} : MessageAllClients(ignore)
    \/ VisitIgnored
    \/ VisitConnected
    \/ VisitDisconnected
    \/ EndLoop
    \/ Remove
    \/ Erase
    \/ EraseUndefined
    \/ Farewell
    \/ Return

Next == Context \/ Application

Spec == Init /\ [][Next]_vars

-----------------------------------------------------------------------------
(* Properties *)

\* The accept handler reaches its new connection as m_deqConnections.back(),
\* for ConnectToClient and again for OnClientConnect: nothing the
\* application's thread does to the deque after the push_back may put another
\* connection there, unless the accept handler meets an erase.
BackIsNew ==
    accepting # NoClient /\ accepting \notin raced => BackDefined /\ Back = accepting

\* A client whose socket is open is never dropped from m_deqConnections, unless
\* its accept handler met an erase, although IsConnected() is asked while the
\* other thread may close it; and the ids that ConnectToClient hands out
\* identify the kept connections, in the order in which they were accepted,
\* even if an erase has made it use the wrong one.
ConnectedIsKept ==
    /\ \A c \in known \ raced : open[c] => InSeq(c, m_deqConnections)
    /\ \A i, j \in DOMAIN m_deqConnections :
           LET c == m_deqConnections[i]  d == m_deqConnections[j] IN
           i < j /\ c # NoClient /\ d # NoClient /\ id[d] # 0 => id[c] < id[d]

\* OnClientDisconnect is called before a client is dropped, unless its accept
\* handler met an erase, and at most once by the broadcasts.  It is called
\* again for a client that MessageClient or MessageClientGroup found
\* disconnected: they reset their own copy of the pointer only.
NotifiedOnce ==
    \A c \in Clients :
        /\ c \in known \ raced /\ ~InSeq(c, m_deqConnections) => notified[c] > direct[c]
        /\ notified[c] <= direct[c] + 1

\* Between two calls, a client that was kept and connected when another one
\* was found disconnected has been sent that one's farewell, however many
\* disconnects the recursion of MessageAllClients came across.
FarewellsSent ==
    stack = <<>> => \A d \in known : open[d] => owed[d] \subseteq told[d]

\* MessageAllClients calls itself.  Its recursion ends because a call erases
\* the clients it found disconnected before it broadcasts their farewells: a
\* group's call, the broadcast of a farewell, and one more for each client
\* that has been dropped.
RecursionBounded ==
    Len(stack) <= Cardinality({c \in known : ~InSeq(c, m_deqConnections)}) + 2

\* asio::async_write: the memory of the buffers (the connection's
\* m_qMessagesOut) must stay valid until the handler is called.
BuffersOutliveHandlers == \A c \in Clients : Destroyed(c) => ~ops[c].write
=============================================================================
