----------------------------- MODULE Connection -----------------------------
(***************************************************************************)
(* Netzwerk::connection (src/Netzwerk/Connection.h): the two ends of one   *)
(* TCP connection, the client's end of client_interface and the server's   *)
(* end that server_interface made when it accepted.                        *)
(*                                                                         *)
(* Each end has an io_context run by one thread, so a posted lambda or a   *)
(* completion handler is one step.  Between those steps the application    *)
(* threads call Send and Disconnect, and asio and the network (external)   *)
(* complete the outstanding operations, with or without an error.          *)
(*                                                                         *)
(* A message is its number among the messages of its sender, the size that *)
(* its header announces and the length of its body: the writer goes by the *)
(* length, the reader by the size.  The content of a body is the number of *)
(* the message it belongs to, 0 for an empty body.  A header and a body    *)
(* each travel as one frame: async_read and async_write complete when the  *)
(* whole buffer is transferred, and a frame cut off by an error is never   *)
(* read.  A reader that meets a body where it expects a header takes its   *)
(* bytes for one, and has lost the frames from then on.                    *)
(***************************************************************************)
EXTENDS Naturals, Sequences

CONSTANTS
    Sizes,          \* sizes of a body
    MaxSend,        \* bound: messages sent in a behaviour, by both ends together,
                    \* and delivered at an end that has lost the frames
    MaxClose        \* bound: calls of Disconnect in a behaviour

Ends == {"client", "server"}

Peer(e) == IF e = "client" THEN "server" ELSE "client"

ASSUME SizesAssumption == Sizes \subseteq Nat /\ 0 \in Sizes
ASSUME BoundAssumption == MaxSend \in Nat /\ MaxClose \in Nat

VARIABLES
    connecting,     \* the client's async_connect, see ConnectStates
    accepted,       \* what the server did with the connection
    open,           \* m_socket.is_open() of each end
    posts,          \* lambdas given to asio::post and not yet run
    m_qMessagesOut, \* messages being written or waiting for it
    writing,        \* the outstanding async_write
    reading,        \* the outstanding async_read
    m_msgTemporaryIn, \* the message being read
    stream,         \* every frame the end ever put on the wire
    got,            \* how many frames of its peer's stream the end has read
    lost,           \* the end took a body for a header: it reads across frames
    sent,           \* history: messages given to Send
    queued,         \* history: how many of them were queued for writing
    closes,         \* history: calls of Disconnect
    delivered,      \* messages pushed to m_qMessagesIn
    overlap         \* history: an async operation was started on a socket with
                    \* an outstanding operation in the same direction

setup == <<connecting, accepted>>
application == <<sent, closes>>
vars == <<connecting, accepted, open, posts, m_qMessagesOut, writing, reading,
          m_msgTemporaryIn, stream, got, lost, sent, queued, closes, delivered,
          overlap>>

\* ok, error: completed, the handler has still to run; up, down: it ran
ConnectStates == {"none", "pending", "ok", "error", "up", "down"}
Established == connecting \in {"ok", "up"}

Parts == {"header", "body"}
Message == [n : Nat \ {0}, size : Nat, length : Nat]
Frame == [part : Parts, n : Nat \ {0}, size : Nat, length : Nat]

\* An asynchronous operation: what it transfers and how far it is.  Its
\* handler runs when the status is "ok" or "error".
Status == {"idle", "pending", "ok", "error"}
Write == [part : Parts, n : Nat, size : Nat, length : Nat, status : Status]
Read == [part : Parts, status : Status]
IdleWrite == [part |-> "header", n |-> 0, size |-> 0, length |-> 0, status |-> "idle"]
IdleRead == [part |-> "header", status |-> "idle"]

\* In a lambda for m_socket.close(), n is the number of messages sent before.
Post == [op : {"send", "close"}, n : Nat, size : Nat, length : Nat]

EmptyMessage == [head |-> [n |-> 0, size |-> 0], body |-> 0]

Init ==
    /\ connecting = "none"
    /\ accepted = "none"
    /\ open = [e \in Ends |-> FALSE]
    /\ posts = [e \in Ends |-> <<>>]
    /\ m_qMessagesOut = [e \in Ends |-> <<>>]
    /\ writing = [e \in Ends |-> IdleWrite]
    /\ reading = [e \in Ends |-> IdleRead]
    /\ m_msgTemporaryIn = [e \in Ends |-> EmptyMessage]
    /\ stream = [e \in Ends |-> <<>>]
    /\ got = [e \in Ends |-> 0]
    /\ lost = [e \in Ends |-> FALSE]
    /\ sent = [e \in Ends |-> <<>>]
    /\ queued = [e \in Ends |-> 0]
    /\ closes = 0
    /\ delivered = [e \in Ends |-> <<>>]
    /\ overlap = FALSE

-----------------------------------------------------------------------------
(* Starting operations.  On a closed socket an operation fails at once.     *)

Started(e) == IF open[e] THEN "pending" ELSE "error"

\* asio::async_write of a part of the front of the queue
StartWrite(e, part, front) ==
    writing' = [writing EXCEPT ![e] = [part |-> part, n |-> front.n,
                                       size |-> front.size, length |-> front.length,
                                       status |-> Started(e)]]

NoWrite(e) == writing' = [writing EXCEPT ![e] = IdleWrite]

StartRead(e, part) ==
    reading' = [reading EXCEPT ![e] = [part |-> part, status |-> Started(e)]]

\* m_socket.close(): the outstanding operations complete with
\* operation_aborted.  w and r are the end's operations after the step.
Aborted(op) == IF op.status = "pending" THEN [op EXCEPT !.status = "error"] ELSE op

Close(e, w, r) ==
    /\ open' = [open EXCEPT ![e] = FALSE]
    /\ writing' = [writing EXCEPT ![e] = Aborted(w)]
    /\ reading' = [reading EXCEPT ![e] = Aborted(r)]
    /\ connecting' = IF e = "client" /\ connecting = "pending" THEN "error" ELSE connecting

-----------------------------------------------------------------------------
(* ConnectToServer and ConnectToClient *)

\* asio::async_connect opens the socket before it returns
ConnectToServer ==
    /\ connecting = "none"
    /\ connecting' = "pending"
    /\ open' = [open EXCEPT !["client"] = TRUE]
    /\ UNCHANGED <<accepted, posts, m_qMessagesOut, writing, reading, m_msgTemporaryIn,
                   stream, got, lost, application, queued, delivered, overlap>>

\* the network (external): the connection is established or refused
ConnectComplete ==
    /\ connecting = "pending"
    /\ connecting' \in {"ok", "error"}
    /\ UNCHANGED <<accepted, open, posts, m_qMessagesOut, writing, reading,
                   m_msgTemporaryIn, stream, got, lost, application, queued, delivered, overlap>>

\* The handler of async_connect.  An error is ignored and leaves the socket
\* open; a socket closed in the meantime counts as an error.
ConnectHandler ==
    /\ connecting \in {"ok", "error"}
    /\ connecting' = IF connecting = "ok" THEN "up" ELSE "down"
    /\ \/ /\ connecting = "ok" /\ open["client"]
          /\ StartRead("client", "header")
          /\ overlap' = (overlap \/ reading["client"].status # "idle")
       \/ /\ connecting = "error" \/ ~open["client"]
          /\ UNCHANGED <<reading, overlap>>
    /\ UNCHANGED <<accepted, open, posts, m_qMessagesOut, writing, m_msgTemporaryIn,
                   stream, got, lost, application, queued, delivered>>

\* mutant: ConnectToClient calls AddToIncomingMessageQueue instead of ReadHeader
AcceptDelivers ==
    /\ Established /\ accepted = "none"
    /\ accepted' = "accepted"
    /\ open' = [open EXCEPT !["server"] = TRUE]
    /\ reading' = [reading EXCEPT !["server"] = [part |-> "header", status |-> "pending"]]
    /\ delivered' = [delivered EXCEPT !["server"] = Append(@, m_msgTemporaryIn["server"])]
    /\ UNCHANGED <<connecting, posts, m_qMessagesOut, writing, m_msgTemporaryIn,
                   stream, got, lost, application, queued, overlap>>

\* server_interface's accept handler: OnClientRequestConnect agrees and
\* ConnectToClient starts to read ...
Accept ==
    /\ Established /\ accepted = "none"
    /\ accepted' = "accepted"
    /\ open' = [open EXCEPT !["server"] = TRUE]
    /\ reading' = [reading EXCEPT !["server"] = [part |-> "header", status |-> "pending"]]
    /\ overlap' = (overlap \/ reading["server"].status # "idle")
    /\ UNCHANGED <<connecting, posts, m_qMessagesOut, writing, m_msgTemporaryIn,
                   stream, got, lost, application, queued, delivered>>

\* ... or it refuses, and the new connection's socket is closed with it
Reject ==
    /\ Established /\ accepted = "none"
    /\ accepted' = "rejected"
    /\ UNCHANGED <<connecting, open, posts, m_qMessagesOut, writing, reading,
                   m_msgTemporaryIn, stream, got, lost, application, queued, delivered, overlap>>

-----------------------------------------------------------------------------
(* Send and Disconnect, called by application threads *)

\* A message made with << has the size of its body.  One that an end received
\* without a body is delivered with the body of the message before it (see
\* ReadHeaderHandler): passed on to Send, it has a body that its header does not
\* announce.  A server has such messages from any of its connections, a client
\* from an earlier one.
Announced == {[size |-> length, length |-> length] : length \in Sizes}
PassedOn == {[size |-> 0, length |-> length] : length \in Sizes}

\* Both interfaces call Send only when IsConnected(); the message is copied
\* into the posted lambda.
Send(e, msg) ==
    /\ open[e]
    /\ Len(sent["client"]) + Len(sent["server"]) < MaxSend
    /\ LET n == Len(sent[e]) + 1 IN
        /\ sent' = [sent EXCEPT ![e] =
                Append(@, [n |-> n, size |-> msg.size, length |-> msg.length])]
        /\ posts' = [posts EXCEPT ![e] =
                Append(@, [op |-> "send", n |-> n, size |-> msg.size,
                           length |-> msg.length])]
    /\ UNCHANGED <<setup, open, m_qMessagesOut, writing, reading, m_msgTemporaryIn,
                   stream, got, lost, queued, closes, delivered, overlap>>

Disconnect(e) ==
    /\ open[e]
    /\ closes < MaxClose
    /\ closes' = closes + 1
    /\ posts' = [posts EXCEPT ![e] =
                    Append(@, [op |-> "close", n |-> Len(sent[e]), size |-> 0, length |-> 0])]
    /\ UNCHANGED <<setup, open, m_qMessagesOut, writing, reading, m_msgTemporaryIn,
                   stream, got, lost, sent, queued, delivered, overlap>>

\* the lambda Send posted, run by the io_context's thread
QueueAndWrite(e, startIf) ==
    /\ posts[e] # <<>> /\ Head(posts[e]).op = "send"
    /\ LET post == Head(posts[e])
           msg == [n |-> post.n, size |-> post.size, length |-> post.length]
           queue == Append(m_qMessagesOut[e], msg)
       IN  /\ m_qMessagesOut' = [m_qMessagesOut EXCEPT ![e] = queue]
           /\ queued' = [queued EXCEPT ![e] = @ + 1]
           /\ \/ /\ startIf
                 /\ StartWrite(e, "header", Head(queue))
                 /\ overlap' = (overlap \/ writing[e].status # "idle")
              \/ /\ ~startIf
                 /\ UNCHANGED <<writing, overlap>>
    /\ posts' = [posts EXCEPT ![e] = Tail(@)]
    /\ UNCHANGED <<setup, open, reading, m_msgTemporaryIn, stream, got, lost, application, delivered>>

\* mutant: every Send starts a write
SendAlwaysWrites(e) == QueueAndWrite(e, TRUE)

SendHandler(e) == QueueAndWrite(e, m_qMessagesOut[e] = <<>>)

\* the lambda Disconnect posted
CloseHandler(e) ==
    /\ posts[e] # <<>> /\ Head(posts[e]).op = "close"
    /\ Close(e, writing[e], reading[e])
    /\ posts' = [posts EXCEPT ![e] = Tail(@)]
    /\ UNCHANGED <<accepted, m_qMessagesOut, m_msgTemporaryIn, stream, got, lost,
                   application, queued, delivered, overlap>>

-----------------------------------------------------------------------------
(* WriteHeader and WriteBody *)

\* asio (external): the whole buffer is on its way to the peer ...
WriteComplete(e) ==
    /\ writing[e].status = "pending" /\ Established
    /\ stream' = [stream EXCEPT ![e] =
            Append(@, [part |-> writing[e].part, n |-> writing[e].n,
                       size |-> writing[e].size, length |-> writing[e].length])]
    /\ writing' = [writing EXCEPT ![e].status = "ok"]
    /\ UNCHANGED <<setup, open, posts, m_qMessagesOut, reading, m_msgTemporaryIn, got, lost,
                   application, queued, delivered, overlap>>

\* ... or it is not
WriteError(e) ==
    /\ writing[e].status = "pending"
    /\ writing' = [writing EXCEPT ![e].status = "error"]
    /\ UNCHANGED <<setup, open, posts, m_qMessagesOut, reading, m_msgTemporaryIn, stream,
                   got, lost, application, queued, delivered, overlap>>

\* pop_front() of the written message and WriteHeader() of the next
PopAndWriteNext(e) ==
    LET rest == Tail(m_qMessagesOut[e]) IN
    /\ m_qMessagesOut' = [m_qMessagesOut EXCEPT ![e] = rest]
    /\ IF rest # <<>> THEN StartWrite(e, "header", Head(rest)) ELSE NoWrite(e)

\* mutant: the message is popped before its body is written
HeaderHandlerPopsFirst(e) ==
    /\ writing[e].status = "ok" /\ writing[e].part = "header"
    /\ \/ /\ Head(m_qMessagesOut[e]).length > 0
          /\ StartWrite(e, "body", Head(m_qMessagesOut[e]))
          /\ m_qMessagesOut' = [m_qMessagesOut EXCEPT ![e] = Tail(@)]
       \/ /\ Head(m_qMessagesOut[e]).length = 0
          /\ PopAndWriteNext(e)
    /\ UNCHANGED <<setup, open, posts, reading, m_msgTemporaryIn, stream, got, lost,
                   application, queued, delivered, overlap>>

\* mutant: no body is written
HeaderHandlerSkipsBody(e) ==
    /\ writing[e].status = "ok" /\ writing[e].part = "header"
    /\ PopAndWriteNext(e)
    /\ UNCHANGED <<setup, open, posts, reading, m_msgTemporaryIn, stream, got, lost,
                   application, queued, delivered, overlap>>

WriteHeaderHandler(e) ==
    /\ writing[e].status = "ok" /\ writing[e].part = "header"
    /\ \/ /\ Head(m_qMessagesOut[e]).length > 0
          /\ StartWrite(e, "body", Head(m_qMessagesOut[e]))
          /\ UNCHANGED m_qMessagesOut
       \/ /\ Head(m_qMessagesOut[e]).length = 0
          /\ PopAndWriteNext(e)
    /\ UNCHANGED <<setup, open, posts, reading, m_msgTemporaryIn, stream, got, lost,
                   application, queued, delivered, overlap>>

WriteBodyHandler(e) ==
    /\ writing[e].status = "ok" /\ writing[e].part = "body"
    /\ PopAndWriteNext(e)
    /\ UNCHANGED <<setup, open, posts, reading, m_msgTemporaryIn, stream, got, lost,
                   application, queued, delivered, overlap>>

\* mutant: a failed write is only logged
WriteErrorIgnored(e) ==
    /\ writing[e].status = "error"
    /\ NoWrite(e)
    /\ UNCHANGED <<accepted, connecting, open, reading, posts, m_qMessagesOut, m_msgTemporaryIn,
                   stream, got, lost, application, queued, delivered, overlap>>

\* The failed message stays at the front of m_qMessagesOut, so no later Send
\* starts a write.
WriteErrorHandler(e) ==
    /\ writing[e].status = "error"
    /\ Close(e, IdleWrite, reading[e])
    /\ UNCHANGED <<accepted, posts, m_qMessagesOut, m_msgTemporaryIn, stream, got, lost,
                   application, queued, delivered, overlap>>

-----------------------------------------------------------------------------
(* ReadHeader, ReadBody and AddToIncomingMessageQueue *)

PeerGone(e) ==
    IF e = "server" THEN ~open["client"]
                    ELSE accepted # "none" /\ ~open["server"]

\* The next frame that the end has not read is the other part of a message.
AtOther(e) ==
    /\ got[e] < Len(stream[Peer(e)])
    /\ stream[Peer(e)][got[e] + 1].part # reading[e].part

\* asio (external): the next frame of the peer fills the buffer ...
ReadComplete(e) ==
    /\ reading[e].status = "pending" /\ ~lost[e]
    /\ got[e] < Len(stream[Peer(e)]) /\ ~AtOther(e)
    /\ LET frame == stream[Peer(e)][got[e] + 1] IN
        m_msgTemporaryIn' = [m_msgTemporaryIn EXCEPT ![e] =
            IF reading[e].part = "header"
            THEN [@ EXCEPT !.head = [n |-> frame.n, size |-> frame.size]]
            ELSE [@ EXCEPT !.body = frame.n]]
    /\ got' = [got EXCEPT ![e] = @ + 1]
    /\ reading' = [reading EXCEPT ![e].status = "ok"]
    /\ UNCHANGED <<setup, open, posts, m_qMessagesOut, writing, stream, lost, application,
                   queued, delivered, overlap>>

\* ... or bytes of one part are taken for the other.  The header that they make
\* up is of no message, number 0, and announces any size, here one of Sizes; the
\* bytes may last for several reads, or not for one: then the read waits.
Misread(e) ==
    /\ reading[e].status = "pending"
    /\ lost[e] \/ AtOther(e)
    /\ Len(delivered[e]) < MaxSend
    /\ lost' = [lost EXCEPT ![e] = TRUE]
    /\ reading' = [reading EXCEPT ![e].status = "ok"]
    /\ IF reading[e].part = "header"
       THEN \E size \in Sizes : m_msgTemporaryIn' =
                [m_msgTemporaryIn EXCEPT ![e].head = [n |-> 0, size |-> size]]
       ELSE m_msgTemporaryIn' = [m_msgTemporaryIn EXCEPT ![e].body = 0]
    /\ UNCHANGED <<setup, open, posts, m_qMessagesOut, writing, stream, got, application,
                   queued, delivered, overlap>>

\* ... or the peer closed, or the network failed
ReadError(e) ==
    /\ reading[e].status = "pending"
    /\ reading' = [reading EXCEPT ![e].status = "error"]
    /\ UNCHANGED <<setup, open, posts, m_qMessagesOut, writing, m_msgTemporaryIn, stream,
                   got, lost, application, queued, delivered, overlap>>

\* push_back of a copy of m_msgTemporaryIn, then ReadHeader() again
AddToIncomingMessageQueue(e) ==
    /\ delivered' = [delivered EXCEPT ![e] = Append(@, m_msgTemporaryIn[e])]
    /\ StartRead(e, "header")

\* mutant: the message is delivered without waiting for its body
HeaderHandlerSkipsReadBody(e) ==
    /\ reading[e].status = "ok" /\ reading[e].part = "header"
    /\ AddToIncomingMessageQueue(e)
    /\ UNCHANGED <<setup, open, posts, m_qMessagesOut, writing, m_msgTemporaryIn, stream,
                   got, lost, application, queued, overlap>>

\* A body of the announced size is read into the resized buffer.  Without a
\* body the buffer is delivered as the previous message left it.
ReadHeaderHandler(e) ==
    /\ reading[e].status = "ok" /\ reading[e].part = "header"
    /\ \/ /\ m_msgTemporaryIn[e].head.size > 0
          /\ StartRead(e, "body")
          /\ UNCHANGED delivered
       \/ /\ m_msgTemporaryIn[e].head.size = 0
          /\ AddToIncomingMessageQueue(e)
    /\ UNCHANGED <<setup, open, posts, m_qMessagesOut, writing, m_msgTemporaryIn, stream,
                   got, lost, application, queued, overlap>>

ReadBodyHandler(e) ==
    /\ reading[e].status = "ok" /\ reading[e].part = "body"
    /\ AddToIncomingMessageQueue(e)
    /\ UNCHANGED <<setup, open, posts, m_qMessagesOut, writing, m_msgTemporaryIn, stream,
                   got, lost, application, queued, overlap>>

\* mutant: a failed read is only logged
ReadErrorIgnored(e) ==
    /\ reading[e].status = "error"
    /\ reading' = [reading EXCEPT ![e] = IdleRead]
    /\ UNCHANGED <<accepted, connecting, open, writing, posts, m_qMessagesOut, m_msgTemporaryIn,
                   stream, got, lost, application, queued, delivered, overlap>>

ReadErrorHandler(e) ==
    /\ reading[e].status = "error"
    /\ Close(e, writing[e], IdleRead)
    /\ UNCHANGED <<accepted, posts, m_qMessagesOut, m_msgTemporaryIn, stream, got, lost,
                   application, queued, delivered, overlap>>

-----------------------------------------------------------------------------
\* what the io_context's thread of an end runs
Handler(e) ==
    \/ SendHandler(e)
    \/ CloseHandler(e)
    \/ WriteHeaderHandler(e)
    \/ WriteBodyHandler(e)
    \/ WriteErrorHandler(e)
    \/ ReadHeaderHandler(e)
    \/ ReadBodyHandler(e)
    \/ ReadErrorHandler(e)

\* asio and the network
External(e) ==
    \/ WriteComplete(e)
    \/ WriteError(e)
    \/ ReadComplete(e)
    \/ Misread(e)
    \/ ReadError(e)

Application(e) == Disconnect(e) \/ \E msg \in Announced \cup PassedOn : Send(e, msg)

Next ==
    \/ ConnectToServer
    \/ ConnectComplete
    \/ ConnectHandler
    \/ Accept
    \/ Reject
    \/ \E e \in Ends : Handler(e) \/ External(e) \/ Application(e)

\* Both io_context threads keep running and the server keeps accepting; asio
\* completes every operation that can complete, and a read from a peer that
\* closed its socket is told so.  The network need not fail, and bytes that are
\* not the frame that is awaited need not fill a buffer.
Fairness ==
    /\ WF_vars(ConnectComplete)
    /\ WF_vars(ConnectHandler)
    /\ WF_vars(Accept \/ Reject)
    /\ \A e \in Ends :
        /\ WF_vars(SendHandler(e) \/ CloseHandler(e))
        /\ WF_vars(WriteComplete(e) \/ WriteError(e))
        /\ WF_vars(WriteHeaderHandler(e) \/ WriteBodyHandler(e) \/ WriteErrorHandler(e))
        /\ WF_vars(ReadComplete(e))
        /\ WF_vars(PeerGone(e) /\ ReadError(e))
        /\ WF_vars(ReadHeaderHandler(e) \/ ReadBodyHandler(e) \/ ReadErrorHandler(e))

Spec == Init /\ [][Next]_vars

FairSpec == Spec /\ Fairness

-----------------------------------------------------------------------------
(* Properties *)

Types ==
    /\ connecting \in ConnectStates
    /\ accepted \in {"none", "accepted", "rejected"}
    /\ open \in [Ends -> BOOLEAN]
    /\ posts \in [Ends -> Seq(Post)]
    /\ m_qMessagesOut \in [Ends -> Seq(Message)]
    /\ writing \in [Ends -> Write]
    /\ reading \in [Ends -> Read]
    /\ m_msgTemporaryIn \in [Ends -> [head : [n : Nat, size : Nat], body : Nat]]
    /\ stream \in [Ends -> Seq(Frame)]
    /\ got \in [Ends -> Nat]
    /\ lost \in [Ends -> BOOLEAN]
    /\ sent \in [Ends -> Seq(Message)]
    /\ queued \in [Ends -> Nat]
    /\ closes \in Nat
    /\ delivered \in [Ends -> Seq([head : [n : Nat, size : Nat], body : Nat])]
    /\ overlap \in BOOLEAN

\* Every variable of both ends holds what the code can put there; what is
\* delivered is one of the peer's messages, never the initial m_msgTemporaryIn of
\* an end that has read nothing, as long as the frames are not lost.
TypeOK ==
    /\ Types
    /\ \A e \in Ends : ~lost[e] =>
           \A i \in 1 .. Len(delivered[e]) : delivered[e][i].head.n \in Nat \ {0}

\* async_write and async_read are composed operations: asio requires that no
\* other write (read) is started on the stream until the first completes.
\* The test of m_qMessagesOut.empty() in Send has to guarantee it.
NoOverlap == ~overlap

\* The buffer of an outstanding async_write is a part of the front of
\* m_qMessagesOut: that message must stay there until the handler has run,
\* also when the socket is closed meanwhile.
BufferIsFront ==
    \A e \in Ends : writing[e].status # "idle" =>
        m_qMessagesOut[e] # <<>> /\ Head(m_qMessagesOut[e]).n = writing[e].n

\* Which body a delivered message carries: its own if its size is positive,
\* otherwise the one the message before it left in m_msgTemporaryIn.
BodyOwnOrStale ==
    \A e \in Ends : \A i \in 1 .. Len(delivered[e]) :
        delivered[e][i].body =
            IF delivered[e][i].head.size > 0 THEN delivered[e][i].head.n
            ELSE IF i = 1 THEN 0 ELSE delivered[e][i - 1].body

\* Each end receives a prefix of what the other sent, in order and once, and
\* the bodies belong to the headers, up to the first message with a body that
\* its header does not announce: the two ends implement Channel.
\* connection::Send, WriteHeader, WriteBody, ReadHeader, ReadBody
Pair == INSTANCE Channel
IsChannel == Pair!Spec

\* One of the two sockets was closed, or the server did not take the client.
Broken == (connecting # "none" /\ ~open["client"]) \/ PeerGone("client")

\* Message n can be found among the frames: the messages before it are written
\* as their headers announce.
Found(e, n) ==
    /\ Len(sent[e]) >= n
    /\ \A m \in 1 .. n - 1 : sent[e][m].size = sent[e][m].length

\* A message given to Send is delivered to the peer's m_qMessagesIn unless
\* the connection breaks, or the peer has lost the frames; no message is
\* forgotten in m_qMessagesOut.
SentIsDelivered ==
    \A e \in Ends : \A n \in 1 .. MaxSend :
        Found(e, n) ~> Len(delivered[Peer(e)]) >= n \/ Broken

\* When one end closes its socket, or the server refuses the client, the other
\* end notices and closes its own.
CloseSpreads ==
    /\ accepted # "none" /\ ~open["server"] ~> ~open["client"]
    /\ accepted = "accepted" /\ ~open["client"] ~> ~open["server"]
=============================================================================
