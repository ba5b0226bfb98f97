-------------------------- MODULE ConnectionProofs --------------------------
(***************************************************************************)
(* Proofs about Connection for every set of sizes and all bounds.  The     *)
(* inductive invariant follows a message from Send to m_qMessagesIn of the *)
(* peer: the lambdas posted, the queue, the write in progress, the frames  *)
(* on the wire and the read in progress hold consecutive messages.         *)
(***************************************************************************)
EXTENDS Connection, SequenceTheorems, TLAPS

\* For its writer, the first `len` frames of a stream are complete messages,
\* `count` of them: the writer goes by the length of the body ...
AtBoundary(frames, len, count) ==
    IF len = 0 THEN count = 0
    ELSE frames[len].n = count /\ (frames[len].part = "body" \/ frames[len].length = 0)

\* ... and for its reader, which goes by the announced size.
Consumed(frames, len, count) ==
    IF len = 0 THEN count = 0
    ELSE frames[len].n = count /\ (frames[len].part = "body" \/ frames[len].size = 0)

\* A frame starts with the header of message n.
IsHeader(frame, n) == frame.part = "header" /\ frame.n = n

\* What follows a frame: the body of its message, or the next header.
Follows(f, g) ==
    IF f.part = "header" /\ f.length > 0 THEN g.part = "body" /\ g.n = f.n
    ELSE IsHeader(g, f.n + 1)

\* An operation on a part of a message that is that far.
Doing(op, part, status) == op.status = status /\ op.part = part

\* The size and the length of a message, whoever holds it.
Carries(x, msg) == x.size = msg.size /\ x.length = msg.length

\* Messages are numbered in the order of Send, and a size that is announced is
\* that of the body.
SentInv(e) ==
    \A i \in 1 .. Len(sent[e]) :
        /\ sent[e][i].n = i
        /\ sent[e][i].size \in Sizes
        /\ sent[e][i].size > 0 => sent[e][i].size = sent[e][i].length

Sending(post) == IF post.op = "send" THEN 1 ELSE 0

\* The posted lambdas carry the messages that were sent and not yet queued.
PostsInv(e) ==
    /\ queued[e] <= Len(sent[e])
    /\ posts[e] = <<>> => queued[e] = Len(sent[e])
    /\ posts[e] # <<>> =>
        /\ posts[e][1].n = queued[e] + Sending(posts[e][1])
        /\ posts[e][Len(posts[e])].n = Len(sent[e])
    /\ \A i \in 1 .. Len(posts[e]) - 1 :
        posts[e][i + 1].n = posts[e][i].n + Sending(posts[e][i + 1])
    /\ \A i \in 1 .. Len(posts[e]) : posts[e][i].op = "send" =>
        /\ posts[e][i].n \in 1 .. Len(sent[e])
        /\ Carries(posts[e][i], sent[e][posts[e][i].n])

\* m_qMessagesOut holds the last messages that were queued.
QueueInv(e) ==
    /\ Len(m_qMessagesOut[e]) <= queued[e]
    /\ \A i \in 1 .. Len(m_qMessagesOut[e]) :
        m_qMessagesOut[e][i] = sent[e][queued[e] - Len(m_qMessagesOut[e]) + i]

\* The frames on the wire are header, body, header, ... of consecutive messages.
StreamInv(e) ==
    /\ \A i \in 1 .. Len(stream[e]) :
        /\ stream[e][i].n \in 1 .. Len(sent[e])
        /\ Carries(stream[e][i], sent[e][stream[e][i].n])
        /\ stream[e][i].part = "body" => stream[e][i].length > 0
    /\ stream[e] # <<>> => IsHeader(stream[e][1], 1)
    /\ \A i \in 1 .. Len(stream[e]) - 1 : Follows(stream[e][i], stream[e][i + 1])

\* The outstanding write is of the front of the queue and continues the
\* stream.  After an error the queue is never empty again.
WriteInv(e) ==
    /\ writing[e].status = "idle" /\ m_qMessagesOut[e] = <<>> =>
        AtBoundary(stream[e], Len(stream[e]), queued[e])
    /\ writing[e].status # "idle" =>
        /\ m_qMessagesOut[e] # <<>>
        /\ writing[e].n = m_qMessagesOut[e][1].n
        /\ Carries(writing[e], m_qMessagesOut[e][1])
        /\ writing[e].part = "body" => writing[e].length > 0
    /\ Doing(writing[e], "header", "pending") =>
        AtBoundary(stream[e], Len(stream[e]), writing[e].n - 1)
    /\ Doing(writing[e], "body", "pending") =>
        stream[e] # <<>> /\ IsHeader(stream[e][Len(stream[e])], writing[e].n)
    /\ writing[e].status = "ok" =>
        /\ stream[e] # <<>>
        /\ stream[e][Len(stream[e])].part = writing[e].part
        /\ stream[e][Len(stream[e])].n = writing[e].n

WriterInv(e) ==
    SentInv(e) /\ PostsInv(e) /\ QueueInv(e) /\ StreamInv(e) /\ WriteInv(e)

\* What was delivered is what the peer sent, as long as the frames are not lost.
DeliveredInv(e) ==
    ~lost[e] =>
        /\ Len(delivered[e]) <= Len(sent[Peer(e)])
        /\ \A i \in 1 .. Len(delivered[e]) :
            delivered[e][i].head = [n |-> i, size |-> sent[Peer(e)][i].size]

\* The frames are lost only after a message with a body that its header does
\* not announce.
LostInv(e) ==
    lost[e] =>
        /\ m_msgTemporaryIn[e].head.n = 0
        /\ \E m \in 1 .. Len(delivered[e]) :
            /\ m <= Len(sent[Peer(e)])
            /\ sent[Peer(e)][m].size # sent[Peer(e)][m].length

LastBody(e) == IF delivered[e] = <<>> THEN 0 ELSE delivered[e][Len(delivered[e])].body

\* What m_msgTemporaryIn holds comes from the peer, and its body is that of its
\* header while the message is complete, otherwise that of the message before it.
BufferInv(e) ==
    /\ m_msgTemporaryIn[e].head.n \in 0 .. Len(sent[Peer(e)])
    /\ m_msgTemporaryIn[e].head.size \in Sizes
    /\ m_msgTemporaryIn[e].body \in 0 .. Len(sent[Peer(e)])
    /\ Doing(reading[e], "body", "pending") \/ Doing(reading[e], "body", "ok") =>
        m_msgTemporaryIn[e].head.size > 0
    /\ Doing(reading[e], "body", "ok") =>
        m_msgTemporaryIn[e].body = m_msgTemporaryIn[e].head.n
    /\ ~Doing(reading[e], "body", "ok") =>
        m_msgTemporaryIn[e].body = LastBody(e)

\* the header of the message being read has arrived
HeaderRead(e) ==
    /\ m_msgTemporaryIn[e].head.n = Len(delivered[e]) + 1
    /\ Len(delivered[e]) + 1 <= Len(sent[Peer(e)])
    /\ m_msgTemporaryIn[e].head.size = sent[Peer(e)][Len(delivered[e]) + 1].size

\* The outstanding read is of the next frame of the peer's stream.
Aligned(e) ==
    /\ Doing(reading[e], "header", "pending") =>
        Consumed(stream[Peer(e)], got[e], Len(delivered[e]))
    /\ (Doing(reading[e], "header", "ok") \/ Doing(reading[e], "body", "pending")) =>
        /\ got[e] > 0
        /\ IsHeader(stream[Peer(e)][got[e]], Len(delivered[e]) + 1)
        /\ HeaderRead(e)
    /\ Doing(reading[e], "body", "ok") =>
        /\ got[e] > 0
        /\ stream[Peer(e)][got[e]].part = "body"
        /\ stream[Peer(e)][got[e]].n = Len(delivered[e]) + 1
        /\ HeaderRead(e)

ReadInv(e) ==
    /\ got[e] <= Len(stream[Peer(e)])
    /\ ~lost[e] => Aligned(e)

\* An end that has not started to read has read nothing.
NotReading == connecting \in {"none", "pending", "ok", "error"}
Unread(e) ==
    reading[e].status = "idle" /\ got[e] = 0 /\ delivered[e] = <<>> /\ ~lost[e]

ReaderInv(e) == DeliveredInv(e) /\ LostInv(e) /\ BufferInv(e) /\ ReadInv(e)

SetupInv ==
    /\ NotReading => Unread("client")
    /\ accepted = "none" => Unread("server")

IInv ==
    /\ Types
    /\ NoOverlap
    /\ SetupInv
    /\ BodyOwnOrStale
    /\ \A e \in Ends : WriterInv(e) /\ ReaderInv(e)

-----------------------------------------------------------------------------
(* Types *)

\* The peer of an end's peer is the end.
LEMMA PeerLemma ==
    ASSUME NEW e \in Ends
    PROVE  Peer(e) \in Ends /\ Peer(Peer(e)) = e /\ Peer(e) # e
BY DEF Ends, Peer

\* What the operators that start and abort operations return.
LEMMA StartLemma ==
    ASSUME NEW e \in Ends, NEW part \in Parts, NEW m \in Message
    PROVE  /\ Started(e) \in {"pending", "error"}
           /\ [part |-> part, n |-> m.n, size |-> m.size, length |-> m.length,
               status |-> Started(e)] \in Write
           /\ [part |-> part, status |-> Started(e)] \in Read
<1>1. Started(e) \in {"pending", "error"}
  BY DEF Started
<1> QED
  BY <1>1 DEF Write, Read, Message, Status

\* m_socket.close() turns a pending operation into a failed one, nothing else.
LEMMA AbortLemma ==
    ASSUME NEW w \in Write, NEW r \in Read
    PROVE  /\ Aborted(w) \in Write /\ Aborted(w).part = w.part /\ Aborted(w).n = w.n
           /\ Aborted(w).size = w.size /\ Aborted(w).length = w.length
           /\ Aborted(w).status = (IF w.status = "pending" THEN "error" ELSE w.status)
           /\ Aborted(r) \in Read /\ Aborted(r).part = r.part
           /\ Aborted(r).status = (IF r.status = "pending" THEN "error" ELSE r.status)
BY DEF Aborted, Write, Read, Parts, Status

\* An end without an outstanding operation.
LEMMA IdleLemma == IdleWrite \in Write /\ IdleRead \in Read
BY DEF IdleWrite, IdleRead, Write, Read, Parts, Status

\* The two ends as they are constructed.
LEMMA InitType == Init => Types
<1> SUFFICES ASSUME Init PROVE Types
  OBVIOUS
<1>1. m_msgTemporaryIn \in [Ends -> [head : [n : Nat, size : Nat], body : Nat]]
  BY DEF Init, EmptyMessage
<1>2. /\ posts \in [Ends -> Seq(Post)] /\ m_qMessagesOut \in [Ends -> Seq(Message)]
      /\ stream \in [Ends -> Seq(Frame)] /\ sent \in [Ends -> Seq(Message)]
      /\ delivered \in [Ends -> Seq([head : [n : Nat, size : Nat], body : Nat])]
  BY EmptySeq DEF Init
<1>3. writing \in [Ends -> Write] /\ reading \in [Ends -> Read]
  BY DEF Init, Write, Read, Parts, Status, IdleWrite, IdleRead
<1>4. /\ connecting \in ConnectStates /\ accepted \in {"none", "accepted", "rejected"}
      /\ open \in [Ends -> BOOLEAN] /\ overlap \in BOOLEAN
  BY DEF Init, ConnectStates
<1>5. got \in [Ends -> Nat] /\ queued \in [Ends -> Nat] /\ closes \in Nat
  BY DEF Init
<1>6. lost \in [Ends -> BOOLEAN]
  BY DEF Init
<1> QED
  BY <1>1, <1>2, <1>3, <1>4, <1>5, <1>6 DEF Types

\* A popped message is a message.
LEMMA FrontLemma ==
    ASSUME NEW S, NEW q \in Seq(S), q # <<>>
    PROVE  Head(q) \in S /\ Tail(q) \in Seq(S) /\ Head(q) = q[1] /\ Len(q) \in Nat \ {0}
BY HeadTailProperties, EmptySeq, LenProperties

\* The two kinds of messages that are sent.
LEMMA KindLemma ==
    ASSUME NEW msg \in Announced \cup PassedOn
    PROVE  /\ msg.size \in Sizes /\ msg.length \in Sizes
           /\ msg.size \in Nat /\ msg.length \in Nat
           /\ msg.size > 0 => msg.size = msg.length
<1>1. msg.size \in Sizes /\ msg.length \in Sizes
  BY SizesAssumption DEF Announced, PassedOn
<1>2. msg.size = msg.length \/ msg.size = 0
  BY DEF Announced, PassedOn
<1>3. msg.size \in Nat /\ msg.length \in Nat
  BY <1>1, SizesAssumption
<1>4. msg.size > 0 => msg.size # 0
  BY <1>3
<1> QED
  BY <1>1, <1>2, <1>3, <1>4

\* Every handler stores values of the right type.  The frame written
\* has a number because the invariant knows where it comes from.
LEMMA StepType == IInv /\ [Next]_vars => Types'
<1> SUFFICES ASSUME IInv, [Next]_vars PROVE Types'
  OBVIOUS
<1> USE SizesAssumption
<1>0. Types
  BY DEF IInv
<1>1. CASE ConnectToServer
  BY <1>0, <1>1 DEF ConnectToServer, application, Types, ConnectStates
<1>2. CASE ConnectComplete
  BY <1>0, <1>2 DEF ConnectComplete, application, Types, ConnectStates
<1>3. CASE ConnectHandler
  <2>1. reading' \in [Ends -> Read] /\ overlap' \in BOOLEAN
    <3>1. "client" \in Ends /\ "header" \in Parts
      BY DEF Ends, Parts
    <3>2. [part |-> "header", status |-> Started("client")] \in Read
      BY <3>1 DEF Read, Started, Status
    <3> QED
      BY <1>0, <1>3, <3>1, <3>2 DEF ConnectHandler, StartRead, Types
  <2> QED
    BY <1>0, <1>3, <2>1 DEF ConnectHandler, application, Types, ConnectStates
<1>4. CASE Accept
  BY <1>0, <1>4 DEF Accept, application, Types, Read, Parts, Status
<1>5. CASE Reject
  BY <1>0, <1>5 DEF Reject, application, Types
<1>6. ASSUME NEW e \in Ends, NEW msg \in Announced \cup PassedOn, Send(e, msg) PROVE Types'
  <2> DEFINE m == [n |-> Len(sent[e]) + 1, size |-> msg.size, length |-> msg.length]
             p == [op |-> "send", n |-> Len(sent[e]) + 1, size |-> msg.size,
                   length |-> msg.length]
  <2>0. msg.size \in Nat /\ msg.length \in Nat
    BY <1>6, KindLemma
  <2>1. sent[e] \in Seq(Message) /\ posts[e] \in Seq(Post) /\ Len(sent[e]) \in Nat
    BY <1>0, LenProperties DEF Types
  <2>2. m \in Message /\ p \in Post
    BY <2>0, <2>1 DEF Message, Post
  <2>3. Append(sent[e], m) \in Seq(Message) /\ Append(posts[e], p) \in Seq(Post)
    BY <2>1, <2>2, AppendProperties
  <2>4. sent' \in [Ends -> Seq(Message)] /\ posts' \in [Ends -> Seq(Post)]
    BY <1>0, <1>6, <2>3 DEF Send, Types
  <2> QED
    BY <1>0, <1>6, <2>4 DEF Send, setup, Types
<1>7. ASSUME NEW e \in Ends, Disconnect(e) PROVE Types'
  <2> DEFINE p == [op |-> "close", n |-> Len(sent[e]), size |-> 0, length |-> 0]
  <2>1. sent[e] \in Seq(Message) /\ posts[e] \in Seq(Post) /\ Len(sent[e]) \in Nat
    BY <1>0, LenProperties DEF Types
  <2>2. p \in Post
    BY <2>1 DEF Post
  <2>3. Append(posts[e], p) \in Seq(Post)
    BY <2>1, <2>2, AppendProperties
  <2>4. posts' \in [Ends -> Seq(Post)]
    BY <1>0, <1>7, <2>3 DEF Disconnect, Types
  <2>5. closes \in Nat /\ closes' = closes + 1
    BY <1>0, <1>7 DEF Disconnect, Types
  <2>6. closes' \in Nat
    BY <2>5
  <2> QED
    BY <1>0, <1>7, <2>4, <2>6 DEF Disconnect, setup, Types
<1>8. ASSUME NEW e \in Ends, SendHandler(e) PROVE Types'
  <2> DEFINE msg == [n |-> Head(posts[e]).n, size |-> Head(posts[e]).size,
                     length |-> Head(posts[e]).length]
             queue == Append(m_qMessagesOut[e], msg)
  <2>1. posts[e] \in Seq(Post) /\ posts[e] # <<>> /\ Head(posts[e]).op = "send"
    BY <1>0, <1>8 DEF Types, SendHandler, QueueAndWrite
  <2>2. Head(posts[e]) \in Post /\ Tail(posts[e]) \in Seq(Post)
        /\ Head(posts[e]) = posts[e][1] /\ Len(posts[e]) \in Nat \ {0}
    BY <2>1, FrontLemma
  <2>3. Head(posts[e]).n # 0
    <3>1. PostsInv(e) /\ Len(sent[e]) \in Nat
      BY <1>0, LenProperties DEF IInv, WriterInv, Types
    <3> QED
      BY <2>1, <2>2, <3>1 DEF PostsInv
  <2>4. msg \in Message
    BY <2>2, <2>3 DEF Post, Message
  <2>5. m_qMessagesOut[e] \in Seq(Message)
    BY <1>0 DEF Types
  <2>6. queue \in Seq(Message) /\ queue # <<>>
    BY <2>4, <2>5, AppendProperties
  <2>7. Head(queue) \in Message /\ "header" \in Parts
    BY <2>6, FrontLemma DEF Parts
  <2>8. /\ m_qMessagesOut' \in [Ends -> Seq(Message)]
        /\ posts' \in [Ends -> Seq(Post)] /\ queued' \in [Ends -> Nat]
    <3>1. /\ m_qMessagesOut' = [m_qMessagesOut EXCEPT ![e] = queue]
          /\ posts' = [posts EXCEPT ![e] = Tail(posts[e])]
          /\ queued' = [queued EXCEPT ![e] = queued[e] + 1]
      BY <1>8 DEF SendHandler, QueueAndWrite
    <3>2. /\ m_qMessagesOut \in [Ends -> Seq(Message)] /\ posts \in [Ends -> Seq(Post)]
          /\ queued \in [Ends -> Nat]
      BY <1>0 DEF Types
    <3> HIDE DEF queue
    <3>3. m_qMessagesOut' \in [Ends -> Seq(Message)]
      BY <2>6, <3>1, <3>2
    <3>4. posts' \in [Ends -> Seq(Post)]
      BY <2>2, <3>1, <3>2
    <3>5. queued' \in [Ends -> Nat]
      BY <3>1, <3>2
    <3> QED
      BY <3>3, <3>4, <3>5
  <2>9. writing' \in [Ends -> Write] /\ overlap' \in BOOLEAN
    <3>1. [part |-> "header", n |-> Head(queue).n, size |-> Head(queue).size,
           length |-> Head(queue).length, status |-> Started(e)] \in Write
      BY <2>7, StartLemma
    <3> QED
      BY <1>0, <1>8, <3>1 DEF Types, SendHandler, QueueAndWrite, StartWrite
  <2> QED
    BY <1>0, <1>8, <2>8, <2>9 DEF SendHandler, QueueAndWrite, setup, application, Types
<1>9. ASSUME NEW e \in Ends, NEW w \in Write, NEW r \in Read, Close(e, w, r)
      PROVE  /\ open' \in [Ends -> BOOLEAN] /\ connecting' \in ConnectStates
             /\ writing' \in [Ends -> Write] /\ reading' \in [Ends -> Read]
  <2>1. Aborted(w) \in Write /\ Aborted(r) \in Read
    BY AbortLemma
  <2> QED
    BY <1>0, <1>9, <2>1 DEF Close, Types, ConnectStates
<1>10. ASSUME NEW e \in Ends PROVE writing[e] \in Write /\ reading[e] \in Read
  BY <1>0 DEF Types
<1>11. ASSUME NEW e \in Ends, CloseHandler(e) PROVE Types'
  <2>1. Tail(posts[e]) \in Seq(Post)
    BY <1>0, <1>11, FrontLemma DEF CloseHandler, Types
  <2>2. posts' \in [Ends -> Seq(Post)]
    BY <1>0, <1>11, <2>1 DEF CloseHandler, Types
  <2>3. /\ open' \in [Ends -> BOOLEAN] /\ connecting' \in ConnectStates
        /\ writing' \in [Ends -> Write] /\ reading' \in [Ends -> Read]
    BY <1>9, <1>10, <1>11 DEF CloseHandler
  <2> QED
    BY <1>0, <1>11, <2>2, <2>3 DEF CloseHandler, application, Types
<1>12. ASSUME NEW e \in Ends, WriteErrorHandler(e) \/ ReadErrorHandler(e) PROVE Types'
  <2>1. /\ open' \in [Ends -> BOOLEAN] /\ connecting' \in ConnectStates
        /\ writing' \in [Ends -> Write] /\ reading' \in [Ends -> Read]
    BY <1>9, <1>10, <1>12, IdleLemma DEF WriteErrorHandler, ReadErrorHandler
  <2> QED
    BY <1>0, <1>12, <2>1 DEF WriteErrorHandler, ReadErrorHandler, application, Types
<1>13. ASSUME NEW e \in Ends, WriteComplete(e) PROVE Types'
  <2> DEFINE f == [part |-> writing[e].part, n |-> writing[e].n, size |-> writing[e].size,
                   length |-> writing[e].length]
  <2>1. f \in Frame
    <3>1. m_qMessagesOut[e] # <<>> /\ writing[e].n = m_qMessagesOut[e][1].n
      BY <1>13 DEF WriteComplete, IInv, WriterInv, WriteInv
    <3>2. m_qMessagesOut[e][1] \in Message
      BY <1>0, <3>1, FrontLemma DEF Types
    <3> QED
      BY <1>10, <3>1, <3>2 DEF Write, Frame, Message
  <2>2. Append(stream[e], f) \in Seq(Frame)
    BY <1>0, <2>1, AppendProperties DEF Types
  <2>3. stream' \in [Ends -> Seq(Frame)]
    BY <1>0, <1>13, <2>2 DEF WriteComplete, Types
  <2>4. writing' \in [Ends -> Write]
    <3>1. [writing[e] EXCEPT !.status = "ok"] \in Write
      BY <1>10 DEF Write, Status
    <3> QED
      BY <1>0, <1>13, <3>1 DEF WriteComplete, Types
  <2> QED
    BY <1>0, <1>13, <2>3, <2>4 DEF WriteComplete, setup, application, Types
<1>14. ASSUME NEW e \in Ends, WriteError(e) PROVE Types'
  <2>1. [writing[e] EXCEPT !.status = "error"] \in Write
    BY <1>10 DEF Write, Status
  <2>2. writing' \in [Ends -> Write]
    BY <1>0, <1>14, <2>1 DEF WriteError, Types
  <2> QED
    BY <1>0, <1>14, <2>2 DEF WriteError, setup, application, Types
<1>15. ASSUME NEW e \in Ends, WriteHeaderHandler(e) \/ WriteBodyHandler(e) PROVE Types'
  <2>1. m_qMessagesOut[e] \in Seq(Message) /\ m_qMessagesOut[e] # <<>>
    BY <1>0, <1>15 DEF WriteHeaderHandler, WriteBodyHandler, IInv, WriterInv, WriteInv, Types
  <2>2. Head(m_qMessagesOut[e]) \in Message /\ Tail(m_qMessagesOut[e]) \in Seq(Message)
    BY <2>1, FrontLemma
  <2>3. ASSUME PopAndWriteNext(e)
        PROVE  m_qMessagesOut' \in [Ends -> Seq(Message)] /\ writing' \in [Ends -> Write]
    <3>1. m_qMessagesOut' \in [Ends -> Seq(Message)]
      BY <1>0, <2>2, <2>3 DEF PopAndWriteNext, Types
    <3>2. CASE Tail(m_qMessagesOut[e]) # <<>>
      <4>1. Head(Tail(m_qMessagesOut[e])) \in Message /\ "header" \in Parts
        BY <2>2, <3>2, FrontLemma DEF Parts
      <4>2. [part |-> "header", n |-> Head(Tail(m_qMessagesOut[e])).n,
             size |-> Head(Tail(m_qMessagesOut[e])).size,
             length |-> Head(Tail(m_qMessagesOut[e])).length, status |-> Started(e)] \in Write
        BY <4>1, StartLemma
      <4> QED
        BY <1>0, <2>3, <3>1, <3>2, <4>2 DEF PopAndWriteNext, StartWrite, Types
    <3>3. CASE Tail(m_qMessagesOut[e]) = <<>>
      BY <1>0, <2>3, <3>1, <3>3, IdleLemma DEF PopAndWriteNext, NoWrite, Types
    <3> QED
      BY <3>2, <3>3
  <2>4. ASSUME StartWrite(e, "body", Head(m_qMessagesOut[e]))
        PROVE  writing' \in [Ends -> Write]
    <3>1. [part |-> "body", n |-> Head(m_qMessagesOut[e]).n,
           size |-> Head(m_qMessagesOut[e]).size,
           length |-> Head(m_qMessagesOut[e]).length, status |-> Started(e)] \in Write
      BY <2>2, StartLemma DEF Parts
    <3> QED
      BY <1>0, <2>4, <3>1 DEF StartWrite, Types
  <2>5. m_qMessagesOut' \in [Ends -> Seq(Message)] /\ writing' \in [Ends -> Write]
    BY <1>0, <1>15, <2>3, <2>4 DEF WriteHeaderHandler, WriteBodyHandler, Types
  <2> QED
    BY <1>0, <1>15, <2>5 DEF WriteHeaderHandler, WriteBodyHandler, setup, application, Types
<1>16. ASSUME NEW e \in Ends, ReadComplete(e) PROVE Types'
  <2> DEFINE frame == stream[Peer(e)][got[e] + 1]
             Temp == [head : [n : Nat, size : Nat], body : Nat]
  <2>0. got[e] \in Nat /\ got[e] + 1 \in Nat
    BY <1>0 DEF Types
  <2>1. frame \in Frame
    <3>1. stream[Peer(e)] \in Seq(Frame) /\ got[e] < Len(stream[Peer(e)])
      BY <1>0, <1>16, PeerLemma DEF ReadComplete, Types
    <3>2. got[e] + 1 \in 1 .. Len(stream[Peer(e)])
      BY <2>0, <3>1, LenProperties
    <3> QED
      BY <3>1, <3>2, ElementOfSeq
  <2>2. m_msgTemporaryIn' \in [Ends -> Temp]
    <3>1. m_msgTemporaryIn[e] \in Temp
      BY <1>0 DEF Types
    <3>2. [m_msgTemporaryIn[e] EXCEPT !.head = [n |-> frame.n, size |-> frame.size]] \in Temp
      BY <2>1, <3>1 DEF Frame
    <3>3. [m_msgTemporaryIn[e] EXCEPT !.body = frame.n] \in Temp
      BY <2>1, <3>1 DEF Frame
    <3> QED
      BY <1>0, <1>16, <3>2, <3>3 DEF ReadComplete, Types
  <2>3. got' \in [Ends -> Nat]
    BY <1>0, <1>16, <2>0 DEF ReadComplete, Types
  <2>4. reading' \in [Ends -> Read]
    <3>1. [reading[e] EXCEPT !.status = "ok"] \in Read
      BY <1>10 DEF Read, Status
    <3> QED
      BY <1>0, <1>16, <3>1 DEF ReadComplete, Types
  <2> QED
    BY <1>0, <1>16, <2>2, <2>3, <2>4 DEF ReadComplete, setup, application, Types
<1>17. ASSUME NEW e \in Ends, ReadError(e) PROVE Types'
  BY <1>0, <1>17 DEF ReadError, setup, application, Types, Read, Status
<1>18. ASSUME NEW e \in Ends, ReadHeaderHandler(e) \/ ReadBodyHandler(e) PROVE Types'
  <2> DEFINE Temp == [head : [n : Nat, size : Nat], body : Nat]
  <2>1. [part |-> "header", status |-> Started(e)] \in Read
        /\ [part |-> "body", status |-> Started(e)] \in Read
    BY DEF Read, Parts, Status, Started
  <2>2. reading' \in [Ends -> Read]
    BY <1>0, <1>18, <2>1 DEF ReadHeaderHandler, ReadBodyHandler, AddToIncomingMessageQueue,
                             StartRead, Types
  <2>3. Append(delivered[e], m_msgTemporaryIn[e]) \in Seq(Temp)
    BY <1>0, AppendProperties DEF Types
  <2>4. delivered' \in [Ends -> Seq(Temp)]
    BY <1>0, <1>18, <2>3 DEF ReadHeaderHandler, ReadBodyHandler, AddToIncomingMessageQueue,
                             Types
  <2> QED
    BY <1>0, <1>18, <2>2, <2>4 DEF ReadHeaderHandler, ReadBodyHandler, setup, application, Types
<1>20. ASSUME NEW e \in Ends, Misread(e) PROVE Types'
  <2> DEFINE Temp == [head : [n : Nat, size : Nat], body : Nat]
  <2>1. m_msgTemporaryIn' \in [Ends -> Temp]
    <3>1. m_msgTemporaryIn[e] \in Temp
      BY <1>0 DEF Types
    <3>2. ASSUME NEW size \in Sizes
          PROVE  [m_msgTemporaryIn[e] EXCEPT !.head = [n |-> 0, size |-> size]] \in Temp
      BY <3>1
    <3>3. [m_msgTemporaryIn[e] EXCEPT !.body = 0] \in Temp
      BY <3>1
    <3>4. CASE reading[e].part = "header"
      <4>1. PICK size \in Sizes : m_msgTemporaryIn' =
                [m_msgTemporaryIn EXCEPT ![e] = [@ EXCEPT !.head = [n |-> 0, size |-> size]]]
        BY <1>20, <3>4 DEF Misread
      <4> QED
        BY <1>0, <3>2, <4>1 DEF Types
    <3>5. CASE reading[e].part # "header"
      <4>1. m_msgTemporaryIn' = [m_msgTemporaryIn EXCEPT ![e] = [@ EXCEPT !.body = 0]]
        BY <1>20, <3>5 DEF Misread
      <4> QED
        BY <1>0, <3>3, <4>1 DEF Types
    <3> QED
      BY <3>4, <3>5
  <2>2. reading' \in [Ends -> Read]
    <3>1. [reading[e] EXCEPT !.status = "ok"] \in Read
      BY <1>10 DEF Read, Status
    <3> QED
      BY <1>0, <1>20, <3>1 DEF Misread, Types
  <2>3. lost' \in [Ends -> BOOLEAN]
    BY <1>0, <1>20 DEF Misread, Types
  <2> QED
    BY <1>0, <1>20, <2>1, <2>2, <2>3 DEF Misread, setup, application, Types
<1>19. CASE UNCHANGED vars
  BY <1>0, <1>19 DEF vars, Types
<1> QED
  BY <1>1, <1>2, <1>3, <1>4, <1>5, <1>6, <1>7, <1>8, <1>11, <1>12, <1>13, <1>14, <1>15,
     <1>16, <1>17, <1>18, <1>19, <1>20 DEF Next, Handler, External, Application
-----------------------------------------------------------------------------
(* The writing end *)

\* An appended sequence keeps its elements.
LEMMA AppendLemma ==
    ASSUME NEW S, NEW q \in Seq(S), NEW x \in S
    PROVE  /\ Append(q, x) \in Seq(S) /\ Append(q, x) # <<>>
           /\ Len(q) \in Nat /\ Len(Append(q, x)) = Len(q) + 1
           /\ \A i \in 1 .. Len(q) : Append(q, x)[i] = q[i]
           /\ Append(q, x)[Len(q) + 1] = x
BY AppendProperties, LenProperties

\* The tail of a sequence drops its first element.
LEMMA TailLemma ==
    ASSUME NEW S, NEW q \in Seq(S), q # <<>>
    PROVE  /\ Tail(q) \in Seq(S) /\ Head(q) = q[1] /\ q[1] \in S
           /\ Len(q) \in Nat \ {0} /\ Len(Tail(q)) = Len(q) - 1
           /\ Tail(q) = <<>> <=> Len(q) = 1
           /\ \A i \in 1 .. Len(q) - 1 : Tail(q)[i] = q[i + 1]
<1>1. Tail(q) \in Seq(S) /\ Head(q) = q[1] /\ q[1] \in S /\ Len(q) \in Nat \ {0}
  BY FrontLemma
<1>2. Len(Tail(q)) = Len(q) - 1 /\ \A i \in 1 .. Len(q) - 1 : Tail(q)[i] = q[i + 1]
  BY HeadTailProperties
<1>3. Tail(q) = <<>> <=> Len(q) = 1
  BY <1>1, <1>2, EmptySeq
<1> QED
  BY <1>1, <1>2, <1>3

\* the variables of the writing end e
WriterSame(e) ==
    /\ sent'[e] = sent[e] /\ posts'[e] = posts[e] /\ queued'[e] = queued[e]
    /\ m_qMessagesOut'[e] = m_qMessagesOut[e] /\ stream'[e] = stream[e]

\* Steps that neither send, queue nor write at e.
LEMMA WriterUnchanged ==
    ASSUME NEW e \in Ends, WriterInv(e), WriterSame(e), writing'[e] = writing[e]
    PROVE  WriterInv(e)'
BY DEF WriterInv, WriterSame, SentInv, PostsInv, QueueInv, StreamInv, WriteInv

\* A write that fails or is aborted leaves the rest of the end alone.
LEMMA WriterFails ==
    ASSUME NEW e \in Ends, WriterInv(e), WriterSame(e),
           writing'[e].part = writing[e].part, writing'[e].n = writing[e].n,
           Carries(writing'[e], writing[e]),
           writing[e].status = "pending", writing'[e].status = "error"
    PROVE  WriterInv(e)'
<1>1. (SentInv(e) /\ PostsInv(e) /\ QueueInv(e) /\ StreamInv(e))'
  BY DEF WriterInv, WriterSame, SentInv, PostsInv, QueueInv, StreamInv
<1>2. WriteInv(e)'
  BY DEF WriterInv, WriterSame, WriteInv, Doing, Carries
<1> QED
  BY <1>1, <1>2 DEF WriterInv

\* Posting a lambda for the message just sent, or for closing.
LEMMA PostsAppend ==
    ASSUME Types, NEW e \in Ends, NEW p \in Post, PostsInv(e),
           posts'[e] = Append(posts[e], p), queued'[e] = queued[e],
           Len(sent'[e]) = Len(sent[e]) + Sending(p),
           \A i \in 1 .. Len(sent[e]) : sent'[e][i] = sent[e][i],
           p.n = Len(sent'[e]),
           p.op = "send" => p.n \in 1 .. Len(sent'[e]) /\ Carries(p, sent'[e][p.n])
    PROVE  PostsInv(e)'
<1>1. /\ posts[e] \in Seq(Post) /\ Len(posts[e]) \in Nat /\ Len(sent[e]) \in Nat
      /\ queued[e] \in Nat /\ Sending(p) \in {0, 1}
  BY LenProperties DEF Types, Sending
<1>2. /\ Len(posts'[e]) = Len(posts[e]) + 1 /\ posts'[e][Len(posts[e]) + 1] = p
      /\ posts'[e] # <<>>
      /\ \A i \in 1 .. Len(posts[e]) : posts'[e][i] = posts[e][i]
  <2>1. /\ Len(Append(posts[e], p)) = Len(posts[e]) + 1
        /\ Append(posts[e], p)[Len(posts[e]) + 1] = p /\ Append(posts[e], p) # <<>>
        /\ \A i \in 1 .. Len(posts[e]) : Append(posts[e], p)[i] = posts[e][i]
    <3>1. posts[e] \in Seq(Post) /\ p \in Post
      BY <1>1
    <3> QED
      BY <3>1, AppendLemma
  <2> QED
    BY <2>1
<1>3. posts[e] = <<>> <=> Len(posts[e]) = 0
  BY <1>1, EmptySeq
<1>4. queued'[e] <= Len(sent'[e])
  BY <1>1 DEF PostsInv
<1>5. posts'[e][Len(posts'[e])].n = Len(sent'[e])
  BY <1>2
<1>6. posts'[e][1].n = queued'[e] + Sending(posts'[e][1])
  <2>1. CASE posts[e] = <<>>
    <3>1. posts'[e][1] = p /\ queued[e] = Len(sent[e])
      BY <1>2, <1>3, <2>1 DEF PostsInv
    <3> QED
      BY <3>1
  <2>2. CASE posts[e] # <<>>
    <3>1. 1 \in 1 .. Len(posts[e])
      BY <1>1, <1>3, <2>2
    <3> QED
      BY <1>2, <2>2, <3>1 DEF PostsInv
  <2> QED
    BY <2>1, <2>2
<1>7. ASSUME NEW i \in 1 .. Len(posts'[e]) - 1
      PROVE  posts'[e][i + 1].n = posts'[e][i].n + Sending(posts'[e][i + 1])
  <2>1. CASE i < Len(posts[e])
    <3>1. i \in 1 .. Len(posts[e]) - 1 /\ i \in 1 .. Len(posts[e]) /\ i + 1 \in 1 .. Len(posts[e])
      BY <1>1, <2>1
    <3>2. posts[e][i + 1].n = posts[e][i].n + Sending(posts[e][i + 1])
      BY <3>1 DEF PostsInv
    <3> QED
      BY <1>2, <3>1, <3>2
  <2>2. CASE i = Len(posts[e])
    <3>1. i \in 1 .. Len(posts[e]) /\ posts[e] # <<>>
      BY <1>1, <1>2, <1>3, <2>2
    <3>2. posts'[e][i].n = Len(sent[e]) /\ posts'[e][i + 1] = p
      BY <1>2, <2>2, <3>1 DEF PostsInv
    <3>3. Sending(posts'[e][i + 1]) = Sending(p)
      BY <3>2 DEF Sending
    <3> QED
      BY <3>2, <3>3
  <2>3. i < Len(posts[e]) \/ i = Len(posts[e])
    BY <1>1, <1>2
  <2> QED
    BY <2>1, <2>2, <2>3
<1>8. ASSUME NEW i \in 1 .. Len(posts'[e]), posts'[e][i].op = "send"
      PROVE  /\ posts'[e][i].n \in 1 .. Len(sent'[e])
             /\ Carries(posts'[e][i], sent'[e][posts'[e][i].n])
  <2>1. CASE i <= Len(posts[e])
    <3>1. i \in 1 .. Len(posts[e]) /\ posts'[e][i] = posts[e][i]
      BY <1>1, <1>2, <2>1
    <3>2. posts[e][i].n \in 1 .. Len(sent[e]) /\ Carries(posts[e][i], sent[e][posts[e][i].n])
      BY <1>8, <3>1 DEF PostsInv
    <3>3. sent'[e][posts[e][i].n] = sent[e][posts[e][i].n]
      BY <3>2
    <3>4. posts[e][i].n \in 1 .. Len(sent'[e])
      BY <1>1, <3>2
    <3> QED
      BY <3>1, <3>2, <3>3, <3>4
  <2>2. CASE i = Len(posts[e]) + 1
    BY <1>2, <1>8, <2>2
  <2> QED
    BY <1>1, <1>2, <2>1, <2>2
<1> QED
  BY <1>2, <1>4, <1>5, <1>6, <1>7, <1>8 DEF PostsInv

\* Running the first posted lambda.
LEMMA PostsTail ==
    ASSUME Types, NEW e \in Ends, PostsInv(e), posts[e] # <<>>,
           posts'[e] = Tail(posts[e]), sent'[e] = sent[e],
           queued'[e] = queued[e] + Sending(Head(posts[e]))
    PROVE  /\ PostsInv(e)'
           /\ Head(posts[e]).n = queued'[e]
           /\ Head(posts[e]).op = "send" =>
                Head(posts[e]).n \in 1 .. Len(sent[e])
                /\ Carries(Head(posts[e]), sent[e][Head(posts[e]).n])
<1>1. /\ posts[e] \in Seq(Post) /\ Len(sent[e]) \in Nat /\ queued[e] \in Nat
      /\ \A x : Sending(x) \in {0, 1}
  BY LenProperties DEF Types, Sending
<1>2. /\ Head(posts[e]) = posts[e][1] /\ Len(posts[e]) \in Nat \ {0}
      /\ posts'[e] \in Seq(Post) /\ Len(posts'[e]) = Len(posts[e]) - 1
      /\ posts'[e] = <<>> <=> Len(posts[e]) = 1
      /\ \A i \in 1 .. Len(posts[e]) - 1 : posts'[e][i] = posts[e][i + 1]
  BY <1>1, TailLemma
<1>3. posts[e][1].n = queued'[e] /\ posts[e][Len(posts[e])].n = Len(sent[e])
  BY <1>2 DEF PostsInv
<1>4. /\ \A i \in 1 .. Len(posts[e]) - 1 :
            posts[e][i + 1].n = posts[e][i].n + Sending(posts[e][i + 1])
      /\ \A i \in 1 .. Len(posts[e]) : posts[e][i].op = "send" =>
            posts[e][i].n \in 1 .. Len(sent[e]) /\ Carries(posts[e][i], sent[e][posts[e][i].n])
  BY DEF PostsInv
<1>5. 1 \in 1 .. Len(posts[e])
  BY <1>2
<1>6. queued'[e] <= Len(sent[e])
  <2>1. CASE posts[e][1].op = "send"
    BY <1>1, <1>3, <1>4, <1>5, <2>1
  <2>2. CASE posts[e][1].op # "send"
    <3>1. queued'[e] = queued[e]
      BY <1>1, <1>2, <2>2 DEF Sending
    <3> QED
      BY <3>1 DEF PostsInv
  <2> QED
    BY <2>1, <2>2
<1>7. CASE Len(posts[e]) = 1
  <2>1. posts'[e] = <<>> /\ Len(posts'[e]) = 0 /\ queued'[e] = Len(sent[e])
    BY <1>2, <1>3, <1>7
  <2>2. PostsInv(e)'
    BY <1>1, <1>6, <2>1 DEF PostsInv
  <2> QED
    BY <1>2, <1>3, <1>4, <1>5, <2>2
<1>8. CASE Len(posts[e]) > 1
  <2>1. 1 \in 1 .. Len(posts[e]) - 1 /\ Len(posts[e]) - 1 \in 1 .. Len(posts[e]) - 1
    BY <1>2, <1>8
  <2>2. posts'[e][1].n = queued'[e] + Sending(posts'[e][1])
    BY <1>2, <1>3, <1>4, <2>1
  <2>3. posts'[e][Len(posts'[e])].n = Len(sent[e])
    <3>1. posts'[e][Len(posts'[e])] = posts[e][Len(posts[e]) - 1 + 1]
      BY <1>2, <2>1
    <3>2. Len(posts[e]) - 1 + 1 = Len(posts[e])
      BY <1>2
    <3>3. posts'[e][Len(posts'[e])] = posts[e][Len(posts[e])]
      BY <3>1, <3>2
    <3> QED
      BY <1>3, <3>3
  <2>4. ASSUME NEW i \in 1 .. Len(posts'[e]) - 1
        PROVE  posts'[e][i + 1].n = posts'[e][i].n + Sending(posts'[e][i + 1])
    <3>1. i \in 1 .. Len(posts[e]) - 1 /\ i + 1 \in 1 .. Len(posts[e]) - 1
      BY <1>2
    <3> QED
      BY <1>2, <1>4, <3>1
  <2>5. ASSUME NEW i \in 1 .. Len(posts'[e]), posts'[e][i].op = "send"
        PROVE  /\ posts'[e][i].n \in 1 .. Len(sent'[e])
               /\ Carries(posts'[e][i], sent'[e][posts'[e][i].n])
    <3>1. i \in 1 .. Len(posts[e]) - 1 /\ i + 1 \in 1 .. Len(posts[e])
      BY <1>2
    <3>2. posts'[e][i] = posts[e][i + 1]
      BY <1>2, <3>1
    <3> QED
      BY <1>4, <2>5, <3>1, <3>2
  <2>6. PostsInv(e)'
    BY <1>2, <1>6, <1>8, <2>2, <2>3, <2>4, <2>5 DEF PostsInv
  <2> QED
    BY <1>2, <1>3, <1>4, <1>5, <2>6
<1> QED
  BY <1>2, <1>7, <1>8

\* Send: the lambda posted last carries the message sent last.
LEMMA WriterSend ==
    ASSUME Types, NEW e \in Ends, NEW msg \in Announced \cup PassedOn, WriterInv(e),
           Send(e, msg)
    PROVE  WriterInv(e)'
<1> DEFINE m == [n |-> Len(sent[e]) + 1, size |-> msg.size, length |-> msg.length]
           p == [op |-> "send", n |-> Len(sent[e]) + 1, size |-> msg.size,
                 length |-> msg.length]
<1> USE DEF WriterInv
<1>1. /\ sent[e] \in Seq(Message) /\ Len(sent[e]) \in Nat
      /\ posts[e] \in Seq(Post) /\ Len(posts[e]) \in Nat
      /\ Len(m_qMessagesOut[e]) \in Nat /\ Len(stream[e]) \in Nat /\ queued[e] \in Nat
  BY LenProperties DEF Types
<1>2. m \in Message /\ p \in Post
  BY <1>1, KindLemma DEF Message, Post
<1>3. /\ sent'[e] = Append(sent[e], m) /\ posts'[e] = Append(posts[e], p)
      /\ m_qMessagesOut' = m_qMessagesOut /\ stream' = stream /\ writing' = writing
      /\ queued' = queued
  BY DEF Send, Types
<1>m. /\ m.n = Len(sent[e]) + 1 /\ m.size \in Sizes /\ (m.size > 0 => m.size = m.length)
      /\ p.op = "send" /\ p.n = m.n /\ Carries(p, m)
  BY KindLemma DEF Carries
<1> HIDE DEF m, p
<1>4. /\ Len(sent'[e]) = Len(sent[e]) + 1 /\ sent'[e][Len(sent[e]) + 1] = m
      /\ \A i \in 1 .. Len(sent[e]) : sent'[e][i] = sent[e][i]
  <2>1. sent[e] \in Seq(Message) /\ m \in Message
    BY <1>1, <1>2
  <2>2. /\ Len(Append(sent[e], m)) = Len(sent[e]) + 1 /\ Append(sent[e], m)[Len(sent[e]) + 1] = m
        /\ Append(sent[e], m) # <<>>
        /\ \A i \in 1 .. Len(sent[e]) : Append(sent[e], m)[i] = sent[e][i]
    BY <2>1, AppendLemma
  <2> QED
    BY <1>3, <2>2
<1>5. /\ Len(posts'[e]) = Len(posts[e]) + 1 /\ posts'[e][Len(posts[e]) + 1] = p
      /\ posts'[e] # <<>>
      /\ \A i \in 1 .. Len(posts[e]) : posts'[e][i] = posts[e][i]
  <2>1. posts[e] \in Seq(Post) /\ p \in Post
    BY <1>1, <1>2
  <2>2. /\ Len(Append(posts[e], p)) = Len(posts[e]) + 1 /\ Append(posts[e], p)[Len(posts[e]) + 1] = p
        /\ Append(posts[e], p) # <<>>
        /\ \A i \in 1 .. Len(posts[e]) : Append(posts[e], p)[i] = posts[e][i]
    BY <2>1, AppendLemma
  <2> QED
    BY <1>3, <2>2
<1>6. SentInv(e)'
  <2> SUFFICES ASSUME NEW i \in 1 .. Len(sent'[e]) 
               PROVE  /\ sent'[e][i].n = i
                      /\ sent'[e][i].size \in Sizes
                      /\ sent'[e][i].size > 0 => sent'[e][i].size = sent'[e][i].length
    BY DEF SentInv
  <2>1. CASE i <= Len(sent[e])
    <3>1. i \in 1 .. Len(sent[e]) /\ sent'[e][i] = sent[e][i]
      BY <1>1, <1>4, <2>1
    <3> QED
      BY <3>1 DEF SentInv
  <2>2. CASE i = Len(sent[e]) + 1
    BY <1>4, <1>m, <2>2
  <2> QED
    BY <1>1, <1>4, <2>1, <2>2
<1>7. PostsInv(e)'
  <2>1. Carries(p, sent'[e][m.n]) /\ m.n \in 1 .. Len(sent'[e])
    BY <1>1, <1>4, <1>m
  <2> QED
    BY <1>1, <1>2, <1>3, <1>4, <1>m, <2>1, PostsAppend DEF Sending
<1>8. QueueInv(e)'
  <2> SUFFICES ASSUME NEW i \in 1 .. Len(m_qMessagesOut[e])
               PROVE  m_qMessagesOut[e][i] = sent'[e][queued[e] - Len(m_qMessagesOut[e]) + i]
    BY <1>3 DEF QueueInv
  <2> DEFINE j == queued[e] - Len(m_qMessagesOut[e]) + i
  <2>1. j \in 1 .. Len(sent[e])
    BY <1>1 DEF QueueInv, PostsInv
  <2>2. m_qMessagesOut[e][i] = sent[e][j]
    BY DEF QueueInv
  <2> QED
    BY <1>4, <2>1, <2>2
<1>9. StreamInv(e)'
  <2> SUFFICES ASSUME NEW i \in 1 .. Len(stream[e])
               PROVE  /\ stream[e][i].n \in 1 .. Len(sent'[e])
                      /\ Carries(stream[e][i], sent'[e][stream[e][i].n])
                      /\ stream[e][i].part = "body" => stream[e][i].length > 0
    BY <1>3 DEF StreamInv
  <2>1. /\ stream[e][i].n \in 1 .. Len(sent[e])
        /\ Carries(stream[e][i], sent[e][stream[e][i].n])
        /\ stream[e][i].part = "body" => stream[e][i].length > 0
    BY DEF StreamInv
  <2>2. stream[e][i].n \in 1 .. Len(sent'[e])
    BY <1>1, <1>4, <2>1
  <2>3. sent'[e][stream[e][i].n] = sent[e][stream[e][i].n]
    BY <1>4, <2>1
  <2> QED
    BY <2>1, <2>2, <2>3
<1>10. WriteInv(e)'
  BY <1>3 DEF WriteInv
<1> QED
  BY <1>6, <1>7, <1>8, <1>9, <1>10

\* Disconnect: the lambda that closes carries no message.
LEMMA WriterDisconnect ==
    ASSUME Types, NEW e \in Ends, WriterInv(e), Disconnect(e)
    PROVE  WriterInv(e)'
<1> DEFINE p == [op |-> "close", n |-> Len(sent[e]), size |-> 0, length |-> 0]
<1>1. sent[e] \in Seq(Message) /\ Len(sent[e]) \in Nat
  BY LenProperties DEF Types
<1>2. p \in Post /\ Sending(p) = 0 /\ p.op # "send" /\ p.n = Len(sent[e])
  BY <1>1 DEF Post, Sending
<1>3. /\ posts'[e] = Append(posts[e], p) /\ sent' = sent /\ queued' = queued
      /\ m_qMessagesOut' = m_qMessagesOut /\ stream' = stream /\ writing' = writing
  BY DEF Disconnect, Types
<1> HIDE DEF p
<1>4. PostsInv(e)'
  BY <1>1, <1>2, <1>3, PostsAppend DEF WriterInv
<1>5. (SentInv(e) /\ QueueInv(e) /\ StreamInv(e) /\ WriteInv(e))'
  BY <1>3 DEF WriterInv, SentInv, QueueInv, StreamInv, WriteInv
<1> QED
  BY <1>4, <1>5 DEF WriterInv

\* A queued message is the message of its number.
LEMMA QueueElement ==
    ASSUME Types, NEW e \in Ends, WriterInv(e), NEW i \in 1 .. Len(m_qMessagesOut[e])
    PROVE  /\ m_qMessagesOut[e][i].n = queued[e] - Len(m_qMessagesOut[e]) + i
           /\ m_qMessagesOut[e][i].n \in 1 .. Len(sent[e])
           /\ Carries(m_qMessagesOut[e][i], sent[e][m_qMessagesOut[e][i].n])
<1> DEFINE j == queued[e] - Len(m_qMessagesOut[e]) + i
<1>1. Len(sent[e]) \in Nat /\ queued[e] \in Nat /\ Len(m_qMessagesOut[e]) \in Nat
  BY LenProperties DEF Types
<1>2. Len(m_qMessagesOut[e]) <= queued[e] /\ queued[e] <= Len(sent[e])
  BY DEF WriterInv, QueueInv, PostsInv
<1>3. j \in 1 .. Len(sent[e])
  BY <1>1, <1>2
<1>4. m_qMessagesOut[e][i] = sent[e][j] /\ sent[e][j].n = j
  BY <1>3 DEF WriterInv, QueueInv, SentInv
<1>5. m_qMessagesOut[e][i].n = j /\ Carries(sent[e][j], sent[e][j])
  BY <1>4 DEF Carries
<1> QED
  BY <1>3, <1>4, <1>5

\* Writing the header of the front of the queue after complete messages only.
LEMMA HeaderStarts ==
    ASSUME NEW e \in Ends,
           (m_qMessagesOut')[e] # <<>>,
           writing'[e].part = "header", writing'[e].status \in {"pending", "error"},
           writing'[e].n = m_qMessagesOut'[e][1].n,
           Carries(writing'[e], m_qMessagesOut'[e][1]),
           AtBoundary(stream[e], Len(stream[e]), writing'[e].n - 1), stream' = stream
    PROVE  WriteInv(e)'
<1>1. AtBoundary(stream'[e], Len(stream'[e]), writing'[e].n - 1)
  BY DEF AtBoundary
<1> QED
  BY <1>1 DEF WriteInv, Doing

\* The lambda of Send: its message is the next of the queue, and if the queue
\* was empty its header follows what is on the wire.
LEMMA WriterSendHandler ==
    ASSUME Types, NEW e \in Ends, WriterInv(e), SendHandler(e)
    PROVE  WriterInv(e)'
<1> DEFINE msg == [n |-> Head(posts[e]).n, size |-> Head(posts[e]).size,
                   length |-> Head(posts[e]).length]
           q == m_qMessagesOut[e]
           queue == Append(q, msg)
<1>1. /\ posts[e] # <<>> /\ Head(posts[e]).op = "send" /\ posts'[e] = Tail(posts[e])
      /\ sent' = sent /\ stream' = stream
      /\ m_qMessagesOut'[e] = queue /\ queued'[e] = queued[e] + 1
      /\ \/ q = <<>> /\ StartWrite(e, "header", Head(queue))
         \/ q # <<>> /\ writing' = writing
  BY DEF SendHandler, QueueAndWrite, application, Types
<1>2. /\ PostsInv(e)' /\ msg.n = queued'[e] /\ msg.n \in 1 .. Len(sent[e])
      /\ Carries(msg, sent[e][msg.n])
  <2>1. Sending(Head(posts[e])) = 1
    BY <1>1 DEF Sending
  <2>2. queued'[e] = queued[e] + Sending(Head(posts[e])) /\ sent'[e] = sent[e]
    BY <1>1, <2>1
  <2> QED
    BY <1>1, <2>2, PostsTail DEF WriterInv, Carries
<1>3. /\ sent[e] \in Seq(Message) /\ Len(sent[e]) \in Nat /\ queued[e] \in Nat
      /\ q \in Seq(Message) /\ Len(q) \in Nat
  BY LenProperties DEF Types
<1>4. msg = sent[e][msg.n] /\ msg \in Message
  <2>1. sent[e][msg.n] \in Message /\ sent[e][msg.n].n = msg.n
    BY <1>2, <1>3, ElementOfSeq DEF WriterInv, SentInv
  <2>2. msg = [n |-> sent[e][msg.n].n, size |-> sent[e][msg.n].size,
               length |-> sent[e][msg.n].length]
    BY <1>2, <2>1 DEF Carries
  <2>3. sent[e][msg.n] = [n |-> sent[e][msg.n].n, size |-> sent[e][msg.n].size,
                          length |-> sent[e][msg.n].length]
    BY <2>1 DEF Message
  <2> QED
    BY <2>1, <2>2, <2>3
<1> HIDE DEF msg
<1>5. /\ Len(queue) = Len(q) + 1 /\ queue[Len(q) + 1] = msg /\ queue # <<>>
      /\ queue \in Seq(Message) /\ \A i \in 1 .. Len(q) : queue[i] = q[i]
  BY <1>3, <1>4, AppendLemma
<1>6. q = <<>> <=> Len(q) = 0
  BY <1>3, EmptySeq
<1>7. Head(queue) = queue[1]
  BY <1>5, HeadTailProperties
<1> HIDE DEF queue, q
<1>8. QueueInv(e)'
  <2>1. Len(q) + 1 <= queued'[e]
    BY <1>1, <1>3 DEF WriterInv, QueueInv, q
  <2>2. ASSUME NEW i \in 1 .. Len(queue)
        PROVE  queue[i] = sent[e][queued'[e] - Len(queue) + i]
    <3>1. CASE i = Len(q) + 1
      <4>1. queued'[e] - Len(queue) + i = queued'[e]
        <5>1. queued'[e] = queued[e] + 1 /\ queued[e] \in Nat /\ Len(queue) = i
          BY <1>1, <1>3, <1>5, <3>1
        <5> QED
          BY ONLY <5>1
      <4> QED
        BY <1>2, <1>4, <1>5, <3>1, <4>1
    <3>2. CASE i # Len(q) + 1
      <4>1. i \in 1 .. Len(q) /\ queued'[e] - Len(queue) + i = queued[e] - Len(q) + i
        <5>1. /\ queued'[e] = queued[e] + 1 /\ queued[e] \in Nat /\ Len(q) \in Nat
              /\ Len(queue) = Len(q) + 1
          BY <1>1, <1>3, <1>5
        <5>2. i \in Nat /\ 1 <= i /\ i <= Len(q) + 1 /\ i # Len(q) + 1
          BY <5>1, <3>2
        <5>3. i \in 1 .. Len(q)
          BY <5>1, <5>2
        <5>4. queued'[e] - Len(queue) = queued[e] - Len(q)
          BY <5>1
        <5> QED
          BY <5>3, <5>4
      <4>2. q[i] = sent[e][queued[e] - Len(q) + i]
        BY <4>1 DEF WriterInv, QueueInv, q
      <4> QED
        BY <1>5, <4>1, <4>2
    <3> QED
      BY <3>1, <3>2
  <2> QED
    BY <1>1, <1>5, <2>1, <2>2 DEF QueueInv
<1>9. WriteInv(e)'
  <2>1. CASE q = <<>>
    <3>1. writing[e].status = "idle"
      BY <2>1 DEF WriterInv, WriteInv, q
    <3>2. AtBoundary(stream[e], Len(stream[e]), queued[e])
      BY <2>1, <3>1 DEF WriterInv, WriteInv, q
    <3>3. queue[1] = msg
      BY <1>5, <1>6, <2>1
    <3>4. /\ writing'[e].part = "header" /\ writing'[e].status \in {"pending", "error"}
          /\ writing'[e].n = msg.n /\ Carries(writing'[e], msg)
      BY <1>1, <1>7, <2>1, <3>3 DEF StartWrite, Started, Types, Carries
    <3>5. writing'[e].n - 1 = queued[e]
      BY <1>1, <1>2, <1>3, <3>4
    <3> QED
      BY <1>1, <1>5, <3>2, <3>3, <3>4, <3>5, HeaderStarts
  <2>2. CASE q # <<>>
    <3>1. queue[1] = q[1]
      BY <1>3, <1>5, <1>6, <2>2
    <3> QED
      BY <1>1, <1>5, <2>2, <3>1 DEF WriterInv, WriteInv, q
  <2> QED
    BY <2>1, <2>2
<1>10. (SentInv(e) /\ StreamInv(e))'
  BY <1>1 DEF WriterInv, SentInv, StreamInv
<1> QED
  BY <1>2, <1>8, <1>9, <1>10 DEF WriterInv

\* Closing the socket aborts the write in progress.
LEMMA WriteAborts ==
    ASSUME Types, NEW e \in Ends, WriteInv(e), writing'[e] = Aborted(writing[e]),
           m_qMessagesOut' = m_qMessagesOut, stream' = stream, queued'[e] = queued[e]
    PROVE  WriteInv(e)'
<1>1. writing[e] \in Write /\ IdleRead \in Read
  BY IdleLemma DEF Types
<1>2. /\ writing'[e].part = writing[e].part /\ writing'[e].n = writing[e].n
      /\ Carries(writing'[e], writing[e])
      /\ writing'[e].status = (IF writing[e].status = "pending" THEN "error"
                               ELSE writing[e].status)
  BY <1>1, AbortLemma DEF Carries
<1> QED
  BY <1>2 DEF WriteInv, Doing, Carries

\* The lambda of Disconnect: the write is aborted, the queue is kept.
LEMMA WriterCloseHandler ==
    ASSUME Types, NEW e \in Ends, WriterInv(e), CloseHandler(e)
    PROVE  WriterInv(e)'
<1>1. /\ posts[e] # <<>> /\ posts'[e] = Tail(posts[e]) /\ queued' = queued
      /\ sent' = sent /\ m_qMessagesOut' = m_qMessagesOut /\ stream' = stream
      /\ writing'[e] = Aborted(writing[e]) /\ Head(posts[e]).op = "close"
  BY DEF CloseHandler, Close, application, Types
<1>2. PostsInv(e)'
  <2>1. Sending(Head(posts[e])) = 0 /\ queued[e] \in Nat
    BY <1>1 DEF Sending, Types
  <2>2. queued'[e] = queued[e] + Sending(Head(posts[e])) /\ sent'[e] = sent[e]
    BY <1>1, <2>1
  <2> QED
    BY <1>1, <2>2, PostsTail DEF WriterInv
<1>3. WriteInv(e)'
  BY <1>1, WriteAborts DEF WriterInv
<1>4. (SentInv(e) /\ QueueInv(e) /\ StreamInv(e))'
  BY <1>1 DEF WriterInv, SentInv, QueueInv, StreamInv
<1> QED
  BY <1>2, <1>3, <1>4 DEF WriterInv

\* The handlers of a failed operation: the front message stays in the queue.
LEMMA WriterErrorHandlers ==
    ASSUME Types, NEW e \in Ends, WriterInv(e),
           WriteErrorHandler(e) \/ ReadErrorHandler(e)
    PROVE  WriterInv(e)'
<1>1. /\ posts' = posts /\ queued' = queued
      /\ sent' = sent /\ m_qMessagesOut' = m_qMessagesOut /\ stream' = stream
  BY DEF WriteErrorHandler, ReadErrorHandler, application
<1>2. WriteInv(e)'
  <2>1. CASE WriteErrorHandler(e)
    <3>1. writing[e].status = "error" /\ writing'[e] = Aborted(IdleWrite)
      BY <2>1 DEF WriteErrorHandler, Close, Types
    <3>2. writing'[e].status = "idle" /\ m_qMessagesOut[e] # <<>>
      BY <3>1 DEF IdleWrite, Aborted, WriterInv, WriteInv
    <3> QED
      BY <1>1, <3>2 DEF WriteInv, Doing
  <2>2. CASE ReadErrorHandler(e)
    <3>1. writing'[e] = Aborted(writing[e])
      BY <2>2 DEF ReadErrorHandler, Close, Types
    <3> QED
      BY <1>1, <3>1, WriteAborts DEF WriterInv
  <2> QED
    BY <2>1, <2>2
<1>3. (SentInv(e) /\ PostsInv(e) /\ QueueInv(e) /\ StreamInv(e))'
  BY <1>1 DEF WriterInv, SentInv, PostsInv, QueueInv, StreamInv
<1> QED
  BY <1>2, <1>3 DEF WriterInv

\* The frame that was written continues the stream.
LEMMA WriterComplete ==
    ASSUME Types, NEW e \in Ends, WriterInv(e), WriteComplete(e)
    PROVE  WriterInv(e)'
<1> DEFINE f == [part |-> writing[e].part, n |-> writing[e].n, size |-> writing[e].size,
                 length |-> writing[e].length]
           st == stream[e]
           front == m_qMessagesOut[e][1]
<1>1. /\ writing[e].status = "pending" /\ stream'[e] = Append(st, f)
      /\ posts' = posts /\ queued' = queued /\ sent' = sent /\ m_qMessagesOut' = m_qMessagesOut
      /\ writing'[e] = [writing[e] EXCEPT !.status = "ok"]
  BY DEF WriteComplete, application, Types
<1>2. writing[e] \in Write /\ st \in Seq(Frame) /\ Len(st) \in Nat /\ (st = <<>> <=> Len(st) = 0)
  BY LenProperties, EmptySeq DEF Types
<1>3. /\ m_qMessagesOut[e] # <<>> /\ writing[e].n = front.n /\ Carries(writing[e], front)
      /\ writing[e].part = "body" => writing[e].length > 0
  BY <1>1 DEF WriterInv, WriteInv
<1>4. /\ writing[e].n \in 1 .. Len(sent[e]) /\ Len(sent[e]) \in Nat
      /\ Carries(writing[e], sent[e][writing[e].n])
  <2>1. m_qMessagesOut[e] \in Seq(Message) /\ Len(sent[e]) \in Nat
    BY LenProperties DEF Types
  <2>2. 1 \in 1 .. Len(m_qMessagesOut[e])
    BY <1>3, <2>1, EmptySeq, LenProperties
  <2> QED
    BY <1>3, <2>1, <2>2, QueueElement DEF Carries
<1>5. f \in Frame /\ f.part = writing[e].part /\ f.n = writing[e].n /\ Carries(f, writing[e])
  BY <1>2, <1>4 DEF Write, Frame, Carries
<1>6. writing[e].part \in {"header", "body"}
  BY <1>2 DEF Write, Parts
<1> HIDE DEF f, st
<1>7. /\ Len(stream'[e]) = Len(st) + 1 /\ stream'[e][Len(st) + 1] = f /\ stream'[e] # <<>>
      /\ \A i \in 1 .. Len(st) : stream'[e][i] = st[i]
  <2>1. /\ Len(Append(st, f)) = Len(st) + 1 /\ Append(st, f)[Len(st) + 1] = f
        /\ Append(st, f) # <<>> /\ \A i \in 1 .. Len(st) : Append(st, f)[i] = st[i]
    BY <1>2, <1>5, AppendLemma
  <2> QED
    BY <1>1, <2>1
<1>8. /\ st = <<>> => IsHeader(f, 1)
      /\ st # <<>> => Follows(st[Len(st)], f)
  <2>1. CASE writing[e].part = "header"
    <3>1. AtBoundary(st, Len(st), writing[e].n - 1)
      BY <1>1, <2>1 DEF WriterInv, WriteInv, Doing, st
    <3>2. ASSUME st = <<>> PROVE IsHeader(f, 1)
      BY <1>2, <1>4, <1>5, <2>1, <3>1, <3>2 DEF AtBoundary, IsHeader
    <3>3. ASSUME st # <<>> PROVE Follows(st[Len(st)], f)
      <4>1. st[Len(st)].n = writing[e].n - 1
            /\ (st[Len(st)].part = "body" \/ st[Len(st)].length = 0)
        BY <1>2, <3>1, <3>3 DEF AtBoundary
      <4>2. st[Len(st)].n + 1 = writing[e].n
        BY <1>4, <4>1
      <4> QED
        BY <1>5, <2>1, <4>1, <4>2 DEF Follows, IsHeader
    <3> QED
      BY <3>2, <3>3
  <2>2. CASE writing[e].part = "body"
    <3>1. st # <<>> /\ IsHeader(st[Len(st)], writing[e].n)
      BY <1>1, <2>2 DEF WriterInv, WriteInv, Doing, st
    <3>2. Carries(st[Len(st)], writing[e])
      <4>1. Len(st) \in 1 .. Len(st)
        BY <1>2, <3>1
      <4>2. Carries(st[Len(st)], sent[e][st[Len(st)].n])
        BY <4>1 DEF WriterInv, StreamInv, st
      <4> QED
        BY <1>4, <3>1, <4>2 DEF IsHeader, Carries
    <3> QED
      BY <1>3, <1>5, <2>2, <3>1, <3>2 DEF Follows, IsHeader, Carries
  <2> QED
    BY <1>6, <2>1, <2>2
<1>9. StreamInv(e)'
  <2>1. ASSUME NEW i \in 1 .. Len(stream'[e])
        PROVE  /\ stream'[e][i].n \in 1 .. Len(sent[e])
               /\ Carries(stream'[e][i], sent[e][stream'[e][i].n])
               /\ stream'[e][i].part = "body" => stream'[e][i].length > 0
    <3>1. CASE i = Len(st) + 1
      BY <1>3, <1>4, <1>5, <1>7, <3>1 DEF Carries
    <3>2. CASE i # Len(st) + 1
      <4>1. i \in 1 .. Len(st)
        BY <1>2, <1>7, <3>2
      <4>2. /\ st[i].n \in 1 .. Len(sent[e]) /\ Carries(st[i], sent[e][st[i].n])
            /\ st[i].part = "body" => st[i].length > 0
        BY <4>1 DEF WriterInv, StreamInv, st
      <4> QED
        BY <1>7, <4>1, <4>2
    <3> QED
      BY <3>1, <3>2
  <2>2. IsHeader(stream'[e][1], 1)
    <3>1. CASE st = <<>>
      <4>1. stream'[e][1] = f
        BY <1>2, <1>7, <3>1
      <4> QED
        BY <1>8, <3>1, <4>1
    <3>2. CASE st # <<>>
      <4>1. 1 \in 1 .. Len(st)
        BY <1>2, <3>2
      <4>2. stream'[e][1] = st[1]
        BY <1>7, <4>1
      <4>3. IsHeader(st[1], 1)
        BY <3>2 DEF WriterInv, StreamInv, st
      <4> QED
        BY <4>2, <4>3 DEF IsHeader
    <3> QED
      BY <3>1, <3>2
  <2>3. ASSUME NEW i \in 1 .. Len(stream'[e]) - 1
        PROVE  Follows(stream'[e][i], stream'[e][i + 1])
    <3>1. CASE i = Len(st)
      <4>1. i \in 1 .. Len(st) /\ st # <<>>
        BY <1>2, <3>1
      <4>2. stream'[e][i] = st[Len(st)] /\ stream'[e][i + 1] = f
        BY <1>7, <3>1, <4>1
      <4> QED
        BY <1>8, <4>1, <4>2
    <3>2. CASE i # Len(st)
      <4>1. i \in 1 .. Len(st) - 1 /\ i \in 1 .. Len(st) /\ i + 1 \in 1 .. Len(st)
        BY <1>2, <1>7, <3>2
      <4>2. stream'[e][i] = st[i] /\ stream'[e][i + 1] = st[i + 1]
        BY <1>7, <4>1
      <4>3. Follows(st[i], st[i + 1])
        BY <4>1 DEF WriterInv, StreamInv, st
      <4> QED
        BY <4>2, <4>3
    <3> QED
      BY <3>1, <3>2
  <2> QED
    BY <1>1, <2>1, <2>2, <2>3 DEF StreamInv
<1>10. WriteInv(e)'
  <2>1. /\ writing'[e].status = "ok" /\ writing'[e].part = writing[e].part
        /\ writing'[e].n = writing[e].n /\ Carries(writing'[e], writing[e])
    BY <1>1, <1>2 DEF Write, Carries
  <2>2. stream'[e][Len(stream'[e])] = f
    BY <1>7
  <2> QED
    BY <1>1, <1>3, <1>5, <1>7, <2>1, <2>2 DEF WriteInv, Doing, Carries
<1>11. (SentInv(e) /\ PostsInv(e) /\ QueueInv(e))'
  BY <1>1 DEF WriterInv, SentInv, PostsInv, QueueInv
<1> QED
  BY <1>9, <1>10, <1>11 DEF WriterInv

\* The handlers of a completed write: the body of the front is next, or the
\* front is popped and the header of the next message follows, if there is one.
LEMMA WriterHandlers ==
    ASSUME Types, NEW e \in Ends, WriterInv(e),
           WriteHeaderHandler(e) \/ WriteBodyHandler(e)
    PROVE  WriterInv(e)'
<1> DEFINE q == m_qMessagesOut[e]
           st == stream[e]
           last == st[Len(st)]
<1>1. /\ posts' = posts /\ queued' = queued /\ sent' = sent /\ stream' = stream
      /\ writing[e].status = "ok"
  BY DEF WriteHeaderHandler, WriteBodyHandler, application
<1>2. /\ q # <<>> /\ writing[e].n = q[1].n /\ Carries(writing[e], q[1])
      /\ st # <<>> /\ last.part = writing[e].part /\ last.n = q[1].n
  BY <1>1 DEF WriterInv, WriteInv
<1>3. /\ q \in Seq(Message) /\ Len(q) \in Nat \ {0} /\ Len(st) \in Nat \ {0}
      /\ st \in Seq(Frame) /\ 1 \in 1 .. Len(q) /\ Len(st) \in 1 .. Len(st)
      /\ queued[e] \in Nat /\ Len(sent[e]) \in Nat
  BY <1>2, LenProperties, EmptySeq DEF Types
<1>4. /\ q[1].n = queued[e] - Len(q) + 1 /\ q[1].n \in 1 .. Len(sent[e])
      /\ Carries(q[1], sent[e][q[1].n])
  BY <1>3, QueueElement
<1>5. Carries(last, q[1])
  <2>1. Carries(last, sent[e][last.n])
    BY <1>3 DEF WriterInv, StreamInv
  <2> QED
    BY <1>2, <1>4, <2>1 DEF Carries
<1>6. Head(q) = q[1]
  BY <1>2, <1>3, FrontLemma
<1>7. ASSUME PopAndWriteNext(e), last.part = "body" \/ last.length = 0
      PROVE  QueueInv(e)' /\ WriteInv(e)'
  <2> DEFINE rest == Tail(q)
  <2>1. /\ m_qMessagesOut'[e] = rest
        /\ \/ rest # <<>> /\ StartWrite(e, "header", Head(rest))
           \/ rest = <<>> /\ NoWrite(e)
    BY <1>7 DEF PopAndWriteNext, Types
  <2>2. /\ rest \in Seq(Message) /\ Len(rest) = Len(q) - 1 /\ (rest = <<>> <=> Len(q) = 1)
        /\ \A i \in 1 .. Len(q) - 1 : rest[i] = q[i + 1]
    BY <1>2, <1>3, TailLemma
  <2>3. AtBoundary(stream[e], Len(stream[e]), q[1].n)
    BY <1>2, <1>3, <1>7 DEF AtBoundary
  <2> HIDE DEF rest, q, st
  <2>4. QueueInv(e)'
    <3>1. Len(rest) <= queued[e]
      BY <1>3, <2>2 DEF WriterInv, QueueInv, q
    <3>2. ASSUME NEW i \in 1 .. Len(rest) PROVE rest[i] = sent[e][queued[e] - Len(rest) + i]
      <4>1. i \in 1 .. Len(q) - 1 /\ i + 1 \in 1 .. Len(q)
            /\ queued[e] - Len(rest) + i = queued[e] - Len(q) + (i + 1)
        <5>1. Len(rest) = Len(q) - 1 /\ Len(q) \in Nat /\ queued[e] \in Nat /\ i \in 1 .. Len(rest)
          BY <1>3, <2>2
        <5> QED
          BY ONLY <5>1
      <4>2. q[i + 1] = sent[e][queued[e] - Len(q) + (i + 1)]
        BY <4>1 DEF WriterInv, QueueInv, q
      <4>3. rest[i] = q[i + 1]
        BY <2>2, <4>1
      <4>4. sent[e][queued[e] - Len(rest) + i] = sent[e][queued[e] - Len(q) + (i + 1)]
        BY <4>1
      <4> QED
        BY <4>2, <4>3, <4>4
    <3> QED
      BY <1>1, <2>1, <3>1, <3>2 DEF QueueInv
  <2>5. CASE rest = <<>>
    <3>1. writing'[e].status = "idle" /\ writing'[e] = IdleWrite
      BY <2>1, <2>5 DEF NoWrite, IdleWrite, Types
    <3>2. q[1].n = queued[e]
      <4>1. Len(q) = 1 /\ queued[e] \in Nat /\ q[1].n = queued[e] - Len(q) + 1
        BY <1>3, <1>4, <2>2, <2>5
      <4> QED
        BY ONLY <4>1
    <3>3. AtBoundary(stream'[e], Len(stream'[e]), queued'[e])
      BY <1>1, <2>3, <3>2
    <3>4. writing'[e].status \notin {"pending", "ok"}
      BY <3>1
    <3>5. WriteInv(e)'
      BY <3>1, <3>3, <3>4 DEF WriteInv, Doing
    <3> QED
      BY <2>4, <3>5
  <2>6. CASE rest # <<>>
    <3>1. 1 \in 1 .. Len(q) - 1 /\ 2 \in 1 .. Len(q)
      BY <1>3, <2>2, <2>6
    <3>2. Head(rest) = rest[1] /\ rest[1] = q[2]
      BY <2>2, <2>6, <3>1, FrontLemma
    <3>3. q[2].n = queued[e] - Len(q) + 2
      BY <3>1, QueueElement DEF q
    <3>4. q[2].n - 1 = q[1].n
      BY <1>3, <1>4, <3>3
    <3>5. /\ writing'[e].part = "header" /\ writing'[e].status \in {"pending", "error"}
          /\ writing'[e].n = rest[1].n /\ Carries(writing'[e], rest[1])
      BY <2>1, <2>6, <3>2 DEF StartWrite, Started, Types, Carries
    <3>6. AtBoundary(stream[e], Len(stream[e]), writing'[e].n - 1)
      BY <2>3, <3>2, <3>4, <3>5
    <3>7. (m_qMessagesOut')[e] # <<>> /\ m_qMessagesOut'[e][1] = rest[1]
      BY <2>1, <2>6
    <3>8. writing'[e].n = m_qMessagesOut'[e][1].n /\ Carries(writing'[e], m_qMessagesOut'[e][1])
      BY <3>5, <3>7
    <3> QED
      BY <1>1, <2>4, <3>5, <3>6, <3>7, <3>8, HeaderStarts
  <2> QED
    BY <2>5, <2>6
<1>8. ASSUME WriteHeaderHandler(e), Head(q).length > 0,
             StartWrite(e, "body", Head(q)), UNCHANGED m_qMessagesOut
      PROVE  QueueInv(e)' /\ WriteInv(e)'
  <2>1. QueueInv(e)'
    BY <1>1, <1>8 DEF WriterInv, QueueInv
  <2>2. /\ writing'[e].part = "body" /\ writing'[e].status \in {"pending", "error"}
        /\ writing'[e].n = q[1].n /\ Carries(writing'[e], q[1])
    BY <1>6, <1>8 DEF StartWrite, Started, Types, Carries
  <2>3. IsHeader(last, q[1].n)
    BY <1>2, <1>8 DEF WriteHeaderHandler, IsHeader
  <2>4. WriteInv(e)'
    BY <1>1, <1>2, <1>6, <1>8, <2>2, <2>3 DEF WriteInv, Doing, Carries
  <2> QED
    BY <2>1, <2>4
<1>9. QueueInv(e)' /\ WriteInv(e)'
  <2>1. CASE WriteBodyHandler(e)
    <3>1. PopAndWriteNext(e) /\ last.part = "body"
      BY <1>2, <2>1 DEF WriteBodyHandler
    <3> QED
      BY <1>7, <3>1
  <2>2. CASE WriteHeaderHandler(e)
    <3>1. \/ Head(q).length > 0 /\ StartWrite(e, "body", Head(q)) /\ UNCHANGED m_qMessagesOut
          \/ last.length = 0 /\ PopAndWriteNext(e)
      BY <1>5, <1>6, <2>2 DEF WriteHeaderHandler, Carries
    <3> QED
      BY <1>7, <1>8, <2>2, <3>1
  <2> QED
    BY <2>1, <2>2
<1>10. (SentInv(e) /\ PostsInv(e) /\ StreamInv(e))'
  BY <1>1 DEF WriterInv, SentInv, PostsInv, StreamInv
<1> QED
  BY <1>9, <1>10 DEF WriterInv

-----------------------------------------------------------------------------
(* The reader of an end *)

Extends(new, old) ==
    Len(old) <= Len(new) /\ \A i \in 1 .. Len(old) : new[i] = old[i]

\* The step reads nothing at e; its peer may have sent and written.
ReaderSame(e) ==
    /\ got'[e] = got[e]
    /\ lost'[e] = lost[e]
    /\ delivered'[e] = delivered[e]
    /\ m_msgTemporaryIn'[e] = m_msgTemporaryIn[e]
    /\ Extends(sent'[Peer(e)], sent[Peer(e)])
    /\ Extends(stream'[Peer(e)], stream[Peer(e)])

\* What an end's own messages and frames are to its peer.
LEMMA ReaderTypes ==
    ASSUME Types, NEW e \in Ends
    PROVE  /\ Peer(e) \in Ends
           /\ sent[Peer(e)] \in Seq(Message) /\ Len(sent[Peer(e)]) \in Nat
           /\ stream[Peer(e)] \in Seq(Frame) /\ Len(stream[Peer(e)]) \in Nat
           /\ delivered[e] \in Seq([head : [n : Nat, size : Nat], body : Nat])
           /\ Len(delivered[e]) \in Nat /\ got[e] \in Nat /\ lost[e] \in BOOLEAN
           /\ m_msgTemporaryIn[e] \in [head : [n : Nat, size : Nat], body : Nat]
           /\ reading[e] \in Read
<1>1. Peer(e) \in Ends
  BY PeerLemma
<1>2. /\ sent[Peer(e)] \in Seq(Message) /\ stream[Peer(e)] \in Seq(Frame)
      /\ delivered[e] \in Seq([head : [n : Nat, size : Nat], body : Nat])
  BY <1>1 DEF Types
<1>3. /\ Len(sent[Peer(e)]) \in Nat /\ Len(stream[Peer(e)]) \in Nat
      /\ Len(delivered[e]) \in Nat
  BY <1>2, LenProperties
<1> QED
  BY <1>1, <1>2, <1>3 DEF Types

\* What was read stays where it is when the peer's history grows.
LEMMA ReaderKept ==
    ASSUME Types, Types', NEW e \in Ends, ReaderInv(e), ReaderSame(e)
    PROVE  /\ DeliveredInv(e)' /\ LostInv(e)' /\ got'[e] <= Len(stream'[Peer(e)])
           /\ Consumed(stream[Peer(e)], got[e], Len(delivered[e]))
                => Consumed(stream'[Peer(e)], got'[e], Len(delivered'[e]))
           /\ got[e] > 0 => got'[e] > 0 /\ stream'[Peer(e)][got'[e]] = stream[Peer(e)][got[e]]
           /\ HeaderRead(e) => HeaderRead(e)'
           /\ LastBody(e)' = LastBody(e)
           /\ m_msgTemporaryIn'[e].head.n \in 0 .. Len(sent'[Peer(e)])
           /\ m_msgTemporaryIn'[e].head.size \in Sizes
           /\ m_msgTemporaryIn'[e].body \in 0 .. Len(sent'[Peer(e)])
<1> DEFINE p == Peer(e)
<1>1. /\ p \in Ends /\ Len(sent[p]) \in Nat /\ Len(stream[p]) \in Nat /\ got[e] \in Nat
      /\ Len(sent'[p]) \in Nat /\ Len(stream'[p]) \in Nat /\ Len(delivered[e]) \in Nat
  BY PeerLemma, LenProperties DEF Types
<1>2. got[e] <= Len(stream[p])
  BY DEF ReaderInv, ReadInv
<1>3. /\ Len(sent[p]) <= Len(sent'[p]) /\ \A i \in 1 .. Len(sent[p]) : sent'[p][i] = sent[p][i]
      /\ Len(stream[p]) <= Len(stream'[p])
      /\ \A i \in 1 .. Len(stream[p]) : stream'[p][i] = stream[p][i]
      /\ got'[e] = got[e] /\ lost'[e] = lost[e] /\ delivered'[e] = delivered[e]
      /\ m_msgTemporaryIn'[e] = m_msgTemporaryIn[e]
  BY DEF ReaderSame, Extends
<1>4. DeliveredInv(e)'
  <2> SUFFICES ASSUME ~lost[e]
               PROVE  /\ Len(delivered'[e]) <= Len(sent'[p])
                      /\ \A i \in 1 .. Len(delivered'[e]) :
                            delivered'[e][i].head = [n |-> i, size |-> sent'[p][i].size]
    BY <1>3 DEF DeliveredInv
  <2>1. /\ Len(delivered[e]) <= Len(sent[p])
        /\ \A i \in 1 .. Len(delivered[e]) :
                delivered[e][i].head = [n |-> i, size |-> sent[p][i].size]
    BY DEF ReaderInv, DeliveredInv
  <2>2. Len(delivered'[e]) <= Len(sent'[p])
    BY <1>1, <1>3, <2>1
  <2>3. ASSUME NEW i \in 1 .. Len(delivered'[e])
        PROVE  delivered'[e][i].head = [n |-> i, size |-> sent'[p][i].size]
    <3>1. i \in 1 .. Len(delivered[e]) /\ i \in 1 .. Len(sent[p])
      BY <1>1, <1>3, <2>1
    <3> QED
      BY <1>3, <2>1, <3>1
  <2> QED
    BY <2>2, <2>3
<1>5. got'[e] <= Len(stream'[p])
  BY <1>1, <1>2, <1>3
<1>6. ASSUME got[e] > 0 PROVE got'[e] > 0 /\ stream'[p][got'[e]] = stream[p][got[e]]
  <2>1. got[e] \in 1 .. Len(stream[p])
    BY <1>1, <1>2, <1>6
  <2> QED
    BY <1>3, <1>6, <2>1
<1>7. ASSUME Consumed(stream[p], got[e], Len(delivered[e]))
      PROVE  Consumed(stream'[p], got'[e], Len(delivered'[e]))
  <2>1. CASE got[e] = 0
    BY <1>3, <1>7, <2>1 DEF Consumed
  <2>2. CASE got[e] > 0
    BY <1>3, <1>6, <1>7, <2>2 DEF Consumed
  <2> QED
    BY <1>1, <2>1, <2>2
<1>8. ASSUME HeaderRead(e) PROVE HeaderRead(e)'
  <2>1. Len(delivered[e]) + 1 \in 1 .. Len(sent[p])
    BY <1>1, <1>8 DEF HeaderRead
  <2>2. Len(delivered'[e]) + 1 <= Len(sent'[p])
    BY <1>1, <1>3, <2>1
  <2>3. sent'[p][Len(delivered'[e]) + 1] = sent[p][Len(delivered[e]) + 1]
    BY <1>3, <2>1
  <2> QED
    BY <1>3, <1>8, <2>2, <2>3 DEF HeaderRead
<1>9. LastBody(e)' = LastBody(e)
  BY <1>3 DEF LastBody
<1>10. LostInv(e)'
  <2> SUFFICES ASSUME lost[e]
               PROVE  /\ m_msgTemporaryIn[e].head.n = 0
                      /\ \E m \in 1 .. Len(delivered[e]) :
                            m <= Len(sent'[p]) /\ sent'[p][m].size # sent'[p][m].length
    BY <1>3 DEF LostInv
  <2>1. m_msgTemporaryIn[e].head.n = 0
    BY DEF ReaderInv, LostInv
  <2>2. PICK m \in 1 .. Len(delivered[e]) :
            m <= Len(sent[p]) /\ sent[p][m].size # sent[p][m].length
    BY DEF ReaderInv, LostInv
  <2>3. m \in 1 .. Len(sent[p]) /\ m <= Len(sent'[p])
    BY <1>1, <1>3, <2>2
  <2>4. sent'[p][m] = sent[p][m]
    BY <1>3, <2>3
  <2> QED
    BY <2>1, <2>2, <2>3, <2>4
<1>11. /\ m_msgTemporaryIn'[e].head.n \in 0 .. Len(sent'[p])
       /\ m_msgTemporaryIn'[e].head.size \in Sizes
       /\ m_msgTemporaryIn'[e].body \in 0 .. Len(sent'[p])
  <2>1. /\ m_msgTemporaryIn[e].head.n \in 0 .. Len(sent[p])
        /\ m_msgTemporaryIn[e].head.size \in Sizes
        /\ m_msgTemporaryIn[e].body \in 0 .. Len(sent[p])
    BY DEF ReaderInv, BufferInv
  <2>2. \A k \in 0 .. Len(sent[p]) : k \in 0 .. Len(sent'[p])
    BY <1>1, <1>3
  <2> QED
    BY <1>3, <2>1, <2>2
<1> QED
  BY <1>4, <1>5, <1>6, <1>7, <1>8, <1>9, <1>10, <1>11

\* A step that reads nothing, though it may end a read that has not completed.
LEMMA ReaderUnchanged ==
    ASSUME Types, Types', NEW e \in Ends, ReaderInv(e), ReaderSame(e),
           \/ reading'[e] = reading[e]
           \/ reading'[e].status \in {"idle", "error"} /\ reading[e].status # "ok"
    PROVE  ReaderInv(e)'
<1>1. DeliveredInv(e)' /\ LostInv(e)' /\ got'[e] <= Len(stream'[Peer(e)])
  BY ReaderKept
<1>2. m_msgTemporaryIn'[e] = m_msgTemporaryIn[e] /\ LastBody(e)' = LastBody(e)
      /\ delivered'[e] = delivered[e] /\ lost'[e] = lost[e]
  BY ReaderKept DEF ReaderSame
<1>3. /\ m_msgTemporaryIn'[e].head.n \in 0 .. Len(sent'[Peer(e)])
      /\ m_msgTemporaryIn'[e].head.size \in Sizes
      /\ m_msgTemporaryIn'[e].body \in 0 .. Len(sent'[Peer(e)])
  BY ReaderKept
<1>4. CASE reading'[e] = reading[e]
  <2>1. BufferInv(e)'
    <3>1. /\ Doing(reading[e], "body", "pending") \/ Doing(reading[e], "body", "ok") =>
                m_msgTemporaryIn[e].head.size > 0
          /\ Doing(reading[e], "body", "ok") =>
                m_msgTemporaryIn[e].body = m_msgTemporaryIn[e].head.n
          /\ ~Doing(reading[e], "body", "ok") => m_msgTemporaryIn[e].body = LastBody(e)
      BY DEF ReaderInv, BufferInv
    <3> QED
      BY <1>2, <1>3, <1>4, <3>1 DEF BufferInv
  <2>2. ASSUME ~lost'[e] PROVE Aligned(e)'
    <3>1. Aligned(e)
      BY <1>2, <2>2 DEF ReaderInv, ReadInv
    <3>2. Doing(reading'[e], "header", "pending")
            => Consumed(stream'[Peer(e)], got'[e], Len(delivered'[e]))
      BY <1>4, <3>1, ReaderKept DEF Aligned
    <3>3. ASSUME Doing(reading'[e], "header", "ok") \/ Doing(reading'[e], "body", "pending")
          PROVE  got'[e] > 0 /\ IsHeader(stream'[Peer(e)][got'[e]], Len(delivered'[e]) + 1)
                 /\ HeaderRead(e)'
      <4>1. got[e] > 0 /\ IsHeader(stream[Peer(e)][got[e]], Len(delivered[e]) + 1)
            /\ HeaderRead(e)
        BY <1>4, <3>1, <3>3 DEF Aligned
      <4>2. got'[e] > 0 /\ stream'[Peer(e)][got'[e]] = stream[Peer(e)][got[e]]
            /\ HeaderRead(e)'
        BY <4>1, ReaderKept
      <4> QED
        BY <1>2, <4>1, <4>2
    <3>4. ASSUME Doing(reading'[e], "body", "ok")
          PROVE  /\ got'[e] > 0
                 /\ stream'[Peer(e)][got'[e]].part = "body"
                 /\ stream'[Peer(e)][got'[e]].n = Len(delivered'[e]) + 1
                 /\ HeaderRead(e)'
      <4>1. /\ got[e] > 0
            /\ stream[Peer(e)][got[e]].part = "body"
            /\ stream[Peer(e)][got[e]].n = Len(delivered[e]) + 1
            /\ HeaderRead(e)
        BY <1>4, <3>1, <3>4 DEF Aligned
      <4>2. got'[e] > 0 /\ stream'[Peer(e)][got'[e]] = stream[Peer(e)][got[e]]
            /\ HeaderRead(e)'
        BY <4>1, ReaderKept
      <4> QED
        BY <1>2, <4>1, <4>2
    <3> QED
      BY <3>2, <3>3, <3>4 DEF Aligned
  <2> QED
    BY <1>1, <2>1, <2>2 DEF ReaderInv, ReadInv
<1>5. CASE reading'[e].status \in {"idle", "error"} /\ reading[e].status # "ok"
  <2>1. m_msgTemporaryIn[e].body = LastBody(e)
    BY <1>5 DEF ReaderInv, BufferInv, Doing
  <2>2. BufferInv(e)'
    BY <1>2, <1>3, <1>5, <2>1 DEF BufferInv, Doing
  <2>3. ReadInv(e)'
    BY <1>1, <1>5 DEF ReadInv, Aligned, Doing
  <2> QED
    BY <1>1, <2>2, <2>3 DEF ReaderInv
<1> QED
  BY <1>4, <1>5

\* ConnectHandler and Accept: the first read waits for the first frame.
LEMMA ReaderStarts ==
    ASSUME Types, Types', NEW e \in Ends, ReaderInv(e), ReaderSame(e), Unread(e),
           reading'[e].part = "header", reading'[e].status \in {"pending", "error"}
    PROVE  ReaderInv(e)'
<1>1. DeliveredInv(e)' /\ LostInv(e)' /\ got'[e] <= Len(stream'[Peer(e)])
  BY ReaderKept
<1>2. /\ m_msgTemporaryIn'[e] = m_msgTemporaryIn[e] /\ LastBody(e)' = LastBody(e)
      /\ got'[e] = 0 /\ delivered'[e] = <<>>
  BY ReaderKept DEF ReaderSame, Unread
<1>3. Consumed(stream'[Peer(e)], got'[e], Len(delivered'[e]))
  BY <1>2, EmptySeq DEF Consumed
<1>4. m_msgTemporaryIn[e].body = LastBody(e)
  BY DEF ReaderInv, BufferInv, Unread, Doing
<1>5. /\ m_msgTemporaryIn'[e].head.n \in 0 .. Len(sent'[Peer(e)])
      /\ m_msgTemporaryIn'[e].head.size \in Sizes
      /\ m_msgTemporaryIn'[e].body \in 0 .. Len(sent'[Peer(e)])
  BY ReaderKept
<1>6. BufferInv(e)'
  BY <1>2, <1>4, <1>5 DEF BufferInv, Doing
<1>7. ReadInv(e)'
  BY <1>1, <1>3 DEF ReadInv, Aligned, Doing
<1> QED
  BY <1>1, <1>6, <1>7 DEF ReaderInv

\* What the next frame of the peer is to a reader that has kept its place.
LEMMA NextFrame ==
    ASSUME Types, NEW e \in Ends, WriterInv(Peer(e)), ReaderInv(e), ~lost[e],
           reading[e].status = "pending", got[e] < Len(stream[Peer(e)])
    PROVE  /\ reading[e].part = "header" /\ ~AtOther(e) =>
                IsHeader(stream[Peer(e)][got[e] + 1], Len(delivered[e]) + 1)
           /\ reading[e].part = "header" /\ AtOther(e) =>
                \E m \in 1 .. Len(delivered[e]) :
                    /\ m <= Len(sent[Peer(e)])
                    /\ sent[Peer(e)][m].size # sent[Peer(e)][m].length
           /\ reading[e].part = "body" =>
                /\ stream[Peer(e)][got[e] + 1].part = "body"
                /\ stream[Peer(e)][got[e] + 1].n = Len(delivered[e]) + 1
<1> DEFINE p == Peer(e)
           st == stream[p]
           g == got[e]
           f == st[g + 1]
           count == Len(delivered[e])
<1>1. /\ p \in Ends /\ Len(sent[p]) \in Nat /\ Len(st) \in Nat /\ g \in Nat /\ count \in Nat
      /\ st \in Seq(Frame) /\ reading[e] \in Read
  BY ReaderTypes
<1>2. g + 1 \in 1 .. Len(st)
  BY <1>1
<1>3. f.part \in {"header", "body"}
  <2>1. f \in Frame
    BY <1>1, <1>2, ElementOfSeq
  <2> QED
    BY <2>1 DEF Frame, Parts
<1>4. ASSUME g > 0
      PROVE  /\ Follows(st[g], f) /\ Carries(st[g], sent[p][st[g].n])
             /\ st[g].n \in 1 .. Len(sent[p]) /\ st[g].part \in {"header", "body"}
             /\ st[g].size \in Nat /\ st[g].length \in Nat
  <2>1. g \in 1 .. Len(st) - 1 /\ g \in 1 .. Len(st)
    BY <1>1, <1>2, <1>4
  <2>2. st[g] \in Frame
    BY <1>1, <2>1, ElementOfSeq
  <2> QED
    BY <2>1, <2>2 DEF WriterInv, StreamInv, Frame, Parts
<1>5. Aligned(e)
  BY DEF ReaderInv, ReadInv
<1>6. AtOther(e) <=> f.part # reading[e].part
  BY DEF AtOther
<1>7. CASE reading[e].part = "header"
  <2>1. Consumed(st, g, count)
    BY <1>5, <1>7 DEF Aligned, Doing
  <2>2. CASE g = 0
    <3>1. count = 0 /\ st # <<>> /\ f = st[1]
      BY <1>1, <1>2, <2>1, <2>2, EmptySeq DEF Consumed
    <3>2. IsHeader(st[1], 1)
      BY <3>1 DEF WriterInv, StreamInv
    <3> QED
      BY <1>6, <1>7, <3>1, <3>2 DEF IsHeader
  <2>3. CASE g > 0
    <3>1. st[g].n = count /\ (st[g].part = "body" \/ st[g].size = 0)
      BY <2>1, <2>3 DEF Consumed
    <3>2. CASE st[g].part = "header" /\ st[g].length > 0
      <4>1. f.part = "body" /\ st[g].size = 0
        BY <1>4, <2>3, <3>1, <3>2 DEF Follows
      <4>2. sent[p][count].size # sent[p][count].length
        BY <1>4, <2>3, <3>1, <3>2, <4>1 DEF Carries
      <4>3. count \in 1 .. Len(delivered[e]) /\ count <= Len(sent[p])
        BY <1>1, <1>4, <2>3, <3>1
      <4> QED
        BY <1>6, <1>7, <4>1, <4>2, <4>3
    <3>3. CASE ~(st[g].part = "header" /\ st[g].length > 0)
      <4>1. IsHeader(f, count + 1)
        BY <1>4, <2>3, <3>1, <3>3 DEF Follows
      <4> QED
        BY <1>6, <1>7, <4>1 DEF IsHeader
    <3> QED
      BY <3>2, <3>3
  <2> QED
    BY <1>1, <2>2, <2>3
<1>8. CASE reading[e].part = "body"
  <2>1. g > 0 /\ IsHeader(st[g], count + 1) /\ HeaderRead(e)
    BY <1>5, <1>8 DEF Aligned, Doing
  <2>2. m_msgTemporaryIn[e].head.size > 0
    BY <1>8 DEF ReaderInv, BufferInv, Doing
  <2>3. sent[p][count + 1].size > 0
    BY <2>1, <2>2 DEF HeaderRead
  <2>4. st[g].n = count + 1 /\ st[g].length = sent[p][count + 1].length
    BY <1>4, <2>1 DEF IsHeader, Carries
  <2>5. sent[p][count + 1].length > 0
    <3>1. count + 1 \in 1 .. Len(sent[p])
      BY <1>4, <2>1, <2>4
    <3> QED
      BY <2>3, <3>1 DEF WriterInv, SentInv
  <2> QED
    BY <1>4, <1>8, <2>1, <2>4, <2>5 DEF Follows, IsHeader
<1> QED
  BY <1>1, <1>7, <1>8 DEF Read, Parts

\* A frame arrives: the header of the next message, or the body its header
\* announced.
LEMMA ReaderComplete ==
    ASSUME Types, Types', NEW e \in Ends, WriterInv(Peer(e)), ReaderInv(e), ReadComplete(e)
    PROVE  ReaderInv(e)'
<1> DEFINE p == Peer(e)
           st == stream[p]
           g == got[e]
           f == st[g + 1]
           count == Len(delivered[e])
           msg == m_msgTemporaryIn[e]
<1>1. /\ p \in Ends /\ Len(sent[p]) \in Nat /\ Len(st) \in Nat /\ g \in Nat /\ count \in Nat
      /\ msg \in [head : [n : Nat, size : Nat], body : Nat] /\ reading[e] \in Read
  BY ReaderTypes
<1>2. /\ reading[e].status = "pending" /\ g < Len(st) /\ ~lost[e] /\ ~AtOther(e)
      /\ got'[e] = g + 1 /\ stream' = stream /\ sent' = sent /\ delivered' = delivered
      /\ lost' = lost
      /\ reading'[e].part = reading[e].part /\ reading'[e].status = "ok"
      /\ m_msgTemporaryIn'[e] =
            IF reading[e].part = "header"
            THEN [msg EXCEPT !.head = [n |-> f.n, size |-> f.size]]
            ELSE [msg EXCEPT !.body = f.n]
  BY DEF ReadComplete, application, Types, Read
<1>3. g + 1 \in 1 .. Len(st) /\ g + 1 > 0 /\ g + 1 <= Len(st)
  BY <1>1, <1>2
<1>4. f.n \in 1 .. Len(sent[p]) /\ f.size = sent[p][f.n].size /\ f.size \in Sizes
  BY <1>3 DEF WriterInv, StreamInv, SentInv, Carries
<1>5. f.n \in 0 .. Len(sent[p])
  BY <1>4
<1>6. DeliveredInv(e)' /\ LostInv(e)' /\ LastBody(e)' = LastBody(e)
  BY <1>2 DEF ReaderInv, DeliveredInv, LostInv, LastBody
<1>7. /\ msg.head.n \in 0 .. Len(sent[p]) /\ msg.head.size \in Sizes
      /\ msg.body \in 0 .. Len(sent[p])
  BY DEF ReaderInv, BufferInv
<1>8. CASE reading[e].part = "header"
  <2>1. msg.body = LastBody(e)
    BY <1>8 DEF ReaderInv, BufferInv, Doing
  <2>2. IsHeader(f, count + 1)
    BY <1>2, <1>8, NextFrame
  <2>3. m_msgTemporaryIn'[e].head.n = f.n /\ m_msgTemporaryIn'[e].head.size = f.size
        /\ m_msgTemporaryIn'[e].body = msg.body
    BY <1>1, <1>2, <1>8
  <2>4. HeaderRead(e)'
    <3>1. f.n = count + 1 /\ count + 1 <= Len(sent[p])
      BY <1>1, <1>4, <2>2 DEF IsHeader
    <3> QED
      BY <1>2, <1>4, <2>3, <3>1 DEF HeaderRead
  <2>5. reading'[e].part = "header" /\ reading'[e].status = "ok"
    BY <1>2, <1>8
  <2>6. BufferInv(e)'
    BY <1>2, <1>4, <1>5, <1>6, <1>7, <2>1, <2>3, <2>5 DEF BufferInv, Doing
  <2>7. ReadInv(e)'
    BY <1>2, <1>3, <2>2, <2>4, <2>5 DEF ReadInv, Aligned, Doing
  <2> QED
    BY <1>6, <2>6, <2>7 DEF ReaderInv
<1>9. CASE reading[e].part = "body"
  <2>1. HeaderRead(e) /\ msg.head.size > 0
    BY <1>2, <1>9 DEF ReaderInv, ReadInv, Aligned, BufferInv, Doing
  <2>2. f.part = "body" /\ f.n = count + 1
    BY <1>2, <1>9, NextFrame
  <2>3. m_msgTemporaryIn'[e].head = msg.head /\ m_msgTemporaryIn'[e].body = f.n
    BY <1>1, <1>2, <1>9
  <2>4. HeaderRead(e)' /\ msg.head.n = count + 1
    BY <1>2, <2>1, <2>3 DEF HeaderRead
  <2>5. reading'[e].part = "body" /\ reading'[e].status = "ok"
    BY <1>2, <1>9
  <2>6. BufferInv(e)'
    BY <1>2, <1>5, <1>7, <2>1, <2>2, <2>3, <2>4, <2>5 DEF BufferInv, Doing
  <2>7. ReadInv(e)'
    BY <1>2, <1>3, <2>2, <2>4, <2>5 DEF ReadInv, Aligned, Doing
  <2> QED
    BY <1>6, <2>6, <2>7 DEF ReaderInv
<1> QED
  BY <1>1, <1>8, <1>9 DEF Read, Parts

\* A body that no header announced is taken for a header: the frames are lost.
LEMMA ReaderMisreads ==
    ASSUME Types, Types', NEW e \in Ends, WriterInv(Peer(e)), ReaderInv(e), Misread(e)
    PROVE  ReaderInv(e)'
<1> DEFINE p == Peer(e)
           msg == m_msgTemporaryIn[e]
<1>1. /\ Len(sent[p]) \in Nat /\ msg \in [head : [n : Nat, size : Nat], body : Nat]
      /\ reading[e] \in Read /\ lost[e] \in BOOLEAN
  BY ReaderTypes
<1>2. /\ reading[e].status = "pending" /\ (lost[e] \/ AtOther(e))
      /\ got' = got /\ stream' = stream /\ sent' = sent /\ delivered' = delivered
      /\ reading'[e].part = reading[e].part /\ reading'[e].status = "ok"
  BY DEF Misread, application, Types, Read
<1>3. /\ lost[e] \/ reading[e].part = "header"
      /\ \E m \in 1 .. Len(delivered[e]) :
            m <= Len(sent[p]) /\ sent[p][m].size # sent[p][m].length
  <2>1. CASE lost[e]
    BY <2>1 DEF ReaderInv, LostInv
  <2>2. CASE ~lost[e]
    <3>1. AtOther(e) /\ reading[e].status = "pending"
      BY <2>2 DEF Misread
    <3>2. got[e] < Len(stream[p]) /\ stream[p][got[e] + 1].part # reading[e].part
      BY <3>1 DEF AtOther
    <3>3. reading[e].part = "header"
      BY <1>1, <2>2, <3>1, <3>2, NextFrame DEF Read, Parts
    <3> QED
      BY <2>2, <3>1, <3>2, <3>3, NextFrame
  <2> QED
    BY <2>1, <2>2
<1>4. DeliveredInv(e)' /\ LastBody(e)' = LastBody(e)
  BY <1>2 DEF Misread, DeliveredInv, LastBody, Types
<1>5. /\ msg.head.n \in 0 .. Len(sent[p]) /\ msg.head.size \in Sizes
      /\ msg.body \in 0 .. Len(sent[p]) /\ 0 \in 0 .. Len(sent[p])
  BY <1>1 DEF ReaderInv, BufferInv
<1>6. lost'[e]
  BY DEF Misread, Types
<1>7. ReadInv(e)'
  BY <1>2, <1>6 DEF ReaderInv, ReadInv
<1>8. CASE reading[e].part = "header"
  <2>1. PICK size \in Sizes : m_msgTemporaryIn' =
            [m_msgTemporaryIn EXCEPT ![e] = [@ EXCEPT !.head = [n |-> 0, size |-> size]]]
    BY <1>8 DEF Misread
  <2>2. /\ m_msgTemporaryIn'[e].head.n = 0 /\ m_msgTemporaryIn'[e].head.size = size
        /\ m_msgTemporaryIn'[e].body = msg.body
    BY <1>1, <2>1 DEF Types
  <2>3. msg.body = LastBody(e)
    BY <1>8 DEF ReaderInv, BufferInv, Doing
  <2>4. BufferInv(e)'
    BY <1>2, <1>4, <1>5, <1>8, <2>2, <2>3 DEF BufferInv, Doing
  <2>5. LostInv(e)'
    BY <1>2, <1>3, <2>2 DEF LostInv
  <2> QED
    BY <1>4, <1>7, <2>4, <2>5 DEF ReaderInv
<1>9. CASE reading[e].part = "body"
  <2>1. m_msgTemporaryIn' = [m_msgTemporaryIn EXCEPT ![e] = [@ EXCEPT !.body = 0]]
    BY <1>9 DEF Misread
  <2>2. m_msgTemporaryIn'[e].head = msg.head /\ m_msgTemporaryIn'[e].body = 0
    BY <1>1, <2>1 DEF Types
  <2>3. msg.head.n = 0 /\ msg.head.size > 0
    <3>1. lost[e] /\ Doing(reading[e], "body", "pending")
      BY <1>2, <1>3, <1>9 DEF Doing
    <3> QED
      BY <3>1 DEF ReaderInv, LostInv, BufferInv
  <2>4. BufferInv(e)'
    BY <1>2, <1>5, <1>9, <2>2, <2>3 DEF BufferInv, Doing
  <2>5. LostInv(e)'
    BY <1>2, <1>3, <2>2, <2>3 DEF LostInv
  <2> QED
    BY <1>4, <1>7, <2>4, <2>5 DEF ReaderInv
<1> QED
  BY <1>1, <1>8, <1>9 DEF Read, Parts

\* The two places in ReadHeaderHandler and ReadBodyHandler that deliver.
Delivers(e) ==
    /\ reading[e].status = "ok"
    /\ reading[e].part = "body" \/ m_msgTemporaryIn[e].head.size = 0
    /\ AddToIncomingMessageQueue(e)
    /\ UNCHANGED <<setup, open, posts, m_qMessagesOut, writing, m_msgTemporaryIn, stream,
                   got, lost, application, queued, overlap>>

\* What is delivered has its own body or the last one.
LEMMA NextBody ==
    ASSUME Types, NEW e \in Ends, ReaderInv(e), Delivers(e)
    PROVE  m_msgTemporaryIn[e].body = IF m_msgTemporaryIn[e].head.size > 0
                                      THEN m_msgTemporaryIn[e].head.n ELSE LastBody(e)
<1>1. reading[e].part \in {"header", "body"} /\ m_msgTemporaryIn[e].head.size \in Nat
  BY ReaderTypes DEF Read, Parts
<1>2. \/ reading[e].part = "header" /\ m_msgTemporaryIn[e].head.size = 0
      \/ Doing(reading[e], "body", "ok")
  BY <1>1 DEF Delivers, Doing
<1>3. CASE Doing(reading[e], "body", "ok")
  <2>1. /\ m_msgTemporaryIn[e].head.size > 0
        /\ m_msgTemporaryIn[e].body = m_msgTemporaryIn[e].head.n
    BY <1>3 DEF ReaderInv, BufferInv
  <2> QED
    BY <2>1
<1>4. CASE reading[e].part = "header" /\ m_msgTemporaryIn[e].head.size = 0
  <2>1. m_msgTemporaryIn[e].body = LastBody(e)
    BY <1>4 DEF ReaderInv, BufferInv, Doing
  <2> QED
    BY <1>4, <2>1
<1> QED
  BY <1>2, <1>3, <1>4

\* What is delivered is the next message of the peer, unless the frames are lost.
LEMMA NextMessage ==
    ASSUME Types, NEW e \in Ends, WriterInv(Peer(e)), ReaderInv(e), Delivers(e), ~lost[e]
    PROVE  /\ Len(delivered[e]) + 1 <= Len(sent[Peer(e)])
           /\ m_msgTemporaryIn[e].head.n = Len(delivered[e]) + 1
           /\ m_msgTemporaryIn[e].head.size = sent[Peer(e)][Len(delivered[e]) + 1].size
           /\ Consumed(stream[Peer(e)], got[e], Len(delivered[e]) + 1)
<1> DEFINE p == Peer(e)
           f == stream[p][got[e]]
           msg == m_msgTemporaryIn[e]
           n == Len(delivered[e]) + 1
<1>1. /\ Len(stream[p]) \in Nat /\ got[e] \in Nat /\ Len(delivered[e]) \in Nat
      /\ reading[e] \in Read
  BY ReaderTypes
<1>2. Aligned(e)
  BY DEF ReaderInv, ReadInv
<1>3. /\ got[e] > 0 /\ HeaderRead(e) /\ f.n = n
      /\ f.part = "body" \/ msg.head.size = 0
  BY <1>1, <1>2 DEF Delivers, Aligned, Doing, IsHeader, Read, Parts
<1>4. Consumed(stream[p], got[e], n)
  <2>1. got[e] \in 1 .. Len(stream[p])
    BY <1>1, <1>3 DEF ReaderInv, ReadInv
  <2>2. f.size = sent[p][f.n].size
    BY <2>1 DEF WriterInv, StreamInv, Carries
  <2>3. f.size = msg.head.size
    BY <1>3, <2>2 DEF HeaderRead
  <2> QED
    BY <1>3, <2>3 DEF Consumed
<1> QED
  BY <1>3, <1>4 DEF HeaderRead

\* BodyOwnOrStale for one end.
OwnOrStale(e) ==
    \A i \in 1 .. Len(delivered[e]) :
        delivered[e][i].body =
            IF delivered[e][i].head.size > 0 THEN delivered[e][i].head.n
            ELSE IF i = 1 THEN 0 ELSE delivered[e][i - 1].body

\* AddToIncomingMessageQueue keeps the order and the bodies of the messages,
\* and the next read waits for the next header.
LEMMA ReaderDelivers ==
    ASSUME Types, NEW e \in Ends, WriterInv(Peer(e)), ReaderInv(e), OwnOrStale(e), Delivers(e)
    PROVE  ReaderInv(e)' /\ OwnOrStale(e)'
<1> DEFINE p == Peer(e)
           d == delivered[e]
           msg == m_msgTemporaryIn[e]
           Temp == [head : [n : Nat, size : Nat], body : Nat]
<1>1. /\ p \in Ends /\ Len(sent[p]) \in Nat /\ got[e] \in Nat /\ Len(d) \in Nat
      /\ d \in Seq(Temp) /\ msg \in Temp
  BY ReaderTypes
<1>2. msg.body = (IF msg.head.size > 0 THEN msg.head.n ELSE LastBody(e))
  BY NextBody
<1>3. /\ stream' = stream /\ sent' = sent /\ got' = got /\ m_msgTemporaryIn' = m_msgTemporaryIn
      /\ lost' = lost /\ delivered'[e] = Append(d, msg)
      /\ reading'[e].part = "header" /\ reading'[e].status \in {"pending", "error"}
  BY DEF Delivers, AddToIncomingMessageQueue, StartRead, Started, application, Types
<1>4. /\ Len(delivered'[e]) = Len(d) + 1 /\ delivered'[e][Len(d) + 1] = msg
      /\ \A i \in 1 .. Len(d) : delivered'[e][i] = d[i]
      /\ delivered'[e] # <<>>
  <2>1. /\ Len(Append(d, msg)) = Len(d) + 1 /\ Append(d, msg)[Len(d) + 1] = msg
        /\ \A i \in 1 .. Len(d) : Append(d, msg)[i] = d[i]
        /\ Append(d, msg) # <<>>
    BY <1>1, AppendLemma
  <2> QED
    BY <1>3, <2>1
<1>5. ASSUME NEW i \in 1 .. Len(delivered'[e]) PROVE i \in 1 .. Len(d) \/ i = Len(d) + 1
  BY <1>1, <1>4
<1>6. DeliveredInv(e)'
  <2> SUFFICES ASSUME ~lost[e]
               PROVE  /\ Len(delivered'[e]) <= Len(sent[p])
                      /\ \A i \in 1 .. Len(delivered'[e]) :
                            delivered'[e][i].head = [n |-> i, size |-> sent[p][i].size]
    BY <1>3 DEF DeliveredInv
  <2>1. /\ Len(d) + 1 <= Len(sent[p]) /\ msg.head.n = Len(d) + 1
        /\ msg.head.size = sent[p][Len(d) + 1].size
    BY NextMessage
  <2>2. msg.head = [n |-> Len(d) + 1, size |-> sent[p][Len(d) + 1].size]
    <3>1. msg.head \in [n : Nat, size : Nat]
      BY <1>1
    <3> QED
      BY <2>1, <3>1
  <2>3. ASSUME NEW i \in 1 .. Len(delivered'[e])
        PROVE  delivered'[e][i].head = [n |-> i, size |-> sent[p][i].size]
    <3>1. CASE i \in 1 .. Len(d)
      BY <1>4, <3>1 DEF ReaderInv, DeliveredInv
    <3>2. CASE i = Len(d) + 1
      BY <1>4, <2>2, <3>2
    <3> QED
      BY <1>5, <3>1, <3>2
  <2> QED
    BY <1>4, <2>1, <2>3
<1>7. LostInv(e)'
  <2> SUFFICES ASSUME lost[e]
               PROVE  /\ msg.head.n = 0
                      /\ \E m \in 1 .. Len(delivered'[e]) :
                            m <= Len(sent[p]) /\ sent[p][m].size # sent[p][m].length
    BY <1>3 DEF LostInv
  <2>1. PICK m \in 1 .. Len(d) : m <= Len(sent[p]) /\ sent[p][m].size # sent[p][m].length
    BY DEF ReaderInv, LostInv
  <2>2. m \in 1 .. Len(delivered'[e])
    BY <1>1, <1>4
  <2>3. msg.head.n = 0
    BY DEF ReaderInv, LostInv
  <2> QED
    BY <2>1, <2>2, <2>3
<1>8. BufferInv(e)'
  <2>1. /\ msg.head.n \in 0 .. Len(sent[p]) /\ msg.head.size \in Sizes
        /\ msg.body \in 0 .. Len(sent[p])
    BY DEF ReaderInv, BufferInv
  <2>2. msg.body = LastBody(e)'
    BY <1>4 DEF LastBody
  <2> QED
    BY <1>3, <2>1, <2>2 DEF BufferInv, Doing
<1>9. ReadInv(e)'
  <2>1. got'[e] <= Len(stream'[p])
    BY <1>3 DEF ReaderInv, ReadInv
  <2>2. ~lost[e] => Consumed(stream'[p], got'[e], Len(delivered'[e]))
    BY <1>3, <1>4, NextMessage
  <2> QED
    BY <1>3, <2>1, <2>2 DEF ReadInv, Aligned, Doing
<1>10. OwnOrStale(e)'
  <2> SUFFICES ASSUME NEW i \in 1 .. Len(delivered'[e])
               PROVE  delivered'[e][i].body =
                        IF delivered'[e][i].head.size > 0 THEN delivered'[e][i].head.n
                        ELSE IF i = 1 THEN 0 ELSE delivered'[e][i - 1].body
    BY DEF OwnOrStale
  <2>1. CASE i \in 1 .. Len(d)
    <3>1. i # 1 => delivered'[e][i - 1] = d[i - 1]
      <4>1. i # 1 => i - 1 \in 1 .. Len(d)
        BY <1>1, <2>1
      <4> QED
        BY <1>4, <4>1
    <3>2. d[i].body = IF d[i].head.size > 0 THEN d[i].head.n
                      ELSE IF i = 1 THEN 0 ELSE d[i - 1].body
      BY <2>1 DEF OwnOrStale
    <3>3. delivered'[e][i] = d[i]
      BY <1>4, <2>1
    <3> QED
      BY <3>1, <3>2, <3>3
  <2>2. CASE i = Len(d) + 1
    <3>1. delivered'[e][i] = msg
      BY <1>4, <2>2
    <3>2. LastBody(e) = IF i = 1 THEN 0 ELSE delivered'[e][i - 1].body
      <4>1. CASE d = <<>>
        <5>1. i = 1
          BY <2>2, <4>1, EmptySeq
        <5> QED
          BY <4>1, <5>1 DEF LastBody
      <4>2. CASE d # <<>>
        <5>1. Len(d) \in 1 .. Len(d) /\ i # 1 /\ i - 1 = Len(d)
          BY <1>1, <2>2, <4>2, EmptySeq
        <5>2. delivered'[e][i - 1] = d[Len(d)]
          BY <1>4, <5>1
        <5> QED
          BY <4>2, <5>1, <5>2 DEF LastBody
      <4> QED
        BY <4>1, <4>2
    <3> QED
      BY <1>2, <3>1, <3>2
  <2> QED
    BY <1>5, <2>1, <2>2
<1> QED
  BY <1>6, <1>7, <1>8, <1>9, <1>10 DEF ReaderInv

\* The handlers of a completed read deliver, or they start to read the body.
LEMMA ReadHandlers ==
    ASSUME Types, NEW e \in Ends, ReadHeaderHandler(e) \/ ReadBodyHandler(e)
    PROVE  \/ Delivers(e)
           \/ /\ reading[e].status = "ok" /\ reading[e].part = "header"
              /\ m_msgTemporaryIn[e].head.size > 0
              /\ StartRead(e, "body") /\ delivered' = delivered
              /\ UNCHANGED <<setup, open, posts, m_qMessagesOut, writing, m_msgTemporaryIn,
                             stream, got, lost, application, queued, overlap>>
BY DEF ReadHeaderHandler, ReadBodyHandler, Delivers

\* ReadHeaderHandler of a message with a body.
LEMMA ReaderReadsBody ==
    ASSUME Types, NEW e \in Ends, ReaderInv(e),
           reading[e].status = "ok", reading[e].part = "header",
           m_msgTemporaryIn[e].head.size > 0,
           StartRead(e, "body"), delivered' = delivered, got' = got, lost' = lost,
           sent' = sent, stream' = stream, m_msgTemporaryIn' = m_msgTemporaryIn
    PROVE  ReaderInv(e)'
<1>1. reading'[e].part = "body" /\ reading'[e].status \in {"pending", "error"}
  BY DEF StartRead, Started, Types
<1>2. DeliveredInv(e)' /\ LostInv(e)' /\ LastBody(e)' = LastBody(e)
  BY DEF ReaderInv, DeliveredInv, LostInv, LastBody
<1>3. BufferInv(e)'
  BY <1>1, <1>2 DEF ReaderInv, BufferInv, Doing
<1>4. ASSUME ~lost[e] PROVE Aligned(e)'
  <2>1. /\ got[e] > 0 /\ IsHeader(stream[Peer(e)][got[e]], Len(delivered[e]) + 1)
        /\ HeaderRead(e)
    BY <1>4 DEF ReaderInv, ReadInv, Aligned, Doing
  <2>2. HeaderRead(e)'
    BY <2>1 DEF HeaderRead
  <2> QED
    BY <1>1, <2>1, <2>2 DEF Aligned, Doing
<1>5. ReadInv(e)'
  BY <1>4 DEF ReaderInv, ReadInv
<1> QED
  BY <1>2, <1>3, <1>5 DEF ReaderInv

-----------------------------------------------------------------------------
(* Every step *)

\* The actions of end e that neither write nor queue nor send.
LEMMA WriterFrame ==
    ASSUME Types, NEW e \in Ends,
           \/ ConnectToServer \/ ConnectComplete \/ ConnectHandler \/ Accept \/ Reject
           \/ \E x \in Ends : ReadComplete(x) \/ Misread(x) \/ ReadError(x)
                              \/ ReadHeaderHandler(x) \/ ReadBodyHandler(x)
           \/ UNCHANGED vars
    PROVE  WriterSame(e) /\ writing'[e] = writing[e]
BY DEF ConnectToServer, ConnectComplete, ConnectHandler, Accept, Reject, ReadComplete,
       Misread, ReadError, ReadHeaderHandler, ReadBodyHandler, vars, application, WriterSame

\* Steps of one end leave the writer of the other alone.
LEMMA WriterOther ==
    ASSUME Types, NEW e \in Ends, NEW x \in Ends, x # e,
           Handler(x) \/ External(x) \/ Application(x)
    PROVE  WriterSame(e) /\ writing'[e] = writing[e]
<1>1. CASE Application(x)
  BY <1>1 DEF Types, Application, Send, Disconnect, WriterSame
<1>2. CASE External(x)
  BY <1>2 DEF Types, External, WriteComplete, WriteError, ReadComplete, Misread,
              ReadError, application, WriterSame
<1>3. CASE SendHandler(x) \/ CloseHandler(x)
  BY <1>3 DEF Types, SendHandler, QueueAndWrite, CloseHandler, StartWrite, Close, application,
              WriterSame
<1>4. CASE WriteHeaderHandler(x) \/ WriteBodyHandler(x) \/ WriteErrorHandler(x)
  BY <1>4 DEF Types, WriteHeaderHandler, WriteBodyHandler, WriteErrorHandler, PopAndWriteNext,
              StartWrite, NoWrite, Close, application, WriterSame
<1>5. CASE ReadHeaderHandler(x) \/ ReadBodyHandler(x) \/ ReadErrorHandler(x)
  BY <1>5 DEF Types, ReadHeaderHandler, ReadBodyHandler, ReadErrorHandler, Close, application,
              WriterSame
<1> QED
  BY <1>1, <1>2, <1>3, <1>4, <1>5 DEF Handler

\* Every step keeps the invariant of both writers.
LEMMA WriterStep ==
    ASSUME IInv, [Next]_vars, NEW e \in Ends
    PROVE  WriterInv(e)'
<1>1. Types /\ WriterInv(e)
  BY DEF IInv
<1>2. CASE \/ ConnectToServer \/ ConnectComplete \/ ConnectHandler \/ Accept \/ Reject
           \/ UNCHANGED vars
  BY <1>1, <1>2, WriterFrame, WriterUnchanged
<1>3. ASSUME NEW x \in Ends, x # e, Handler(x) \/ External(x) \/ Application(x)
      PROVE  WriterInv(e)'
  BY <1>1, <1>3, WriterOther, WriterUnchanged
<1>4. CASE \/ ReadComplete(e) \/ Misread(e) \/ ReadError(e)
           \/ ReadHeaderHandler(e) \/ ReadBodyHandler(e)
  BY <1>1, <1>4, WriterFrame, WriterUnchanged
<1>5. CASE Application(e)
  BY <1>1, <1>5, WriterSend, WriterDisconnect DEF Application
<1>6. CASE WriteComplete(e)
  BY <1>1, <1>6, WriterComplete
<1>7. CASE WriteError(e)
  <2>1. /\ WriterSame(e) /\ writing[e].status = "pending" /\ writing'[e].status = "error"
        /\ writing'[e].part = writing[e].part /\ writing'[e].n = writing[e].n
        /\ Carries(writing'[e], writing[e])
    BY <1>1, <1>7 DEF WriteError, WriterSame, application, Types, Write, Carries
  <2> QED
    BY <1>1, <2>1, WriterFails
<1>8. CASE SendHandler(e)
  BY <1>1, <1>8, WriterSendHandler
<1>9. CASE CloseHandler(e)
  BY <1>1, <1>9, WriterCloseHandler
<1>10. CASE WriteHeaderHandler(e) \/ WriteBodyHandler(e)
  BY <1>1, <1>10, WriterHandlers
<1>11. CASE WriteErrorHandler(e) \/ ReadErrorHandler(e)
  BY <1>1, <1>11, WriterErrorHandlers
<1>12. CASE Handler(e) \/ External(e) \/ Application(e)
  BY <1>4, <1>5, <1>6, <1>7, <1>8, <1>9, <1>10, <1>11, <1>12 DEF Handler, External
<1> QED
  BY <1>2, <1>3, <1>12 DEF Next

\* The messages sent and the frames written are never taken back.
LEMMA HistoryGrows ==
    ASSUME IInv, [Next]_vars, NEW e \in Ends
    PROVE  Extends(sent'[e], sent[e]) /\ Extends(stream'[e], stream[e])
<1>1. /\ Types /\ sent[e] \in Seq(Message) /\ stream[e] \in Seq(Frame)
      /\ Len(sent[e]) \in Nat /\ Len(stream[e]) \in Nat
  BY LenProperties DEF IInv, Types
<1>2. CASE sent'[e] = sent[e] /\ stream'[e] = stream[e]
  BY <1>1, <1>2 DEF Extends
<1>3. ASSUME NEW msg \in Announced \cup PassedOn, Send(e, msg)
      PROVE  Extends(sent'[e], sent[e]) /\ Extends(stream'[e], stream[e])
  <2> DEFINE m == [n |-> Len(sent[e]) + 1, size |-> msg.size, length |-> msg.length]
  <2>1. m \in Message
    BY <1>1, KindLemma DEF Message
  <2>2. sent'[e] = Append(sent[e], m) /\ stream' = stream
    BY <1>1, <1>3 DEF Send, Types
  <2>3. /\ Len(Append(sent[e], m)) = Len(sent[e]) + 1
        /\ \A i \in 1 .. Len(sent[e]) : Append(sent[e], m)[i] = sent[e][i]
    BY <1>1, <2>1, AppendLemma
  <2> QED
    BY <1>1, <2>2, <2>3 DEF Extends
<1>4. CASE WriteComplete(e)
  <2> DEFINE f == [part |-> writing[e].part, n |-> writing[e].n, size |-> writing[e].size,
                   length |-> writing[e].length]
  <2>1. f \in Frame
    <3>1. m_qMessagesOut[e] # <<>> /\ writing[e].n = m_qMessagesOut[e][1].n
      BY <1>4 DEF WriteComplete, IInv, WriterInv, WriteInv
    <3>2. m_qMessagesOut[e][1] \in Message /\ writing[e] \in Write
      BY <1>1, <3>1, FrontLemma DEF Types
    <3> QED
      BY <3>1, <3>2 DEF Write, Frame, Message
  <2>2. stream'[e] = Append(stream[e], f) /\ sent' = sent
    BY <1>1, <1>4 DEF WriteComplete, application, Types
  <2>3. /\ Len(Append(stream[e], f)) = Len(stream[e]) + 1
        /\ \A i \in 1 .. Len(stream[e]) : Append(stream[e], f)[i] = stream[e][i]
    BY <1>1, <2>1, AppendLemma
  <2> QED
    BY <1>1, <2>2, <2>3 DEF Extends
<1>5. CASE \/ ConnectToServer \/ ConnectComplete \/ ConnectHandler \/ Accept \/ Reject
           \/ UNCHANGED vars
  BY <1>1, <1>2, <1>5, WriterFrame DEF WriterSame
<1>6. ASSUME NEW x \in Ends, x # e, Handler(x) \/ External(x) \/ Application(x)
      PROVE  sent'[e] = sent[e] /\ stream'[e] = stream[e]
  BY <1>1, <1>6, WriterOther DEF WriterSame
<1>7. CASE Disconnect(e) \/ WriteError(e) \/ ReadComplete(e) \/ Misread(e) \/ ReadError(e)
           \/ Handler(e)
  BY <1>2, <1>7 DEF Disconnect, WriteError, ReadComplete, Misread, ReadError, Handler, SendHandler,
     QueueAndWrite, CloseHandler, WriteHeaderHandler, WriteBodyHandler, WriteErrorHandler,
     ReadHeaderHandler, ReadBodyHandler, ReadErrorHandler, application
<1> QED
  BY <1>2, <1>3, <1>4, <1>5, <1>6, <1>7 DEF Next, External, Application

\* The reader of e is left alone, but a read that has not completed may end.
ReaderFrame(e) ==
    /\ got'[e] = got[e] /\ lost'[e] = lost[e] /\ delivered'[e] = delivered[e]
    /\ m_msgTemporaryIn'[e] = m_msgTemporaryIn[e]
    /\ \/ reading'[e] = reading[e]
       \/ /\ reading'[e].status \in {"idle", "error"}
          /\ reading[e].status \in {"pending", "error"}

\* Which steps read at e: its read actions and the start of the connection.
LEMMA ReaderSteps ==
    ASSUME Types, [Next]_vars, NEW e \in Ends
    PROVE  \/ ReadComplete(e) \/ Misread(e)
           \/ ReadHeaderHandler(e) \/ ReadBodyHandler(e)
           \/ e = "client" /\ ConnectHandler
           \/ e = "server" /\ Accept
           \/ ReaderFrame(e)
<1>1. CASE \/ ConnectToServer \/ ConnectComplete \/ Reject \/ UNCHANGED vars
           \/ e # "client" /\ ConnectHandler
           \/ e # "server" /\ Accept
  BY <1>1 DEF ConnectToServer, ConnectComplete, ConnectHandler, Accept, Reject, StartRead, vars,
              ReaderFrame, Types
<1>2. ASSUME NEW x \in Ends, Application(x) PROVE ReaderFrame(e)
  BY <1>2 DEF Application, Send, Disconnect, ReaderFrame
<1>3. ASSUME NEW x \in Ends, WriteComplete(x) \/ WriteError(x) \/ SendHandler(x)
                             \/ WriteHeaderHandler(x) \/ WriteBodyHandler(x)
      PROVE  ReaderFrame(e)
  BY <1>3 DEF WriteComplete, WriteError, SendHandler, QueueAndWrite, WriteHeaderHandler,
              WriteBodyHandler, ReaderFrame
<1>4. ASSUME NEW x \in Ends, x # e,
             \/ ReadComplete(x) \/ Misread(x) \/ ReadError(x)
             \/ ReadHeaderHandler(x) \/ ReadBodyHandler(x)
      PROVE  ReaderFrame(e)
  BY <1>4 DEF ReadComplete, Misread, ReadError, ReadHeaderHandler, ReadBodyHandler, StartRead,
              AddToIncomingMessageQueue, ReaderFrame, Types
<1>5. ASSUME NEW x \in Ends, CloseHandler(x) \/ WriteErrorHandler(x) \/ ReadErrorHandler(x)
      PROVE  ReaderFrame(e)
  <2>1. /\ got' = got /\ lost' = lost /\ delivered' = delivered /\ m_msgTemporaryIn' = m_msgTemporaryIn
        /\ \/ x # e /\ reading'[e] = reading[e]
           \/ reading'[e] = Aborted(reading[e])
           \/ reading'[e] = Aborted(IdleRead) /\ reading[e].status = "error"
    BY <1>5 DEF CloseHandler, WriteErrorHandler, ReadErrorHandler, Close, Types
  <2>2. reading[e] \in Read /\ IdleRead \in Read /\ IdleWrite \in Write
    BY IdleLemma DEF Types
  <2>3. \/ Aborted(reading[e]) = reading[e]
        \/ Aborted(reading[e]).status = "error" /\ reading[e].status = "pending"
    BY <2>2 DEF Aborted, Read
  <2>4. Aborted(IdleRead).status = "idle"
    BY DEF Aborted, IdleRead
  <2> QED
    BY <2>1, <2>3, <2>4 DEF ReaderFrame
<1>6. CASE ReadError(e)
  BY <1>6 DEF ReadError, ReaderFrame, Types, Read
<1>7. CASE Handler(e) \/ External(e) \/ Application(e)
  BY <1>2, <1>3, <1>5, <1>6, <1>7 DEF Handler, External
<1>8. ASSUME NEW x \in Ends, x # e, Handler(x) \/ External(x) \/ Application(x)
      PROVE  ReaderFrame(e)
  BY <1>2, <1>3, <1>4, <1>5, <1>8 DEF Handler, External
<1>9. CASE \E x \in Ends : Handler(x) \/ External(x) \/ Application(x)
  BY <1>7, <1>8, <1>9
<1>10. CASE \/ ConnectToServer \/ ConnectComplete \/ Reject \/ UNCHANGED vars
            \/ ConnectHandler \/ Accept
  <2>1. CASE ConnectHandler
    BY <1>1, <2>1
  <2>2. CASE Accept
    BY <1>1, <2>2
  <2> QED
    BY <1>1, <1>10, <2>1, <2>2
<1> QED
  BY <1>9, <1>10 DEF Next

\* Every step keeps the invariant of both readers.
LEMMA ReaderStep ==
    ASSUME IInv, [Next]_vars, NEW e \in Ends
    PROVE  ReaderInv(e)' /\ OwnOrStale(e)'
<1>1. /\ Types /\ Types' /\ ReaderInv(e) /\ OwnOrStale(e) /\ WriterInv(Peer(e)) /\ SetupInv
      /\ Peer(e) \in Ends
  BY StepType, PeerLemma DEF IInv, BodyOwnOrStale, OwnOrStale
<1>2. Extends(sent'[Peer(e)], sent[Peer(e)]) /\ Extends(stream'[Peer(e)], stream[Peer(e)])
  BY <1>1, HistoryGrows
<1>3. ASSUME got'[e] = got[e], lost'[e] = lost[e], delivered'[e] = delivered[e],
             m_msgTemporaryIn'[e] = m_msgTemporaryIn[e]
      PROVE  ReaderSame(e) /\ OwnOrStale(e)'
  BY <1>1, <1>2, <1>3 DEF ReaderSame, OwnOrStale
<1>4. CASE ReaderFrame(e)
  <2>1. ReaderSame(e) /\ OwnOrStale(e)'
    BY <1>3, <1>4 DEF ReaderFrame
  <2>2. \/ reading'[e] = reading[e]
        \/ reading'[e].status \in {"idle", "error"} /\ reading[e].status # "ok"
    BY <1>4 DEF ReaderFrame
  <2> QED
    BY <1>1, <2>1, <2>2, ReaderUnchanged
<1>5. CASE ReadComplete(e)
  <2>1. OwnOrStale(e)'
    BY <1>1, <1>5 DEF ReadComplete, OwnOrStale
  <2> QED
    BY <1>1, <1>5, <2>1, ReaderComplete
<1>8. CASE Misread(e)
  <2>1. OwnOrStale(e)'
    BY <1>1, <1>8 DEF Misread, OwnOrStale
  <2> QED
    BY <1>1, <1>8, <2>1, ReaderMisreads
<1>6. CASE ReadHeaderHandler(e) \/ ReadBodyHandler(e)
  <2>1. CASE Delivers(e)
    BY <1>1, <2>1, ReaderDelivers
  <2>2. CASE /\ reading[e].status = "ok" /\ reading[e].part = "header"
             /\ m_msgTemporaryIn[e].head.size > 0
             /\ StartRead(e, "body") /\ delivered' = delivered
             /\ UNCHANGED <<setup, open, posts, m_qMessagesOut, writing, m_msgTemporaryIn,
                            stream, got, lost, application, queued, overlap>>
    <3>1. ReaderInv(e)'
      BY <1>1, <2>2, ReaderReadsBody DEF application
    <3>2. OwnOrStale(e)'
      BY <1>1, <2>2 DEF OwnOrStale
    <3> QED
      BY <3>1, <3>2
  <2> QED
    BY <1>1, <1>6, <2>1, <2>2, ReadHandlers
<1>7. ASSUME \/ e = "client" /\ ConnectHandler
             \/ e = "server" /\ Accept
      PROVE  ReaderInv(e)' /\ OwnOrStale(e)'
  <2>1. ReaderSame(e) /\ OwnOrStale(e)'
    BY <1>3, <1>7 DEF ConnectHandler, Accept
  <2>2. Unread(e)
    BY <1>1, <1>7 DEF ConnectHandler, Accept, SetupInv, NotReading
  <2>3. \/ reading'[e] = reading[e]
        \/ reading'[e].part = "header" /\ reading'[e].status \in {"pending", "error"}
    <3>1. CASE e = "client" /\ ConnectHandler
      BY <1>1, <3>1 DEF ConnectHandler, StartRead, Started, Types
    <3>2. CASE e = "server" /\ Accept
      BY <1>1, <3>2 DEF Accept, Types
    <3> QED
      BY <1>7, <3>1, <3>2
  <2> QED
    BY <1>1, <2>1, <2>2, <2>3, ReaderUnchanged, ReaderStarts
<1> QED
  BY <1>1, <1>4, <1>5, <1>6, <1>7, <1>8, ReaderSteps

\* An end starts to read only when it is connected, and only then.
LEMMA SetupStep ==
    ASSUME IInv, [Next]_vars
    PROVE  SetupInv'
<1>1. Types /\ SetupInv /\ "client" \in Ends /\ "server" \in Ends
  BY DEF IInv, Ends
<1>2. ASSUME NEW e \in Ends, Unread(e), ReaderFrame(e) PROVE Unread(e)'
  BY <1>2 DEF Unread, ReaderFrame
<1>3. ASSUME NEW e \in Ends, Unread(e)
      PROVE  /\ ~ReadComplete(e) /\ ~Misread(e)
             /\ ~ReadHeaderHandler(e) /\ ~ReadBodyHandler(e)
  BY <1>3 DEF Unread, ReadComplete, Misread, ReadHeaderHandler, ReadBodyHandler
<1>4. ASSUME NotReading' PROVE Unread("client")'
  <2>1. NotReading
    <3>1. CASE \/ ConnectToServer \/ ConnectComplete \/ ConnectHandler \/ Accept \/ Reject
               \/ UNCHANGED vars
      BY <1>4, <3>1 DEF NotReading, ConnectToServer, ConnectComplete, ConnectHandler, Accept,
                        Reject, vars
    <3>2. ASSUME NEW x \in Ends, Handler(x) \/ External(x) \/ Application(x) PROVE NotReading
      BY <1>4, <3>2 DEF NotReading, Handler, External, Application, SendHandler, QueueAndWrite,
         CloseHandler, Close, WriteHeaderHandler, WriteBodyHandler, WriteErrorHandler,
         ReadHeaderHandler, ReadBodyHandler, ReadErrorHandler, WriteComplete, WriteError,
         ReadComplete, Misread, ReadError, Send, Disconnect, setup
    <3> QED
      BY <3>1, <3>2 DEF Next
  <2>2. ~ConnectHandler
    BY <1>4 DEF ConnectHandler, NotReading
  <2>3. Unread("client")
    BY <1>1, <2>1 DEF SetupInv
  <2>4. ReaderFrame("client")
    BY <1>1, <1>3, <2>2, <2>3, ReaderSteps
  <2> QED
    BY <1>1, <1>2, <2>3, <2>4
<1>5. ASSUME accepted' = "none" PROVE Unread("server")'
  <2>1. accepted = "none"
    <3>1. CASE \/ ConnectToServer \/ ConnectComplete \/ ConnectHandler \/ Accept \/ Reject
               \/ UNCHANGED vars
      BY <1>5, <3>1 DEF ConnectToServer, ConnectComplete, ConnectHandler, Accept, Reject, vars
    <3>2. ASSUME NEW x \in Ends, Handler(x) \/ External(x) \/ Application(x)
          PROVE  accepted = "none"
      BY <1>5, <3>2 DEF Handler, External, Application, SendHandler, QueueAndWrite,
         CloseHandler, Close, WriteHeaderHandler, WriteBodyHandler, WriteErrorHandler,
         ReadHeaderHandler, ReadBodyHandler, ReadErrorHandler, WriteComplete, WriteError,
         ReadComplete, Misread, ReadError, Send, Disconnect, setup
    <3> QED
      BY <3>1, <3>2 DEF Next
  <2>2. ~Accept
    BY <1>5 DEF Accept
  <2>3. Unread("server")
    BY <1>1, <2>1 DEF SetupInv
  <2>4. ReaderFrame("server")
    BY <1>1, <1>3, <2>2, <2>3, ReaderSteps
  <2> QED
    BY <1>1, <1>2, <2>3, <2>4
<1> QED
  BY <1>4, <1>5 DEF SetupInv

\* No write is started over a write nor a read over a read.
LEMMA OverlapStep ==
    ASSUME IInv, [Next]_vars
    PROVE  NoOverlap'
<1>1. Types /\ NoOverlap /\ SetupInv
  BY DEF IInv
<1>2. CASE ConnectHandler
  <2>1. connecting = "ok" => reading["client"].status = "idle"
    BY <1>1 DEF SetupInv, NotReading, Unread
  <2> QED
    BY <1>1, <1>2, <2>1 DEF ConnectHandler, NoOverlap
<1>3. CASE Accept
  <2>1. reading["server"].status = "idle"
    BY <1>1, <1>3 DEF Accept, SetupInv, Unread
  <2> QED
    BY <1>1, <1>3, <2>1 DEF Accept, NoOverlap
<1>4. ASSUME NEW e \in Ends, SendHandler(e) PROVE NoOverlap'
  <2>1. m_qMessagesOut[e] = <<>> => writing[e].status = "idle"
    BY DEF IInv, WriterInv, WriteInv
  <2> QED
    BY <1>1, <1>4, <2>1 DEF SendHandler, QueueAndWrite, NoOverlap
<1>5. CASE ConnectToServer \/ ConnectComplete \/ Reject \/ UNCHANGED vars
  BY <1>1, <1>5 DEF ConnectToServer, ConnectComplete, Reject, vars, NoOverlap
<1>6. ASSUME NEW e \in Ends,
             \/ CloseHandler(e) \/ WriteHeaderHandler(e) \/ WriteBodyHandler(e)
             \/ WriteErrorHandler(e) \/ ReadHeaderHandler(e) \/ ReadBodyHandler(e)
             \/ ReadErrorHandler(e) \/ External(e) \/ Application(e)
      PROVE  NoOverlap'
  BY <1>1, <1>6 DEF CloseHandler, WriteHeaderHandler, WriteBodyHandler,
     WriteErrorHandler, ReadHeaderHandler, ReadBodyHandler, ReadErrorHandler, External,
     WriteComplete, WriteError, ReadComplete, Misread, ReadError, Application, Send, Disconnect, NoOverlap
<1> QED
  BY <1>2, <1>3, <1>4, <1>5, <1>6 DEF Next, Handler

-----------------------------------------------------------------------------
(* The invariant and what follows from it *)

\* Nothing was sent, written, read or started.
LEMMA InitInv == Init => IInv
<1> SUFFICES ASSUME Init PROVE IInv
  OBVIOUS
<1>1. Types /\ NoOverlap /\ SetupInv
  BY InitType, PeerLemma DEF Init, NoOverlap, SetupInv, Unread, IdleRead, Ends
<1>2. ASSUME NEW e \in Ends PROVE WriterInv(e)
  <2>1. /\ sent[e] = <<>> /\ posts[e] = <<>> /\ m_qMessagesOut[e] = <<>> /\ stream[e] = <<>>
        /\ queued[e] = 0 /\ writing[e].status = "idle"
    BY DEF Init, IdleWrite
  <2>2. SentInv(e) /\ PostsInv(e) /\ QueueInv(e) /\ StreamInv(e)
    BY <2>1, EmptySeq DEF SentInv, PostsInv, QueueInv, StreamInv
  <2>3. WriteInv(e)
    BY <2>1, EmptySeq DEF WriteInv, AtBoundary, Doing
  <2> QED
    BY <2>2, <2>3 DEF WriterInv
<1>3. ASSUME NEW e \in Ends PROVE ReaderInv(e) /\ OwnOrStale(e)
  <2>1. /\ stream[Peer(e)] = <<>> /\ got[e] = 0 /\ sent[Peer(e)] = <<>> /\ ~lost[e]
        /\ delivered[e] = <<>> /\ reading[e].status = "idle"
        /\ m_msgTemporaryIn[e].head.n = 0 /\ m_msgTemporaryIn[e].head.size = 0
        /\ m_msgTemporaryIn[e].body = 0
    BY PeerLemma DEF Init, IdleRead, EmptyMessage
  <2>2. DeliveredInv(e) /\ LostInv(e) /\ OwnOrStale(e)
    BY <2>1, EmptySeq DEF DeliveredInv, LostInv, OwnOrStale
  <2>3. BufferInv(e)
    BY <2>1, EmptySeq, SizesAssumption DEF BufferInv, LastBody, Doing
  <2>4. ReadInv(e)
    BY <2>1, EmptySeq DEF ReadInv, Aligned, Doing
  <2> QED
    BY <2>2, <2>3, <2>4 DEF ReaderInv
<1> QED
  BY <1>1, <1>2, <1>3 DEF IInv, BodyOwnOrStale, OwnOrStale

\* Every step of either end keeps the invariant.
LEMMA StepInv == IInv /\ [Next]_vars => IInv'
<1> SUFFICES ASSUME IInv, [Next]_vars PROVE IInv'
  OBVIOUS
<1>1. Types' /\ NoOverlap' /\ SetupInv'
  BY StepType, OverlapStep, SetupStep
<1>2. ASSUME NEW e \in Ends PROVE WriterInv(e)' /\ ReaderInv(e)' /\ OwnOrStale(e)'
  BY WriterStep, ReaderStep
<1>3. BodyOwnOrStale'
  BY <1>2 DEF BodyOwnOrStale, OwnOrStale
<1> QED
  BY <1>1, <1>2, <1>3 DEF IInv

\* In every reachable state the lambdas, the queue, the wire and the buffers
\* of both ends hold consecutive messages, each where its handlers left it.
THEOREM Inductive == Spec => []IInv
BY InitInv, StepInv, PTL DEF Spec

\* Whatever sizes and bounds, every variable holds a value of its type, and what is
\* delivered is a message that was sent until the frames are lost.
THEOREM TypeCorrect == Spec => []TypeOK
<1>1. ASSUME IInv PROVE TypeOK
  <2>1. Types
    BY <1>1 DEF IInv
  <2>2. ASSUME NEW e \in Ends, ~lost[e], NEW i \in 1 .. Len(delivered[e])
        PROVE  delivered[e][i].head.n \in Nat \ {0}
    <3>1. DeliveredInv(e)
      BY <1>1 DEF IInv, ReaderInv
    <3>2. delivered[e][i].head = [n |-> i, size |-> sent[Peer(e)][i].size]
      BY <2>2, <3>1 DEF DeliveredInv
    <3>3. i \in Nat \ {0}
      OBVIOUS
    <3> QED
      BY <3>2, <3>3
  <2> QED
    BY <2>1, <2>2 DEF TypeOK
<1> QED
  BY <1>1, Inductive, PTL

\* However Send, the handlers and the network interleave, no async_write and
\* no async_read is started on a socket while one is outstanding.
THEOREM OneOperation == Spec => []NoOverlap
<1>1. IInv => NoOverlap
  BY DEF IInv
<1> QED
  BY <1>1, Inductive, PTL

\* The message whose buffer async_write uses is the front of m_qMessagesOut
\* as long as the write is outstanding, closed socket or not.
THEOREM BufferStays == Spec => []BufferIsFront
<1>1. IInv => BufferIsFront
  <2> SUFFICES ASSUME IInv, NEW e \in Ends, writing[e].status # "idle"
               PROVE  m_qMessagesOut[e] # <<>> /\ Head(m_qMessagesOut[e]).n = writing[e].n
    BY DEF BufferIsFront
  <2>1. m_qMessagesOut[e] # <<>> /\ m_qMessagesOut[e] \in Seq(Message)
        /\ writing[e].n = m_qMessagesOut[e][1].n
    BY DEF IInv, WriterInv, WriteInv, Types
  <2>2. Head(m_qMessagesOut[e]) = m_qMessagesOut[e][1]
    BY <2>1, FrontLemma
  <2> QED
    BY <2>1, <2>2
<1> QED
  BY <1>1, Inductive, PTL

\* A message with a body is delivered with its own body, and one without with
\* the body the message before it left in m_msgTemporaryIn.
THEOREM Bodies == Spec => []BodyOwnOrStale
<1>1. IInv => BodyOwnOrStale
  BY DEF IInv
<1> QED
  BY <1>1, Inductive, PTL

-----------------------------------------------------------------------------
(* Connection implements Channel *)

\* A handler that delivers is a Deliver of Channel: what it promises holds
\* unless a message announced no body and had one.
LEMMA DeliverStep ==
    ASSUME IInv, NEW e \in Ends, Delivers(e)
    PROVE  \E size \in Sizes : \E n, body \in 0 .. Len(sent[Peer(e)]) :
                Pair!Deliver(e, n, size, body)
<1> DEFINE p == Peer(e)
           msg == m_msgTemporaryIn[e]
<1>1. /\ Types /\ WriterInv(p) /\ ReaderInv(e) /\ Len(delivered[e]) \in Nat
      /\ Len(sent[p]) \in Nat /\ msg \in [head : [n : Nat, size : Nat], body : Nat]
  BY PeerLemma, ReaderTypes DEF IInv
<1>2. /\ msg.head.n \in 0 .. Len(sent[p]) /\ msg.head.size \in Sizes
      /\ msg.body \in 0 .. Len(sent[p])
  BY <1>1 DEF ReaderInv, BufferInv
<1>3. msg = [head |-> [n |-> msg.head.n, size |-> msg.head.size], body |-> msg.body]
  BY <1>1
<1>4. delivered' = [delivered EXCEPT ![e] = Append(delivered[e], msg)] /\ sent' = sent
  BY DEF Delivers, AddToIncomingMessageQueue, application
<1>5. ASSUME Pair!Announces(p, Len(delivered[e]))
      PROVE  Pair!Promised(e, msg.head.n, msg.head.size, msg.body)
  <2>1. ~lost[e]
    <3> SUFFICES ASSUME lost[e] PROVE FALSE
      OBVIOUS
    <3>1. PICK m \in 1 .. Len(delivered[e]) :
            m <= Len(sent[p]) /\ sent[p][m].size # sent[p][m].length
      BY <1>1 DEF ReaderInv, LostInv
    <3> QED
      BY <1>5, <3>1 DEF Pair!Announces
  <2>2. /\ Len(delivered[e]) + 1 <= Len(sent[p]) /\ msg.head.n = Len(delivered[e]) + 1
        /\ msg.head.size = sent[p][Len(delivered[e]) + 1].size
    BY <1>1, <2>1, NextMessage
  <2>3. msg.head.size > 0 => msg.body = msg.head.n
    BY <1>1, NextBody
  <2> QED
    BY <2>2, <2>3 DEF Pair!Promised
<1>6. Pair!Deliver(e, msg.head.n, msg.head.size, msg.body)
  BY <1>3, <1>4, <1>5 DEF Pair!Deliver
<1> QED
  BY <1>2, <1>6

\* Every step is one of Channel or changes neither messages sent nor delivered.
LEMMA ChannelStep == IInv /\ [Next]_vars => [Pair!Next]_(Pair!vars)
<1> SUFFICES ASSUME IInv, [Next]_vars PROVE Pair!Next \/ UNCHANGED <<sent, delivered>>
  BY DEF Pair!vars
<1>0. Types
  BY DEF IInv
<1>1. CASE \/ ConnectToServer \/ ConnectComplete \/ ConnectHandler \/ Accept \/ Reject
           \/ UNCHANGED vars
  BY <1>1 DEF ConnectToServer, ConnectComplete, ConnectHandler, Accept, Reject, vars, application
<1>2. ASSUME NEW e \in Ends, NEW msg \in Announced \cup PassedOn, Send(e, msg)
      PROVE  Pair!Next
  <2>1. Pair!Send(e, msg.size, msg.length)
    BY <1>2 DEF Send, Pair!Send
  <2>2. msg.size \in Sizes /\ msg.length \in Sizes
    BY <1>2, KindLemma
  <2> QED
    BY <2>1, <2>2 DEF Pair!Next
<1>3. ASSUME NEW e \in Ends, ReadHeaderHandler(e) \/ ReadBodyHandler(e)
      PROVE  Pair!Next \/ UNCHANGED <<sent, delivered>>
  <2>1. CASE Delivers(e)
    BY <1>3, <2>1, DeliverStep DEF Pair!Next
  <2>2. CASE delivered' = delivered /\ UNCHANGED application
    BY <2>2 DEF application
  <2> QED
    BY <1>0, <1>3, <2>1, <2>2, ReadHandlers
<1>4. ASSUME NEW e \in Ends,
             \/ SendHandler(e) \/ CloseHandler(e) \/ WriteHeaderHandler(e)
             \/ WriteBodyHandler(e) \/ WriteErrorHandler(e) \/ ReadErrorHandler(e)
             \/ External(e) \/ Disconnect(e)
      PROVE  UNCHANGED <<sent, delivered>>
  BY <1>4 DEF SendHandler, QueueAndWrite, CloseHandler, WriteHeaderHandler, WriteBodyHandler,
     WriteErrorHandler, ReadErrorHandler, External, WriteComplete, WriteError, ReadComplete,
     Misread, ReadError, Disconnect, application
<1> QED
  BY <1>1, <1>2, <1>3, <1>4 DEF Next, Handler, Application

\* Each end receives a prefix of what the other sent, in order, every message
\* once and with the body it announces, whatever is closed, lost or refused, up
\* to a message that was sent with a body its header does not announce.
THEOREM ImplementsChannel == Spec => IsChannel
<1>1. Init => Pair!Init
  BY DEF Init, Pair!Init
<1> QED
  BY <1>1, ChannelStep, Inductive, PTL DEF Spec, IsChannel, Pair!Spec
=============================================================================
