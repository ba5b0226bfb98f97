------------------------------- MODULE Client -------------------------------
(***************************************************************************)
(* Netzwerk::client_interface (src/Netzwerk/ClientBase.h): one io_context, *)
(* the thread that runs it and the connection, over several Connects and   *)
(* Disconnects.  The application's thread is inside Disconnect while       *)
(* thrContext keeps running handlers, so Disconnect is four steps.         *)
(*                                                                         *)
(* Of asio (external) the model keeps that run() returns once the context  *)
(* is stopped, that running out of work stops the context, and that only   *)
(* restart(), which the code never calls, would undo that.  Of a           *)
(* connection it keeps its socket and what is outstanding on the context;  *)
(* module Connection has the rest.                                         *)
(***************************************************************************)
EXTENDS Naturals, Sequences

CONSTANTS
    MaxConnect,     \* bound: connections made by Connect
    MaxSend         \* bound: messages sent

ASSUME BoundAssumption == MaxConnect \in Nat \ {0} /\ MaxSend \in Nat

Connections == 1 .. MaxConnect
Null == 0

VARIABLES
    stopped,        \* m_context.stopped()
    thrContext,     \* "none" (not joinable), "running", "returned" (run() did)
    m_connection,   \* the connection m_connection points to
    made,           \* how many connections were made
    open,           \* m_socket.is_open() of each connection
    work,           \* outstanding asynchronous operations of each connection
    posts,          \* lambdas posted by each connection and not yet run
    caller,         \* where the application's thread is in Disconnect
    sends,          \* history: for the bound
    released,       \* history: connections given up by m_connection.release()
    ranStopped      \* history: run() was called again on a context that an
                    \* earlier run() had left stopped

io == <<open, work, posts>>
vars == <<stopped, thrContext, m_connection, made, open, work, posts, caller, sends,
          released, ranStopped>>

Init ==
    /\ stopped = FALSE
    /\ thrContext = "none"
    /\ m_connection = Null
    /\ made = 0
    /\ open = [k \in Connections |-> FALSE]
    /\ work = [k \in Connections |-> {}]
    /\ posts = [k \in Connections |-> <<>>]
    /\ caller = "idle"
    /\ sends = 0
    /\ released = {}
    /\ ranStopped = FALSE

IsConnected == m_connection # Null /\ open[m_connection]

-----------------------------------------------------------------------------
(* The application's thread *)

\* async_connect opens the socket of the new connection and is outstanding
NewConnection ==
    /\ made < MaxConnect
    /\ made' = made + 1
    /\ m_connection' = made + 1
    /\ open' = [open EXCEPT ![made + 1] = TRUE]
    /\ work' = [work EXCEPT ![made + 1] = {"connect"}]

\* Connect.  A resolver that throws changes nothing and returns false.
Connect ==
    /\ caller = "idle" /\ thrContext = "none"
    /\ NewConnection
    /\ thrContext' = "running"
    /\ ranStopped' = (ranStopped \/ (made > 0 /\ stopped))
    /\ UNCHANGED <<stopped, posts, caller, sends, released>>

\* Connect without Disconnect: m_connection is replaced, and the assignment
\* to a joinable std::thread terminates the program
ConnectTwice ==
    /\ caller = "idle" /\ thrContext # "none"
    /\ NewConnection
    /\ caller' = "terminated"
    /\ UNCHANGED <<stopped, thrContext, posts, sends, released, ranStopped>>

Send ==
    /\ caller = "idle" /\ IsConnected
    /\ sends < MaxSend
    /\ sends' = sends + 1
    /\ posts' = [posts EXCEPT ![m_connection] = Append(@, "send")]
    /\ UNCHANGED <<stopped, thrContext, m_connection, made, open, work, caller,
                   released, ranStopped>>

\* mutant: Disconnect stops the context without asking for the close
DisconnectOnlyStops ==
    /\ caller = "idle"
    /\ caller' = "stop"
    /\ UNCHANGED <<stopped, thrContext, m_connection, made, io, sends, released, ranStopped>>

\* Disconnect: if (IsConnected()) m_connection->Disconnect()
Disconnect ==
    /\ caller = "idle"
    /\ caller' = "stop"
    /\ posts' = IF IsConnected THEN [posts EXCEPT ![m_connection] = Append(@, "close")]
                ELSE posts
    /\ UNCHANGED <<stopped, thrContext, m_connection, made, open, work, sends,
                   released, ranStopped>>

\* mutant: Disconnect does not stop the context
StopForgotten ==
    /\ caller = "stop"
    /\ caller' = "join"
    /\ UNCHANGED <<stopped, thrContext, m_connection, made, io, sends, released, ranStopped>>

\* m_context.stop()
StopContext ==
    /\ caller = "stop"
    /\ stopped' = TRUE
    /\ caller' = "join"
    /\ UNCHANGED <<thrContext, m_connection, made, io, sends, released, ranStopped>>

\* if (thrContext.joinable()) thrContext.join()
Join ==
    /\ caller = "join" /\ thrContext # "running"
    /\ thrContext' = "none"
    /\ caller' = "release"
    /\ UNCHANGED <<stopped, m_connection, made, io, sends, released, ranStopped>>

\* mutant: Disconnect ends with m_context.restart()
ReleaseRestarts ==
    /\ caller = "release"
    /\ released' = released \cup ({m_connection} \ {Null})
    /\ m_connection' = Null
    /\ stopped' = FALSE
    /\ caller' = "idle"
    /\ UNCHANGED <<thrContext, made, io, sends, ranStopped>>

\* m_connection.release() forgets the connection without destroying it
Release ==
    /\ caller = "release"
    /\ released' = released \cup ({m_connection} \ {Null})
    /\ m_connection' = Null
    /\ caller' = "idle"
    /\ UNCHANGED <<stopped, thrContext, made, io, sends, ranStopped>>

-----------------------------------------------------------------------------
(* thrContext *)

\* a handler of connection k runs inside m_context.run()
Handles(k) ==
    /\ thrContext = "running" /\ ~stopped /\ caller # "terminated"
    /\ UNCHANGED <<stopped, thrContext, m_connection, made, caller, sends, released, ranStopped>>

\* connected: ReadHeader(); not connected: nothing, the socket stays open
ConnectHandler(k) ==
    /\ Handles(k) /\ "connect" \in work[k]
    /\ \/ open[k] /\ work' = [work EXCEPT ![k] = (@ \ {"connect"}) \cup {"read"}]
       \/ work' = [work EXCEPT ![k] = @ \ {"connect"}]
    /\ UNCHANGED <<open, posts>>

\* the lambda of Send: a write is outstanding, unless a message that failed
\* to be written and closed the socket blocks m_qMessagesOut
SendHandler(k) ==
    /\ Handles(k) /\ posts[k] # <<>> /\ Head(posts[k]) = "send"
    /\ posts' = [posts EXCEPT ![k] = Tail(@)]
    /\ \/ work' = [work EXCEPT ![k] = @ \cup {"write"}]
       \/ ~open[k] /\ UNCHANGED work
    /\ UNCHANGED open

\* the lambda of connection::Disconnect: m_socket.close()
CloseHandler(k) ==
    /\ Handles(k) /\ posts[k] # <<>> /\ Head(posts[k]) = "close"
    /\ posts' = [posts EXCEPT ![k] = Tail(@)]
    /\ open' = [open EXCEPT ![k] = FALSE]
    /\ UNCHANGED work

\* the messages of m_qMessagesOut are written
WriteHandler(k) ==
    /\ Handles(k) /\ "write" \in work[k]
    /\ work' = [work EXCEPT ![k] = @ \ {"write"}]
    /\ UNCHANGED <<open, posts>>

\* a read or write failed or was aborted: m_socket.close()
ErrorHandler(k) ==
    /\ Handles(k)
    /\ \E op \in work[k] \ {"connect"} : work' = [work EXCEPT ![k] = @ \ {op}]
    /\ open' = [open EXCEPT ![k] = FALSE]
    /\ UNCHANGED posts

Handler == \E k \in Connections :
    \/ ConnectHandler(k)
    \/ SendHandler(k)
    \/ CloseHandler(k)
    \/ WriteHandler(k)
    \/ ErrorHandler(k)

OutOfWork == \A k \in Connections : work[k] = {} /\ posts[k] = <<>>

\* run() returns; running out of work stops the context
RunReturns ==
    /\ thrContext = "running" /\ caller # "terminated"
    /\ stopped \/ OutOfWork
    /\ stopped' = TRUE
    /\ thrContext' = "returned"
    /\ UNCHANGED <<m_connection, made, io, caller, sends, released, ranStopped>>

-----------------------------------------------------------------------------
Application ==
    \/ Connect
    \/ ConnectTwice
    \/ Send
    \/ Disconnect
    \/ StopContext
    \/ Join
    \/ Release

Next == Application \/ Handler \/ RunReturns

\* Disconnect, once called, goes on, and thrContext keeps running.  Nothing
\* makes an operation complete: a read may wait for ever.
Fairness ==
    /\ WF_vars(StopContext)
    /\ WF_vars(Join)
    /\ WF_vars(Release)
    /\ WF_vars(RunReturns)

Spec == Init /\ [][Next]_vars

FairSpec == Spec /\ Fairness

-----------------------------------------------------------------------------
(* Properties *)

\* Once Disconnect has given a connection up, none of its handlers runs: its
\* socket and what was outstanding on it never change again.  The join does
\* not suffice for that: a context that is run again runs what is left over.
ReleasedIsQuiet ==
    [][\A k \in released : open'[k] = open[k] /\ work'[k] = work[k] /\ posts'[k] = posts[k]]_vars

\* When Disconnect leaves a socket open (stop() came before the posted lambda
\* ran), the lambda that should have closed it is still waiting.
OpenOnlyIfCloseDiscarded ==
    \A k \in released : open[k] => \E i \in 1 .. Len(posts[k]) : posts[k][i] = "close"

\* Disconnect returns: the join does not wait for a read that never completes.
DisconnectReturns == caller = "stop" ~> caller = "idle"

\* io_context: restart() must be called before a second run() when an earlier
\* one returned because the context was stopped or ran out of work.
RunOnlyWhenRestarted == ~ranStopped
=============================================================================
