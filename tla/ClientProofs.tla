---------------------------- MODULE ClientProofs ----------------------------
(***************************************************************************)
(* What a released connection of Client keeps, for any number of connects  *)
(* and messages: both safety properties rest on the order of the steps of  *)
(* Disconnect and on stop() never being undone.                            *)
(***************************************************************************)
EXTENDS Client, TLAPS

Types ==
    /\ made \in 0 .. MaxConnect
    /\ m_connection \in 0 .. made
    /\ released \subseteq 1 .. made
    /\ open \in [Connections -> BOOLEAN]
    /\ work \in [Connections -> SUBSET {"connect", "read", "write"}]
    /\ posts \in [Connections -> Seq({"send", "close"})]
    /\ stopped \in BOOLEAN
    /\ caller \in {"idle", "stop", "join", "release", "terminated"}

\* A connection is released by the end of Disconnect, which has stopped the
\* context by then.
Stopped == caller \in {"join", "release"} \/ released # {} => stopped

\* What the application still reaches is not released.
Reached == m_connection \notin released

\* A close has been posted for the connection and not run.
CloseWaits(k) == \E i \in 1 .. Len(posts[k]) : posts[k][i] = "close"

\* From the first step of Disconnect on, the connection is closed or will be.
Closing ==
    caller \in {"stop", "join", "release"} /\ m_connection # Null
        => (open[m_connection] => CloseWaits(m_connection))

IInv == Types /\ Stopped /\ Reached /\ Closing /\ OpenOnlyIfCloseDiscarded

-----------------------------------------------------------------------------

\* The invariant holds when the client starts.
LEMMA InitIInv == Init => IInv
<1> SUFFICES ASSUME Init PROVE IInv
    OBVIOUS
<1>1. Types
    <2>1. <<>> \in Seq({"send", "close"})
        OBVIOUS
    <2>2. open \in [Connections -> BOOLEAN]
          /\ work \in [Connections -> SUBSET {"connect", "read", "write"}]
        BY DEF Init
    <2>3. posts \in [Connections -> Seq({"send", "close"})]
        BY <2>1 DEF Init
    <2>4. made \in 0 .. MaxConnect /\ m_connection \in 0 .. made
        BY BoundAssumption DEF Init, Null
    <2> QED
        BY <2>2, <2>3, <2>4 DEF Init, Types
<1>2. Stopped /\ Reached /\ Closing /\ OpenOnlyIfCloseDiscarded
    BY DEF Init, Stopped, Reached, Closing, OpenOnlyIfCloseDiscarded
<1> QED
    BY <1>1, <1>2 DEF IInv

\* Appending to a queue of lambdas keeps a close that waits in it.
LEMMA AppendKeepsClose ==
    ASSUME NEW s \in Seq({"send", "close"}), NEW p \in {"send", "close"},
           NEW i \in 1 .. Len(s), s[i] = "close"
    PROVE  \E j \in 1 .. Len(Append(s, p)) : Append(s, p)[j] = "close"
<1>1. i \in 1 .. Len(Append(s, p)) /\ Append(s, p)[i] = s[i]
    OBVIOUS
<1> QED
    BY <1>1

\* Running the lambda of a Send leaves a close that waits behind it.
LEMMA TailKeepsClose ==
    ASSUME NEW s \in Seq({"send", "close"}), s # <<>>, Head(s) = "send",
           NEW i \in 1 .. Len(s), s[i] = "close"
    PROVE  \E j \in 1 .. Len(Tail(s)) : Tail(s)[j] = "close"
<1>1. i # 1
    OBVIOUS
<1>2. i - 1 \in 1 .. Len(Tail(s)) /\ Tail(s)[i - 1] = s[i]
    BY <1>1
<1> QED
    BY <1>2

-----------------------------------------------------------------------------
(* The application's thread *)

\* A new connection is none of those made before.
LEMMA NewConnectionStep ==
    ASSUME IInv, NewConnection, UNCHANGED <<stopped, posts, released>>,
           caller' \in {"idle", "terminated"}
    PROVE  IInv'
<1> USE DEF IInv
<1>1. made + 1 \in Connections /\ made + 1 \notin released /\ made \in Nat
    BY BoundAssumption DEF NewConnection, Types, Connections
<1>2. Types'
    BY <1>1, BoundAssumption DEF NewConnection, Types, Connections
<1>3. Stopped' /\ Closing'
    BY DEF Stopped, Closing
<1>4. Reached'
    BY <1>1 DEF NewConnection, Reached
<1>5. OpenOnlyIfCloseDiscarded'
    <2> SUFFICES ASSUME NEW k \in released, open'[k]
                 PROVE  \E i \in 1 .. Len(posts[k]) : posts[k][i] = "close"
        BY DEF OpenOnlyIfCloseDiscarded
    <2>1. k \in Connections /\ k # made + 1
        BY <1>1, BoundAssumption DEF Types, Connections
    <2>2. open'[k] = open[k]
        BY <2>1, <1>1 DEF NewConnection, Types
    <2> QED
        BY <2>2 DEF OpenOnlyIfCloseDiscarded
<1> QED
    BY <1>2, <1>3, <1>4, <1>5

\* Send and Disconnect append to the lambdas of the connection in use, which
\* is not released.
LEMMA PostStep ==
    ASSUME IInv, NEW p \in {"send", "close"}, m_connection # Null,
           posts' = [posts EXCEPT ![m_connection] = Append(@, p)],
           UNCHANGED <<stopped, m_connection, made, open, work, released>>,
           caller = "idle", caller' \in {"idle", "stop"},
           caller' = "stop" => p = "close"
    PROVE  IInv'
<1> USE DEF IInv
<1>1. m_connection \in Connections
    BY BoundAssumption DEF Types, Connections, Null
<1>2. Types'
    BY <1>1 DEF Types
<1>3. Stopped' /\ Reached'
    BY DEF Stopped, Reached
<1>4. Closing'
    <2> SUFFICES ASSUME caller' = "stop" PROVE CloseWaits(m_connection)'
        BY DEF Closing
    <2> DEFINE s == posts[m_connection]
    <2>1. s \in Seq({"send", "close"}) /\ posts'[m_connection] = Append(s, "close")
        BY <1>1 DEF Types
    <2>2. Len(s) + 1 \in 1 .. Len(Append(s, "close"))
          /\ Append(s, "close")[Len(s) + 1] = "close"
        BY <2>1
    <2> QED
        BY <2>1, <2>2 DEF CloseWaits
<1>5. OpenOnlyIfCloseDiscarded'
    <2> SUFFICES ASSUME NEW k \in released, open[k]
                 PROVE  \E i \in 1 .. Len(posts'[k]) : posts'[k][i] = "close"
        BY DEF OpenOnlyIfCloseDiscarded
    <2>1. posts'[k] = posts[k]
        BY DEF Reached, Types, Connections
    <2> QED
        BY <2>1 DEF OpenOnlyIfCloseDiscarded
<1> QED
    BY <1>2, <1>3, <1>4, <1>5

\* Disconnect posts the close of a connection that is in use before it stops
\* the context.
LEMMA DisconnectStep == IInv /\ Disconnect => IInv'
<1> SUFFICES ASSUME IInv, Disconnect PROVE IInv'
    OBVIOUS
<1>1. CASE IsConnected
    BY <1>1, PostStep DEF Disconnect, IsConnected
<1>2. CASE ~IsConnected
    BY <1>2 DEF Disconnect, IsConnected, IInv, Types, Stopped, Reached, Closing,
                OpenOnlyIfCloseDiscarded
<1> QED
    BY <1>1, <1>2

\* The steps after the first: stop, join and release.
LEMMA StopStep == IInv /\ (StopContext \/ Join) => IInv'
    BY DEF StopContext, Join, IInv, Types, Stopped, Reached, Closing, CloseWaits,
           OpenOnlyIfCloseDiscarded, io

\* A connection is released only after the context has stopped.
LEMMA ReleaseStep == IInv /\ Release => IInv'
<1> SUFFICES ASSUME IInv, Release PROVE IInv'
    OBVIOUS
<1> USE DEF IInv, Release, io
<1>1. Types'
    BY DEF Types, Null
<1>2. Stopped' /\ Closing'
    BY DEF Stopped, Closing
<1>3. Reached'
    BY DEF Reached, Types, Null
<1>4. OpenOnlyIfCloseDiscarded'
    BY DEF OpenOnlyIfCloseDiscarded, Closing, CloseWaits
<1> QED
    BY <1>1, <1>2, <1>3, <1>4

-----------------------------------------------------------------------------
(* Handlers *)

\* No handler runs any more once a connection has been released; one that runs
\* before leaves a close waiting wherever it leaves the socket open.
LEMMA HandlerStep == IInv /\ Handler => IInv' /\ released = {}
<1> SUFFICES ASSUME IInv, NEW k \in Connections,
                    \/ ConnectHandler(k) \/ SendHandler(k) \/ CloseHandler(k)
                    \/ WriteHandler(k) \/ ErrorHandler(k)
             PROVE  IInv' /\ released = {}
    BY DEF Handler
<1> USE DEF IInv
<1>1. /\ ~stopped
      /\ UNCHANGED <<stopped, m_connection, made, caller, released>>
    BY DEF ConnectHandler, SendHandler, CloseHandler, WriteHandler, ErrorHandler,
           Handles
<1>2. released = {} /\ caller \notin {"join", "release"}
    BY <1>1 DEF Stopped
<1>3. Types'
    <2>1. open' \in [Connections -> BOOLEAN]
        BY DEF Types, ConnectHandler, SendHandler, CloseHandler, WriteHandler,
               ErrorHandler
    <2>2. work' \in [Connections -> SUBSET {"connect", "read", "write"}]
        <3>1. PICK ops \in SUBSET {"connect", "read", "write"} :
                  work' = [work EXCEPT ![k] = ops] \/ work' = work
            <4>1. work[k] \in SUBSET {"connect", "read", "write"}
                BY DEF Types
            <4>2. CASE ConnectHandler(k)
                BY <4>1, <4>2 DEF ConnectHandler
            <4>3. CASE SendHandler(k)
                BY <4>1, <4>3 DEF SendHandler
            <4>4. CASE CloseHandler(k)
                BY <4>4 DEF CloseHandler
            <4>5. CASE WriteHandler(k)
                BY <4>1, <4>5 DEF WriteHandler
            <4>6. CASE ErrorHandler(k)
                BY <4>1, <4>6 DEF ErrorHandler
            <4> QED
                BY <4>2, <4>3, <4>4, <4>5, <4>6
        <3> QED
            BY <3>1 DEF Types
    <2>3. posts' \in [Connections -> Seq({"send", "close"})]
        <3>1. posts[k] # <<>> => Tail(posts[k]) \in Seq({"send", "close"})
            BY DEF Types
        <3> QED
            BY <3>1 DEF Types, ConnectHandler, SendHandler, CloseHandler,
                        WriteHandler, ErrorHandler
    <2> QED
        BY <1>1, <2>1, <2>2, <2>3 DEF Types
<1>4. Stopped' /\ Reached' /\ OpenOnlyIfCloseDiscarded'
    BY <1>1, <1>2 DEF Stopped, Reached, OpenOnlyIfCloseDiscarded
<1>5. Closing'
    <2> SUFFICES ASSUME caller = "stop", m_connection # Null, open'[m_connection]
                 PROVE  CloseWaits(m_connection)'
        BY <1>1, <1>2 DEF Closing
    <2>1. m_connection \in Connections /\ posts[m_connection] \in Seq({"send", "close"})
        BY BoundAssumption DEF Types, Connections, Null
    <2>2. open[m_connection]
        BY <2>1 DEF Types, ConnectHandler, SendHandler, CloseHandler, WriteHandler,
                    ErrorHandler
    <2>3. PICK i \in 1 .. Len(posts[m_connection]) : posts[m_connection][i] = "close"
        BY <2>2 DEF Closing, CloseWaits
    <2>4. CASE posts'[m_connection] = posts[m_connection]
        BY <1>1, <2>3, <2>4 DEF CloseWaits
    <2>5. CASE posts'[m_connection] # posts[m_connection]
        <3>1. k = m_connection /\ (SendHandler(k) \/ CloseHandler(k))
            BY <2>1, <2>5 DEF Types, ConnectHandler, SendHandler, CloseHandler,
                              WriteHandler, ErrorHandler
        <3>2. ~CloseHandler(k)
            BY <2>1, <3>1 DEF CloseHandler, Types
        <3>3. /\ posts[k] # <<>> /\ Head(posts[k]) = "send"
              /\ posts'[k] = Tail(posts[k])
            BY <3>1, <3>2 DEF SendHandler, Types
        <3> QED
            BY <1>1, <2>1, <2>3, <3>1, <3>3, TailKeepsClose DEF CloseWaits
    <2> QED
        BY <2>4, <2>5
<1> QED
    BY <1>2, <1>3, <1>4, <1>5

-----------------------------------------------------------------------------
(* Theorems *)

LEMMA NextIInv == IInv /\ [Next]_vars => IInv'
<1> SUFFICES ASSUME IInv, [Next]_vars PROVE IInv'
    OBVIOUS
<1>1. CASE Connect
    BY <1>1, NewConnectionStep DEF Connect
<1>2. CASE ConnectTwice
    BY <1>2, NewConnectionStep DEF ConnectTwice
<1>3. CASE Send
    BY <1>3, PostStep DEF Send, IsConnected
<1>4. CASE Disconnect
    BY <1>4, DisconnectStep
<1>5. CASE StopContext \/ Join
    BY <1>5, StopStep
<1>6. CASE Release
    BY <1>6, ReleaseStep
<1>7. CASE Handler
    BY <1>7, HandlerStep
<1>8. CASE RunReturns
    BY <1>8 DEF RunReturns, io, IInv, Types, Stopped, Reached, Closing, CloseWaits,
                OpenOnlyIfCloseDiscarded
<1>9. CASE UNCHANGED vars
    BY <1>9 DEF vars, IInv, Types, Stopped, Reached, Closing, CloseWaits,
                OpenOnlyIfCloseDiscarded
<1> QED
    BY <1>1, <1>2, <1>3, <1>4, <1>5, <1>6, <1>7, <1>8, <1>9 DEF Next, Application

\* A released connection whose socket is open has its close waiting: Disconnect
\* of client_interface posted it, and stop() came before it ran.
THEOREM OpenIsDiscarded == Spec => []OpenOnlyIfCloseDiscarded
<1>1. IInv => OpenOnlyIfCloseDiscarded
    BY DEF IInv
<1> QED
    BY <1>1, InitIInv, NextIInv, PTL DEF Spec

\* No step of anybody changes the socket, the operations or the lambdas of a
\* connection that m_connection.release() has given up.
THEOREM ReleasedStaysQuiet == Spec => ReleasedIsQuiet
<1> DEFINE Quiet == \A k \in released : open'[k] = open[k] /\ work'[k] = work[k]
                                        /\ posts'[k] = posts[k]
<1>1. IInv /\ [Next]_vars => [Quiet]_vars
    <2> SUFFICES ASSUME IInv, Next, NEW k \in released
                 PROVE  open'[k] = open[k] /\ work'[k] = work[k] /\ posts'[k] = posts[k]
        OBVIOUS
    <2>1. k \in Connections /\ k # m_connection /\ k # made + 1
        BY BoundAssumption DEF IInv, Types, Reached, Connections
    <2>2. CASE Connect \/ ConnectTwice
        BY <2>1, <2>2 DEF Connect, ConnectTwice, NewConnection, IInv, Types
    <2>3. CASE Send \/ Disconnect
        BY <2>1, <2>3 DEF Send, Disconnect, IInv, Types
    <2>4. CASE StopContext \/ Join \/ Release \/ RunReturns
        BY <2>4 DEF StopContext, Join, Release, RunReturns, io
    <2>5. CASE Handler
        BY <2>5, HandlerStep
    <2> QED
        BY <2>2, <2>3, <2>4, <2>5 DEF Next, Application
<1> QED
    BY <1>1, InitIInv, NextIInv, PTL DEF Spec, ReleasedIsQuiet
=============================================================================
