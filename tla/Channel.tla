------------------------------ MODULE Channel ------------------------------
(***************************************************************************)
(* What two ends of a Netzwerk::connection promise each other: each end    *)
(* receives a prefix of what its peer sent, in order, every message once,  *)
(* and every message that announces a body with its own body.  Nothing is  *)
(* promised about the body that comes with a message whose size is zero,   *)
(* nor of anything that comes after a message with a body that its header  *)
(* does not announce.                                                      *)
(***************************************************************************)
EXTENDS Naturals, Sequences

CONSTANTS
    Ends,           \* the two ends
    Peer(_),        \* the other end
    Sizes           \* sizes of a body, zero for none

VARIABLES
    sent,           \* messages given to Send at each end, numbered from 1
    delivered       \* messages put in m_qMessagesIn of each end

vars == <<sent, delivered>>

Init ==
    /\ sent = [e \in Ends |-> <<>>]
    /\ delivered = [e \in Ends |-> <<>>]

Send(e, size, length) ==
    /\ sent' = [sent EXCEPT ![e] =
                    Append(@, [n |-> Len(@) + 1, size |-> size, length |-> length])]
    /\ UNCHANGED delivered

\* The first n messages of an end are there, and their headers announce their bodies.
Announces(e, n) ==
    /\ n <= Len(sent[e])
    /\ \A m \in 1 .. n : sent[e][m].size = sent[e][m].length

Promised(e, n, size, body) ==
    /\ n = Len(delivered[e]) + 1
    /\ n <= Len(sent[Peer(e)])
    /\ size = sent[Peer(e)][n].size
    /\ size > 0 => body = n

Deliver(e, n, size, body) ==
    /\ Announces(Peer(e), Len(delivered[e])) => Promised(e, n, size, body)
    /\ delivered' = [delivered EXCEPT ![e] =
                        Append(@, [head |-> [n |-> n, size |-> size], body |-> body])]
    /\ UNCHANGED sent

Next ==
    \E e \in Ends, size \in Sizes :
        \/ \E length \in Sizes : Send(e, size, length)
        \/ \E n, body \in 0 .. Len(sent[Peer(e)]) : Deliver(e, n, size, body)

Spec == Init /\ [][Next]_vars
=============================================================================
