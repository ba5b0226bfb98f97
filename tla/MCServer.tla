------------------------------ MODULE MCServer ------------------------------
(***************************************************************************)
(* Server with interchangeable clients.  The view of a run leaves out the  *)
(* histories and ids that no guard reads and its invariants do not use;    *)
(* NotifiedOnce uses the difference of its two counts only.                *)
(***************************************************************************)
EXTENDS Server, TLC

Symmetry == Permutations(Clients)

Process == <<context, accepting, greeting, m_deqConnections, open, ops, m_qMessagesIn,
             current, held, stack, calls, incoming, known>>
DequeView == <<Process, nIDCounter, id, raced, [c \in Clients |-> notified[c] - direct[c]]>>
FarewellView == <<Process, owed, told>>
=============================================================================
