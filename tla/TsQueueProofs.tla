---------------------------- MODULE TsQueueProofs ----------------------------
(***************************************************************************)
(* Proofs about TsQueue for every set of producers and all bounds: the     *)
(* invariants, and that tsqueue implements Mailbox.                        *)
(***************************************************************************)
EXTENDS TsQueue, SequenceTheorems, TLAPS

\* A producer in push_* holds muxQueue, and muxBlocking too when it notifies;
\* the consumer holds muxBlocking around cvBlocking.wait.
Locks ==
    /\ \A p \in Producers : producer[p] # "idle" <=> muxQueue = p
    /\ \A p \in Producers : producer[p] = "notifying" <=> muxBlocking = p
    /\ consumer \in {"sleep", "unlock"} <=> muxBlocking = Consumer
    /\ muxQueue # Consumer

\* From the moment empty() returned true a non-empty queue means that a push
\* is still in progress or that its notification was missed.
Window ==
    consumer \in {"lock", "sleep", "asleep"} /\ deqQueue # <<>> =>
        missed \/ \E p \in Producers : producer[p] \in {"emplaced", "notifying"}

\* Update pops only when both halves of its loop condition held.
MayPop == consumer = "pop" => deqQueue # <<>> /\ nMessageCount < nMaxMessages

IInv == TypeOK /\ Locks /\ Window /\ MayPop

-----------------------------------------------------------------------------
\* The sequences push_front and pop_back build are sequences again.
LEMMA DequeLemma ==
    ASSUME NEW s \in Seq(Nat), NEW x \in Nat
    PROVE  /\ Append(s, x) \in Seq(Nat) /\ Append(s, x) # <<>>
           /\ <<x>> \o s \in Seq(Nat) /\ <<x>> \o s # <<>>
           /\ s # <<>> => /\ Tail(s) \in Seq(Nat) /\ Head(s) \in Nat
                          /\ SubSeq(s, 1, Len(s) - 1) \in Seq(Nat)
                          /\ s[Len(s)] \in Nat
<1>1. Append(s, x) \in Seq(Nat) /\ Append(s, x) # <<>>
  BY AppendProperties, EmptySeq
<1>2. <<x>> \o s \in Seq(Nat) /\ <<x>> \o s # <<>>
  <2>1. <<x>> \in Seq(Nat) /\ Len(<<x>>) = 1
    OBVIOUS
  <2>2. <<x>> \o s \in Seq(Nat) /\ Len(<<x>> \o s) = 1 + Len(s)
    BY <2>1, ConcatProperties
  <2>3. Len(s) \in Nat /\ Len(<<>>) = 0
    BY LenProperties
  <2> QED
    BY <2>2, <2>3
<1>3. ASSUME s # <<>>
      PROVE  /\ Tail(s) \in Seq(Nat) /\ Head(s) \in Nat
             /\ SubSeq(s, 1, Len(s) - 1) \in Seq(Nat)
             /\ s[Len(s)] \in Nat
  <2>1. Tail(s) \in Seq(Nat) /\ Head(s) \in Nat
    BY <1>3, HeadTailProperties
  <2>2. Len(s) \in Nat /\ Len(s) # 0
    BY <1>3, LenProperties, EmptySeq
  <2>3. s[Len(s)] \in Nat
    BY <2>2, ElementOfSeq
  <2>4. SubSeq(s, 1, Len(s) - 1) \in Seq(Nat)
    <3>1. \A i \in 1 .. Len(s) - 1 : s[i] \in Nat
      BY <2>2, ElementOfSeq
    <3> QED
      BY <2>2, <3>1, SubSeqProperties
  <2> QED
    BY <2>1, <2>3, <2>4
<1> QED
  BY <1>1, <1>2, <1>3

\* The invariant holds for the empty queue.
LEMMA InitInv == Init => IInv
<1> SUFFICES ASSUME Init PROVE IInv
  OBVIOUS
<1> USE ThreadAssumption, BoundAssumption DEF Init
<1>1. TypeOK
  <2>1. deqQueue \in Seq(Nat) /\ taken \subseteq Nat /\ missed \in BOOLEAN
    BY EmptySeq
  <2>2. nMaxMessages \in 0 .. MaxBatch /\ nMessageCount \in 0 .. nMaxMessages /\ pushed \in Nat
    OBVIOUS
  <2>3. /\ muxQueue \in Threads /\ muxBlocking \in Threads
        /\ producer \in [Producers -> ProducerStates] /\ consumer \in ConsumerStates
    BY DEF Threads, ProducerStates, ConsumerStates
  <2> QED
    BY <2>1, <2>2, <2>3 DEF TypeOK
<1>2. Locks
  BY DEF Locks
<1>3. Window /\ MayPop
  BY DEF Window, MayPop
<1> QED
  BY <1>1, <1>2, <1>3 DEF IInv

\* Every step of a thread keeps the invariant.
LEMMA StepInv == IInv /\ [Next]_vars => IInv'
<1> SUFFICES ASSUME IInv, [Next]_vars PROVE IInv'
  OBVIOUS
<1> USE ThreadAssumption, BoundAssumption
    DEF IInv, TypeOK, Locks, Window, MayPop, Threads, ProducerStates, ConsumerStates
<1>1. ASSUME NEW p \in Producers, NEW q \in Seq(Nat), q # <<>>, Emplace(p, q)
      PROVE  IInv'
  BY <1>1 DEF Emplace
<1>2. ASSUME NEW p \in Producers, Push(p) PROVE IInv'
  <2>1. pushed + 1 \in Nat
    OBVIOUS
  <2>2. CASE push_back(p)
    BY <2>1, <2>2, <1>1, DequeLemma DEF push_back
  <2>3. CASE push_front(p)
    BY <2>1, <2>3, <1>1, DequeLemma DEF push_front
  <2> QED
    BY <1>2, <2>2, <2>3 DEF Push
<1>3. ASSUME NEW p \in Producers, LockBlocking(p) PROVE IInv'
  BY <1>3 DEF LockBlocking
<1>4. ASSUME NEW p \in Producers, Notify(p) PROVE IInv'
  BY <1>4 DEF Notify
<1>5. ASSUME NEW max \in 0 .. MaxBatch, NEW bWait \in BOOLEAN, CallUpdate(max, bWait)
      PROVE  IInv'
  BY <1>5 DEF CallUpdate
<1>6. CASE WaitTest
  BY <1>6 DEF WaitTest, ConsumerOnly
<1>7. CASE WaitLock
  BY <1>7 DEF WaitLock, ConsumerOnly
<1>8. CASE WaitSleep
  BY <1>8 DEF WaitSleep, ConsumerOnly
<1>9. CASE WaitRelock
  BY <1>9 DEF WaitRelock, ConsumerOnly
<1>10. CASE WaitUnlock
  BY <1>10 DEF WaitUnlock, ConsumerOnly
<1>11. CASE DrainTest
  BY <1>11 DEF DrainTest, ConsumerOnly
<1>12. ASSUME NEW item \in Nat, NEW rest \in Seq(Nat), Pop(item, rest) PROVE IInv'
  BY <1>12 DEF Pop
<1>13. CASE pop_front
  <2>1. deqQueue # <<>>
    BY <1>13 DEF pop_front, Pop
  <2> QED
    BY <1>13, <2>1, <1>12, DequeLemma DEF pop_front
<1>14. CASE pop_back
  <2>1. deqQueue # <<>>
    BY <1>14 DEF pop_back, Pop
  <2> QED
    BY <1>14, <2>1, <1>12, DequeLemma DEF pop_back
<1>15. CASE SpuriousWakeup
  BY <1>15 DEF SpuriousWakeup, ConsumerOnly
<1>16. CASE clear
  BY <1>16 DEF clear
<1>17. CASE UNCHANGED vars
  BY <1>17 DEF vars
<1> QED
  BY <1>2, <1>3, <1>4, <1>5, <1>6, <1>7, <1>8, <1>9, <1>10, <1>11, <1>13, <1>14,
     <1>15, <1>16, <1>17 DEF Next, Update

\* tsqueue and the threads in it stay well formed.
THEOREM TypeCorrect == Spec => []TypeOK
BY InitInv, StepInv, PTL DEF Spec, IInv

\* Update never pops an empty deque, whatever the producers do between its
\* empty() and its pop_front().
THEOREM PopIsSafe == Spec => []PopNeverEmpty
<1>1. IInv => PopNeverEmpty
  BY DEF IInv, MayPop, PopNeverEmpty
<1> QED
  BY InitInv, StepInv, <1>1, PTL DEF Spec

\* The consumer sleeps on a non-empty queue only because of the window in
\* wait() between empty() and the lock of muxBlocking.
THEOREM OnlyWindowLosesWakeups == Spec => []SleepsOnlyIfMissed
<1>1. IInv => SleepsOnlyIfMissed
  BY DEF IInv, Window, SleepsOnlyIfMissed
<1> QED
  BY InitInv, StepInv, <1>1, PTL DEF Spec

\* tsqueue implements the atomic double-ended queue.
THEOREM ImplementsMailbox == Spec => IsMailbox
<1>1. Init => Deque!Init
  BY DEF Init, Deque!Init
<1>2. IInv /\ [Next]_vars => [Deque!Next]_(Deque!vars)
  <2> SUFFICES ASSUME IInv, [Next]_vars, ~(UNCHANGED Deque!vars)
               PROVE  Deque!Next
    OBVIOUS
  <2>1. ASSUME NEW p \in Producers, Push(p) PROVE Deque!Next
    BY <2>1 DEF Push, push_back, push_front, Emplace, Deque!Next, Deque!PutBack, Deque!PutFront
  <2>2. CASE pop_front
    BY <2>2 DEF pop_front, Pop, IInv, MayPop, Deque!Next, Deque!TakeFront
  <2>3. CASE pop_back
    BY <2>3 DEF pop_back, Pop, IInv, MayPop, Deque!Next, Deque!TakeBack
  <2>4. CASE clear
    BY <2>4 DEF clear, Deque!Next, Deque!Empty
  <2>5. ASSUME \/ \E p \in Producers : LockBlocking(p) \/ Notify(p)
               \/ \E max \in 0 .. MaxBatch, bWait \in BOOLEAN : CallUpdate(max, bWait)
               \/ WaitTest \/ WaitLock \/ WaitSleep \/ WaitRelock \/ WaitUnlock
               \/ DrainTest \/ SpuriousWakeup \/ UNCHANGED vars
        PROVE  UNCHANGED Deque!vars
    BY <2>5 DEF LockBlocking, Notify, CallUpdate, WaitTest, WaitLock, WaitSleep, WaitRelock,
                WaitUnlock, DrainTest, SpuriousWakeup, ConsumerOnly, vars, Deque!vars
  <2> QED
    BY <2>1, <2>2, <2>3, <2>4, <2>5 DEF Next, Update
<1> QED
  BY InitInv, StepInv, <1>1, <1>2, PTL DEF Spec, IsMailbox, Deque!Spec
=============================================================================
