------------------------------ MODULE TsQueue ------------------------------
(***************************************************************************)
(* Netzwerk::tsqueue (src/Netzwerk/tsQueue.h) with the threads that use    *)
(* it.  Producers are the asio threads that call push_back or push_front;  *)
(* the consumer is the application's thread, which runs                    *)
(* server_interface::Update (src/Netzwerk/ServerBase.h): wait() for a      *)
(* message, then `while (n < max && !empty()) pop_front()`.                *)
(*                                                                         *)
(* A step is what a thread does between two points where it can be made to *)
(* wait for a mutex or where another thread can observe it.  A method that *)
(* takes muxQueue, reads or changes deqQueue and returns is one step whose *)
(* guard is that muxQueue is free.  push_* holds muxQueue while it waits   *)
(* for muxBlocking, so it is three steps.                                  *)
(***************************************************************************)
EXTENDS Naturals, Sequences

CONSTANTS
    Producers,      \* threads that push
    Consumer,       \* the thread that runs Update
    NoThread,       \* a mutex that nobody holds
    MaxPush,        \* bound: items pushed in a behaviour
    MaxBatch        \* bound: largest nMaxMessages given to Update

ASSUME ThreadAssumption ==
    /\ Consumer \notin Producers
    /\ NoThread \notin Producers \cup {Consumer}

ASSUME BoundAssumption == MaxPush \in Nat /\ MaxBatch \in Nat

VARIABLES
    deqQueue,       \* the std::deque, items numbered in order of arrival
    muxQueue,       \* the thread holding muxQueue
    muxBlocking,    \* the thread holding muxBlocking
    producer,       \* where each producer is in push_*
    consumer,       \* where the consumer is in Update
    nMaxMessages,   \* Update's parameter
    nMessageCount,  \* Update's counter
    pushed,         \* history: how many items were ever pushed
    taken,          \* history: the items the consumer popped
    missed          \* history: a notify_one ran between the consumer's last
                    \* empty() test and its lock of muxBlocking

vars == <<deqQueue, muxQueue, muxBlocking, producer, consumer, nMaxMessages,
          nMessageCount, pushed, taken, missed>>

Threads == Producers \cup {Consumer, NoThread}

\* idle: outside push_*; emplaced: holds muxQueue, wants muxBlocking;
\* notifying: holds both, about to notify_one
ProducerStates == {"idle", "emplaced", "notifying"}

\* wait() is test -> lock -> sleep -> asleep -> woken -> unlock -> test;
\* Update's loop is drain -> pop -> drain
ConsumerStates == {"idle", "test", "lock", "sleep", "asleep", "woken",
                   "unlock", "drain", "pop"}

Init ==
    /\ deqQueue = <<>>
    /\ muxQueue = NoThread
    /\ muxBlocking = NoThread
    /\ producer = [p \in Producers |-> "idle"]
    /\ consumer = "idle"
    /\ nMaxMessages = 0
    /\ nMessageCount = 0
    /\ pushed = 0
    /\ taken = {}
    /\ missed = FALSE

-----------------------------------------------------------------------------
(* push_back and push_front *)

\* lock muxQueue and emplace the item; muxQueue stays locked
Emplace(p, queue) ==
    /\ producer[p] = "idle"
    /\ muxQueue = NoThread
    /\ pushed < MaxPush
    /\ muxQueue' = p
    /\ deqQueue' = queue
    /\ pushed' = pushed + 1
    /\ producer' = [producer EXCEPT ![p] = "emplaced"]
    /\ UNCHANGED <<muxBlocking, consumer, nMaxMessages, nMessageCount, taken, missed>>

push_back(p) == Emplace(p, Append(deqQueue, pushed + 1))

push_front(p) == Emplace(p, <<pushed + 1>> \o deqQueue)

\* std::unique_lock<std::mutex> ul(muxBlocking)
LockBlocking(p) ==
    /\ producer[p] = "emplaced"
    /\ muxBlocking = NoThread
    /\ muxBlocking' = p
    /\ producer' = [producer EXCEPT ![p] = "notifying"]
    /\ UNCHANGED <<deqQueue, muxQueue, consumer, nMaxMessages, nMessageCount,
                   pushed, taken, missed>>

\* mutant: push_* without its notify_one
NotifyNobody(p) ==
    /\ producer[p] = "notifying"
    /\ muxBlocking' = NoThread
    /\ muxQueue' = NoThread
    /\ producer' = [producer EXCEPT ![p] = "idle"]
    /\ UNCHANGED <<deqQueue, consumer, nMaxMessages, nMessageCount, pushed,
                   taken, missed>>

\* cvBlocking.notify_one() and the release of both locks.  A notification
\* wakes a thread that sleeps on cvBlocking and is lost when none does.
Notify(p) ==
    /\ producer[p] = "notifying"
    /\ consumer' = IF consumer = "asleep" THEN "woken" ELSE consumer
    /\ missed' = (missed \/ consumer = "lock")
    /\ muxBlocking' = NoThread
    /\ muxQueue' = NoThread
    /\ producer' = [producer EXCEPT ![p] = "idle"]
    /\ UNCHANGED <<deqQueue, nMaxMessages, nMessageCount, pushed, taken>>

-----------------------------------------------------------------------------
(* server_interface::Update *)

\* the steps of the consumer that leave the queue and the producers alone
ConsumerOnly(next) ==
    /\ consumer' = next
    /\ UNCHANGED <<deqQueue, muxQueue, producer, nMaxMessages, pushed, taken>>

CallUpdate(max, bWait) ==
    /\ consumer = "idle"
    /\ consumer' = IF bWait THEN "test" ELSE "drain"
    /\ nMaxMessages' = max
    /\ nMessageCount' = 0
    /\ UNCHANGED <<deqQueue, muxQueue, muxBlocking, producer, pushed, taken, missed>>

\* while (empty()): empty() locks and unlocks muxQueue
WaitTest ==
    /\ consumer = "test"
    /\ muxQueue = NoThread
    /\ ConsumerOnly(IF deqQueue = <<>> THEN "lock" ELSE "drain")
    /\ missed' = FALSE
    /\ UNCHANGED <<muxBlocking, nMessageCount>>

WaitLock ==
    /\ consumer = "lock"
    /\ muxBlocking = NoThread
    /\ muxBlocking' = Consumer
    /\ ConsumerOnly("sleep")
    /\ UNCHANGED <<nMessageCount, missed>>

\* cvBlocking.wait(ul) releases muxBlocking and sleeps in one step
WaitSleep ==
    /\ consumer = "sleep"
    /\ muxBlocking' = NoThread
    /\ ConsumerOnly("asleep")
    /\ UNCHANGED <<nMessageCount, missed>>

\* a condition variable may wake a thread that nobody notified
SpuriousWakeup ==
    /\ consumer = "asleep"
    /\ ConsumerOnly("woken")
    /\ UNCHANGED <<muxBlocking, nMessageCount, missed>>

\* cvBlocking.wait takes muxBlocking again before it returns
WaitRelock ==
    /\ consumer = "woken"
    /\ muxBlocking = NoThread
    /\ muxBlocking' = Consumer
    /\ ConsumerOnly("unlock")
    /\ UNCHANGED <<nMessageCount, missed>>

\* mutant: ul is declared before the loop and kept while empty() is called
UnlockKeepsLock ==
    /\ consumer = "unlock"
    /\ ConsumerOnly("test")
    /\ UNCHANGED <<muxBlocking, nMessageCount, missed>>

\* ul leaves its scope at the end of the loop's body
WaitUnlock ==
    /\ consumer = "unlock"
    /\ muxBlocking' = NoThread
    /\ ConsumerOnly("test")
    /\ UNCHANGED <<nMessageCount, missed>>

\* mutant: Update pops without asking for empty()
DrainIgnoresEmpty ==
    /\ consumer = "drain"
    /\ ConsumerOnly(IF nMessageCount < nMaxMessages THEN "pop" ELSE "idle")
    /\ UNCHANGED <<muxBlocking, nMessageCount, missed>>

\* mutant: Update compares the counter with <=
DrainOneTooMany ==
    /\ consumer = "drain"
    /\ muxQueue = NoThread
    /\ ConsumerOnly(IF nMessageCount <= nMaxMessages /\ deqQueue # <<>>
                    THEN "pop" ELSE "idle")
    /\ UNCHANGED <<muxBlocking, nMessageCount, missed>>

\* while (nMessageCount < nMaxMessages && !m_qMessagesIn.empty())
DrainTest ==
    /\ consumer = "drain"
    /\ nMessageCount < nMaxMessages => muxQueue = NoThread
    /\ ConsumerOnly(IF nMessageCount < nMaxMessages /\ deqQueue # <<>>
                    THEN "pop" ELSE "idle")
    /\ UNCHANGED <<muxBlocking, nMessageCount, missed>>

\* lock muxQueue, move the item out, unlock, hand it to OnMessage
Pop(item, rest) ==
    /\ consumer = "pop"
    /\ muxQueue = NoThread
    /\ deqQueue' = rest
    /\ taken' = taken \cup {item}
    /\ nMessageCount' = nMessageCount + 1
    /\ consumer' = "drain"
    /\ UNCHANGED <<muxQueue, muxBlocking, producer, nMaxMessages, pushed, missed>>

\* mutant: the item is copied out and left in the deque
PopCopies == Pop(Head(deqQueue), deqQueue)

pop_front == Pop(Head(deqQueue), Tail(deqQueue))

pop_back == Pop(deqQueue[Len(deqQueue)], SubSeq(deqQueue, 1, Len(deqQueue) - 1))

\* clear(), also run by the destructor
clear ==
    /\ consumer = "idle"
    /\ muxQueue = NoThread
    /\ deqQueue' = <<>>
    /\ UNCHANGED <<muxQueue, muxBlocking, producer, consumer, nMaxMessages,
                   nMessageCount, pushed, taken, missed>>

-----------------------------------------------------------------------------
Push(p) == push_back(p) \/ push_front(p)

Update ==
    \/ WaitTest
    \/ WaitLock
    \/ WaitSleep
    \/ WaitRelock
    \/ WaitUnlock
    \/ DrainTest
    \/ pop_front

Next ==
    \/ \E p \in Producers : Push(p) \/ LockBlocking(p) \/ Notify(p)
    \/ \E max \in 0 .. MaxBatch, bWait \in BOOLEAN : CallUpdate(max, bWait)
    \/ Update
    \/ pop_back
    \/ SpuriousWakeup
    \/ clear

\* A thread inside push_* or Update keeps running.  Nothing makes a thread
\* start an operation, and nothing makes a condition variable wake by itself.
Fairness ==
    /\ \A p \in Producers : WF_vars(LockBlocking(p) \/ Notify(p))
    /\ WF_vars(Update)

Spec == Init /\ [][Next]_vars

FairSpec == Spec /\ Fairness

-----------------------------------------------------------------------------
(* Properties *)

\* The state of tsqueue and of the threads in it is well formed: the mutexes
\* belong to threads and Update has handled at most nMaxMessages messages.
TypeOK ==
    /\ deqQueue \in Seq(Nat)
    /\ muxQueue \in Threads
    /\ muxBlocking \in Threads
    /\ producer \in [Producers -> ProducerStates]
    /\ consumer \in ConsumerStates
    /\ nMaxMessages \in 0 .. MaxBatch
    /\ nMessageCount \in 0 .. nMaxMessages
    /\ pushed \in Nat
    /\ taken \subseteq Nat
    /\ missed \in BOOLEAN

\* pop_front() of an empty deque is undefined behaviour, and it tests nothing:
\* Update relies on empty() still being false when it takes muxQueue again.
\* With one consumer this holds however the producers interleave.
PopNeverEmpty == consumer = "pop" => deqQueue # <<>>

\* wait() does not lose a wake-up except in one window: when the consumer
\* sleeps on a non-empty queue, either the push that filled it has still to
\* notify, or its notification came between empty() and the lock of
\* muxBlocking (tsQueue.h lines 80 to 82).
SleepsOnlyIfMissed ==
    consumer = "asleep" /\ deqQueue # <<>> =>
        missed \/ \E p \in Producers : producer[p] \in {"emplaced", "notifying"}

\* push_* holds muxQueue while it waits for muxBlocking.  No order of the
\* consumer's steps can keep it there: every push that began is completed.
PushCompletes ==
    \A p \in Producers : producer[p] # "idle" ~> producer[p] = "idle"

\* A consumer that sleeps on a non-empty queue and did not miss the
\* notification is woken and gets to Update's loop.
SleeperServed ==
    consumer = "asleep" /\ deqQueue # <<>> /\ ~missed ~> consumer = "drain"

\* tsqueue is a double-ended queue with atomic operations: it implements
\* Mailbox, where no item is lost, duplicated or taken from an empty queue.
Deque == INSTANCE Mailbox WITH items <- deqQueue, arrived <- pushed
IsMailbox == Deque!Spec
=============================================================================
