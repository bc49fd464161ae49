-------------------------- MODULE BoundedQueueProofs --------------------------
(***************************************************************************)
(* Proofs about BoundedQueue for every capacity and every finite set of    *)
(* consumers.                                                              *)
(***************************************************************************)
EXTENDS BoundedQueue, FiniteSetTheorems, TLAPS

\* The woken consumers can be counted, also after one joins or leaves.
LEMMA WokenFinite ==
    ASSUME TypeOK
    PROVE  /\ IsFiniteSet(woken) /\ Cardinality(woken) \in Nat
           /\ \A c \in Consumers \ woken :
                 Cardinality(woken \cup {c}) = Cardinality(woken) + 1
           /\ \A c \in woken : Cardinality(woken \ {c}) = Cardinality(woken) - 1
<1>1. IsFiniteSet(woken)
  BY FS_Subset, QueueAssumption DEF TypeOK
<1>2. Cardinality(woken) \in Nat
  BY <1>1, FS_CardinalityType
<1>3. ASSUME NEW c \in Consumers \ woken
      PROVE  Cardinality(woken \cup {c}) = Cardinality(woken) + 1
  BY <1>1, FS_AddElement
<1>4. ASSUME NEW c \in woken
      PROVE  Cardinality(woken \ {c}) = Cardinality(woken) - 1
  BY <1>1, FS_RemoveElement
<1>. QED
  BY <1>1, <1>2, <1>3, <1>4

\* Taking the front element keeps the order of what is left.
LEMMA PopKeepsFifo ==
    ASSUME TypeOK, Fifo, queue # <<>>, PopFront, accepted' = accepted
    PROVE  /\ queue' \in Seq(Nat) /\ taken' \in Seq(Nat)
           /\ Len(queue') = Len(queue) - 1 /\ Len(queue) \in Nat \ {0}
           /\ Fifo'
<1>1. Len(queue) \in Nat \ {0} /\ queue[1] = Len(taken) + 1
  BY DEF TypeOK, Fifo
<1>2. /\ queue' \in Seq(Nat) /\ Len(queue') = Len(queue) - 1
      /\ \A i \in 1..Len(queue') : queue'[i] = queue[i + 1]
  BY <1>1 DEF TypeOK, PopFront
<1>3. /\ taken' \in Seq(Nat) /\ Len(taken') = Len(taken) + 1
      /\ \A i \in 1..Len(taken) : taken'[i] = taken[i]
      /\ taken'[Len(taken) + 1] = queue[1]
  BY <1>1 DEF TypeOK, PopFront
<1>4. Len(taken) \in Nat
  BY DEF TypeOK
<1>5. \A i \in 1..Len(taken') : taken'[i] = i
  BY <1>1, <1>3, <1>4 DEF Fifo
<1>6. \A i \in 1..Len(queue') : queue'[i] = Len(taken') + i
  <2>. TAKE i \in 1..Len(queue')
  <2>1. i + 1 \in 1..Len(queue)
    BY <1>1, <1>2
  <2>2. queue[i + 1] = Len(taken) + (i + 1)
    BY <2>1 DEF Fifo
  <2>. QED
    BY <1>2, <1>3, <1>4, <2>2
<1>7. Len(taken') + Len(queue') = accepted'
  BY <1>1, <1>2, <1>3, <1>4 DEF Fifo
<1>. QED
  BY <1>1, <1>2, <1>3, <1>5, <1>6, <1>7 DEF Fifo

\* The inductive invariant.
IInv ==
    TypeOK /\ WithinCapacity /\ Fifo /\ NoLostWakeup /\ NulloptMeansDrained

\* Accepting an element wakes a waiter if there is one.
LEMMA TryEnqueueKeeps == IInv /\ TryEnqueue => IInv'
<1>. SUFFICES ASSUME IInv, TryEnqueue PROVE IInv'
  OBVIOUS
<1>. USE QueueAssumption
<1>0. TypeOK /\ Fifo /\ Len(queue) \in Nat /\ Len(taken) \in Nat
      /\ accepted \in Nat
  BY DEF IInv, TypeOK
<1>1. /\ queue' \in Seq(Nat) /\ Len(queue') = Len(queue) + 1
      /\ \A i \in 1..Len(queue) : queue'[i] = queue[i]
      /\ queue'[Len(queue) + 1] = accepted + 1
      /\ accepted' \in 0..MaxItems
  BY <1>0 DEF TryEnqueue, Accept, TypeOK
<1>2. WithinCapacity'
  BY <1>0, <1>1 DEF TryEnqueue, Full, WithinCapacity
<1>3. Fifo'
  BY <1>0, <1>1 DEF TryEnqueue, Accept, Fifo
<1>4. TypeOK'
  BY <1>0, <1>1 DEF TryEnqueue, NotifyOne, TypeOK
<1>5. NoLostWakeup'
  <2>1. CASE waiting = {}
    BY <2>1 DEF TryEnqueue, NotifyOne, NoLostWakeup
  <2>2. CASE waiting # {}
    <3>1. PICK c \in waiting : woken' = woken \cup {c}
      BY <2>2 DEF TryEnqueue, NotifyOne
    <3>2. Cardinality(woken') = Cardinality(woken) + 1
      BY <1>0, <3>1, WokenFinite DEF TypeOK
    <3>3. Len(queue) <= Cardinality(woken) /\ Cardinality(woken) \in Nat
      BY <1>0, <2>2, WokenFinite DEF IInv, NoLostWakeup
    <3>. QED
      BY <1>0, <1>1, <3>2, <3>3 DEF NoLostWakeup, TryEnqueue
  <2>. QED
    BY <2>1, <2>2
<1>6. NulloptMeansDrained'
  BY DEF IInv, NulloptMeansDrained, TryEnqueue
<1>. QED
  BY <1>2, <1>3, <1>4, <1>5, <1>6 DEF IInv

\* A thread that takes an element without waiting cannot strand a waiter.
LEMMA TryDequeueKeeps == IInv /\ TryDequeue => IInv'
<1>. SUFFICES ASSUME IInv, TryDequeue PROVE IInv'
  OBVIOUS
<1>1. /\ queue' \in Seq(Nat) /\ taken' \in Seq(Nat)
      /\ Len(queue') = Len(queue) - 1 /\ Len(queue) \in Nat \ {0}
      /\ Fifo'
  BY PopKeepsFifo DEF IInv, TryDequeue
<1>2. TypeOK'
  BY <1>1 DEF IInv, TypeOK, TryDequeue
<1>3. WithinCapacity'
  BY <1>1, QueueAssumption DEF IInv, WithinCapacity
<1>4. NoLostWakeup'
  BY <1>1, WokenFinite DEF IInv, NoLostWakeup, TryDequeue
<1>5. NulloptMeansDrained'
  BY DEF IInv, NulloptMeansDrained, TryDequeue
<1>. QED
  BY <1>1, <1>2, <1>3, <1>4, <1>5 DEF IInv

\* wait_dequeue that finds its predicate true pops an element, or returns
\* nullopt from a closed and empty queue.
LEMMA ReturnKeeps ==
    ASSUME IInv, NEW c \in Consumers, Ready, Return(c),
           UNCHANGED <<closed, accepted>>
    PROVE  /\ Fifo' /\ WithinCapacity' /\ NulloptMeansDrained'
           /\ queue' \in Seq(Nat) /\ taken' \in Seq(Nat)
           /\ drained' \subseteq Consumers
           /\ queue # <<>> => Len(queue') = Len(queue) - 1
           /\ queue = <<>> => queue' = queue /\ closed
<1>1. CASE queue # <<>>
  <2>1. PopFront /\ drained' = drained
    BY <1>1 DEF Return
  <2>2. /\ queue' \in Seq(Nat) /\ taken' \in Seq(Nat)
        /\ Len(queue') = Len(queue) - 1 /\ Len(queue) \in Nat \ {0}
        /\ Fifo'
    BY <1>1, <2>1, PopKeepsFifo DEF IInv
  <2>3. WithinCapacity'
    BY <2>2, QueueAssumption DEF IInv, WithinCapacity
  <2>4. NulloptMeansDrained'
    BY <1>1, <2>1 DEF IInv, NulloptMeansDrained
  <2>. QED
    BY <1>1, <2>1, <2>2, <2>3, <2>4 DEF IInv, TypeOK
<1>2. CASE queue = <<>>
  <2>1. closed /\ drained' = drained \cup {c} /\ UNCHANGED <<queue, taken>>
    BY <1>2 DEF Return, Ready
  <2>. QED
    BY <1>2, <2>1
    DEF IInv, TypeOK, Fifo, WithinCapacity, NulloptMeansDrained
<1>. QED
  BY <1>1, <1>2

\* A consumer starts to wait only when there is nothing to take.
LEMMA WaitDequeueKeeps ==
    ASSUME IInv, NEW c \in Consumers, WaitDequeue(c)
    PROVE  IInv'
<1>1. CASE Ready
  <2>1. Return(c) /\ UNCHANGED <<waiting, closed, woken, accepted>>
    BY <1>1 DEF WaitDequeue
  <2>2. /\ Fifo' /\ WithinCapacity' /\ NulloptMeansDrained'
        /\ queue' \in Seq(Nat) /\ taken' \in Seq(Nat)
        /\ drained' \subseteq Consumers
        /\ queue # <<>> => Len(queue') = Len(queue) - 1
        /\ queue = <<>> => queue' = queue /\ closed
    BY <1>1, <2>1, ReturnKeeps
  <2>3. TypeOK'
    BY <2>1, <2>2 DEF IInv, TypeOK
  <2>4. Len(queue') <= Len(queue) /\ Len(queue) \in Nat /\ Len(queue') \in Nat
    BY <2>2 DEF IInv, TypeOK
  <2>5. NoLostWakeup'
    BY <2>1, <2>4, WokenFinite DEF IInv, NoLostWakeup
  <2>. QED
    BY <2>2, <2>3, <2>5 DEF IInv
<1>2. CASE ~Ready
  <2>1. /\ waiting' = waiting \cup {c} /\ c \in Idle
        /\ UNCHANGED <<queue, taken, drained, closed, woken, accepted>>
        /\ queue = <<>> /\ ~closed
    BY <1>2 DEF WaitDequeue, Ready
  <2>2. TypeOK'
    BY <2>1 DEF IInv, TypeOK, Idle
  <2>3. NoLostWakeup'
    BY <2>1, WokenFinite DEF IInv, NoLostWakeup
  <2>. QED
    BY <2>1, <2>2, <2>3
    DEF IInv, Fifo, WithinCapacity, NulloptMeansDrained
<1>. QED
  BY <1>1, <1>2

\* A woken consumer takes one element off the queue when it leaves the woken
\* set, or goes back to waiting on an empty queue.
LEMMA ResumeKeeps ==
    ASSUME IInv, NEW c \in Consumers, Resume(c)
    PROVE  IInv'
<1>0. /\ c \in woken /\ woken' = woken \ {c}
      /\ UNCHANGED <<closed, accepted>>
      /\ Cardinality(woken') = Cardinality(woken) - 1
      /\ Cardinality(woken) \in Nat
  BY WokenFinite DEF Resume, IInv
<1>1. CASE Ready
  <2>1. Return(c) /\ UNCHANGED waiting
    BY <1>1 DEF Resume
  <2>2. /\ Fifo' /\ WithinCapacity' /\ NulloptMeansDrained'
        /\ queue' \in Seq(Nat) /\ taken' \in Seq(Nat)
        /\ drained' \subseteq Consumers
        /\ queue # <<>> => Len(queue') = Len(queue) - 1
        /\ queue = <<>> => queue' = queue /\ closed
    BY <1>0, <1>1, <2>1, ReturnKeeps
  <2>3. TypeOK'
    BY <1>0, <2>1, <2>2 DEF IInv, TypeOK
  <2>4. NoLostWakeup'
    <3>. SUFFICES ASSUME waiting' # {}
                  PROVE  ~closed' /\ Len(queue') <= Cardinality(woken')
      BY DEF NoLostWakeup
    <3>1. ~closed /\ Len(queue) <= Cardinality(woken)
      BY <2>1 DEF IInv, NoLostWakeup
    <3>2. Len(queue') = Len(queue) - 1 /\ Len(queue) \in Nat
      BY <2>2, <3>1 DEF IInv, TypeOK
    <3>. QED
      BY <1>0, <3>1, <3>2
  <2>. QED
    BY <2>2, <2>3, <2>4 DEF IInv
<1>2. CASE ~Ready
  <2>1. /\ waiting' = waiting \cup {c}
        /\ UNCHANGED <<queue, taken, drained>>
        /\ queue = <<>> /\ ~closed
    BY <1>2 DEF Resume, Ready
  <2>2. TypeOK'
    BY <1>0, <2>1 DEF IInv, TypeOK
  <2>3. Cardinality(woken') \in Nat
    BY <2>2, QueueAssumption, FS_Subset, FS_CardinalityType DEF TypeOK
  <2>4. NoLostWakeup'
    BY <1>0, <2>1, <2>3 DEF NoLostWakeup
  <2>. QED
    BY <1>0, <2>1, <2>2, <2>4
    DEF IInv, Fifo, WithinCapacity, NulloptMeansDrained
<1>. QED
  BY <1>1, <1>2

\* A spurious wake-up only adds to the consumers on their way.
LEMMA SpuriousWakeupKeeps ==
    ASSUME IInv, NEW c \in Consumers, SpuriousWakeup(c)
    PROVE  IInv'
<1>1. /\ c \in waiting /\ waiting' = waiting \ {c}
      /\ woken' = woken \cup {c}
      /\ UNCHANGED <<queue, closed, accepted, taken, drained>>
  BY DEF SpuriousWakeup
<1>2. TypeOK'
  BY <1>1 DEF IInv, TypeOK
<1>3. Cardinality(woken') = Cardinality(woken) + 1 /\ Cardinality(woken) \in Nat
  BY <1>1, WokenFinite DEF IInv, TypeOK
<1>4. Len(queue) \in Nat
  BY DEF IInv, TypeOK
<1>5. NoLostWakeup'
  BY <1>1, <1>3, <1>4 DEF IInv, NoLostWakeup
<1>. QED
  BY <1>1, <1>2, <1>5 DEF IInv, Fifo, WithinCapacity, NulloptMeansDrained

\* close() leaves no one waiting.
LEMMA CloseKeeps == IInv /\ Close => IInv'
<1>. SUFFICES ASSUME IInv, Close PROVE IInv'
  OBVIOUS
<1>1. TypeOK'
  BY DEF IInv, TypeOK, Close, NotifyAll
<1>. QED
  BY <1>1 DEF IInv, Close, NotifyAll, Fifo, WithinCapacity, NoLostWakeup,
              NulloptMeansDrained

\* The queue keeps its bound and its order, hands out every element once,
\* loses no wake-up and reports exhaustion only when it is closed and empty,
\* for every interleaving of producers, consumers and close().
THEOREM QueueCorrect ==
    Spec => [](TypeOK /\ WithinCapacity /\ Fifo /\ NoLostWakeup
               /\ NulloptMeansDrained)
<1>1. Init => IInv
  <2>. SUFFICES ASSUME Init PROVE IInv
    OBVIOUS
  <2>1. TypeOK
    <3>1. <<>> \in Seq(Nat)
      OBVIOUS
    <3>2. 0 \in 0..MaxItems
      BY QueueAssumption
    <3>3. {} \subseteq Consumers /\ FALSE \in BOOLEAN /\ {} \cap {} = {}
      OBVIOUS
    <3>. QED
      BY <3>1, <3>2, <3>3, Zenon DEF Init, TypeOK
  <2>2. WithinCapacity /\ Fifo
    BY QueueAssumption DEF Init, WithinCapacity, Fifo
  <2>3. NoLostWakeup /\ NulloptMeansDrained
    BY DEF Init, NoLostWakeup, NulloptMeansDrained
  <2>. QED
    BY <2>1, <2>2, <2>3 DEF IInv
<1>2. IInv /\ [Next]_vars => IInv'
  <2>. SUFFICES ASSUME IInv, [Next]_vars PROVE IInv'
    OBVIOUS
  <2>1. CASE UNCHANGED vars
    BY <2>1 DEF vars, IInv, TypeOK, WithinCapacity, Fifo, NoLostWakeup,
                NulloptMeansDrained
  <2>2. CASE TryEnqueueRefused
    BY <2>1, <2>2 DEF TryEnqueueRefused
  <2>. QED
    BY <2>1, <2>2, TryEnqueueKeeps, TryDequeueKeeps, CloseKeeps,
       WaitDequeueKeeps, ResumeKeeps, SpuriousWakeupKeeps
    DEF Next
<1>3. IInv => TypeOK /\ WithinCapacity /\ Fifo /\ NoLostWakeup
              /\ NulloptMeansDrained
  BY DEF IInv
<1>. QED
  BY <1>1, <1>2, <1>3, PTL DEF Spec
=============================================================================
