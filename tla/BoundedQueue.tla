----------------------------- MODULE BoundedQueue -----------------------------
(***************************************************************************)
(* asic/bounded_queue.hpp: a bounded FIFO guarded by one mutex, with a     *)
(* condition variable for consumers and an explicit close.                 *)
(*                                                                         *)
(* Every member function holds mutex_ from start to end, so a call is one  *)
(* step, except wait_dequeue(), which gives the mutex up while it waits: a *)
(* consumer that finds nothing joins the waiters of available_, is woken   *)
(* by a notification or for no reason at all, and tests its predicate      *)
(* again when it gets the mutex back.  The elements are numbered in the    *)
(* order they are accepted; the queue never looks at them.                 *)
(***************************************************************************)
EXTENDS Naturals, Sequences, FiniteSets

CONSTANTS
    Capacity,    \* capacity_; the constructor throws on 0
    Consumers,   \* threads that call try_dequeue and wait_dequeue
    MaxItems     \* bound: elements accepted in a behaviour

ASSUME QueueAssumption ==
    /\ Capacity \in Nat \ {0}
    /\ MaxItems \in Nat
    /\ IsFiniteSet(Consumers)

VARIABLES
    queue,     \* queue_
    closed,    \* closed_
    waiting,   \* consumers blocked on available_
    woken,     \* consumers woken but not yet back in the mutex
    accepted,  \* number of elements enqueued so far
    taken,     \* elements dequeued so far, in order
    drained    \* consumers to whom wait_dequeue returned nullopt

vars == <<queue, closed, waiting, woken, accepted, taken, drained>>

Items == 1..MaxItems
Idle == Consumers \ (waiting \cup woken)

Init ==
    /\ queue = <<>>
    /\ closed = FALSE
    /\ waiting = {}
    /\ woken = {}
    /\ accepted = 0
    /\ taken = <<>>
    /\ drained = {}

-----------------------------------------------------------------------------
\* Mutant: notify only when the queue stops being empty.
NotifyOne_FromEmpty ==
    IF queue = <<>> /\ waiting # {}
    THEN \E c \in waiting : /\ waiting' = waiting \ {c}
                            /\ woken' = woken \cup {c}
    ELSE UNCHANGED <<waiting, woken>>

\* available_.notify_one()
NotifyOne ==
    IF waiting # {}
    THEN \E c \in waiting : /\ waiting' = waiting \ {c}
                            /\ woken' = woken \cup {c}
    ELSE UNCHANGED <<waiting, woken>>

\* Mutant: close() notifies a single waiter.
NotifyAll_One == NotifyOne

\* available_.notify_all()
NotifyAll ==
    /\ waiting' = {}
    /\ woken' = woken \cup waiting

\* pop_front() with an element there.
PopFront ==
    /\ taken' = Append(taken, Head(queue))
    /\ queue' = Tail(queue)

\* Mutant: the element goes to the front of the deque.
Accept_Front ==
    /\ queue' = <<accepted + 1>> \o queue
    /\ accepted' = accepted + 1

\* queue_.push_back
Accept ==
    /\ queue' = Append(queue, accepted + 1)
    /\ accepted' = accepted + 1

\* Mutant: > for >=.
Full_OffByOne == Len(queue) > Capacity

Full == Len(queue) >= Capacity

-----------------------------------------------------------------------------
\* try_enqueue by any thread.
TryEnqueue ==
    /\ accepted < MaxItems
    /\ ~closed
    /\ ~Full
    /\ Accept
    /\ NotifyOne
    /\ UNCHANGED <<closed, taken, drained>>

\* try_enqueue on a closed or a full queue gives the element back.
TryEnqueueRefused ==
    /\ closed \/ Full
    /\ UNCHANGED vars

\* try_dequeue by any thread, also one that does not wait.
TryDequeue ==
    /\ queue # <<>>
    /\ PopFront
    /\ UNCHANGED <<closed, waiting, woken, accepted, drained>>

\* The predicate wait_dequeue waits for.
Ready == closed \/ queue # <<>>

\* wait_dequeue returns: pop_front() under the mutex.
Return(c) ==
    IF queue # <<>>
    THEN PopFront /\ UNCHANGED drained
    ELSE drained' = drained \cup {c} /\ UNCHANGED <<queue, taken>>

\* wait_dequeue is called; it returns at once or starts to wait.
WaitDequeue(c) ==
    /\ c \in Idle
    /\ \/ /\ Ready
          /\ Return(c)
          /\ UNCHANGED waiting
       \/ /\ ~Ready
          /\ waiting' = waiting \cup {c}
          /\ UNCHANGED <<queue, taken, drained>>
    /\ UNCHANGED <<closed, woken, accepted>>

\* Mutant: the predicate is not tested again after a wake-up.
Resume_NoRetest(c) ==
    /\ c \in woken
    /\ woken' = woken \ {c}
    /\ Return(c)
    /\ UNCHANGED <<closed, waiting, accepted>>

\* A woken consumer has the mutex again and tests the predicate.
Resume(c) ==
    /\ c \in woken
    /\ woken' = woken \ {c}
    /\ \/ /\ Ready
          /\ Return(c)
          /\ UNCHANGED waiting
       \/ /\ ~Ready
          /\ waiting' = waiting \cup {c}
          /\ UNCHANGED <<queue, taken, drained>>
    /\ UNCHANGED <<closed, accepted>>

\* A condition variable may wake a waiter without a notification.
SpuriousWakeup(c) ==
    /\ c \in waiting
    /\ waiting' = waiting \ {c}
    /\ woken' = woken \cup {c}
    /\ UNCHANGED <<queue, closed, accepted, taken, drained>>

\* close(); a second close() changes nothing.
Close ==
    /\ ~closed
    /\ closed' = TRUE
    /\ NotifyAll
    /\ UNCHANGED <<queue, accepted, taken, drained>>

Next ==
    \/ TryEnqueue
    \/ TryEnqueueRefused
    \/ TryDequeue
    \/ Close
    \/ \E c \in Consumers : WaitDequeue(c) \/ Resume(c) \/ SpuriousWakeup(c)

Spec == Init /\ [][Next]_vars

\* A thread that was woken gets the mutex sooner or later.
FairSpec == Spec /\ \A c \in Consumers : WF_vars(Resume(c))

-----------------------------------------------------------------------------
(* Properties *)

\* Types of the state; a consumer is blocked in at most one way.
TypeOK ==
    /\ queue \in Seq(Nat)
    /\ closed \in BOOLEAN
    /\ waiting \subseteq Consumers
    /\ woken \subseteq Consumers
    /\ waiting \cap woken = {}
    /\ accepted \in 0..MaxItems
    /\ taken \in Seq(Nat)
    /\ drained \subseteq Consumers

\* The queue never holds more than capacity_ elements.
WithinCapacity == Len(queue) <= Capacity

\* Elements leave in the order they were accepted, none lost and none handed
\* out twice, whoever takes them.
Fifo ==
    /\ Len(taken) + Len(queue) = accepted
    /\ \A i \in 1..Len(taken) : taken[i] = i
    /\ \A i \in 1..Len(queue) : queue[i] = Len(taken) + i

\* No wake-up is lost: while a consumer is blocked, every element in the queue
\* has a woken consumer on its way to it, although notify_one is called once
\* per element and a try_dequeue may take an element a consumer was woken for.
NoLostWakeup ==
    waiting # {} => /\ ~closed
                    /\ Len(queue) <= Cardinality(woken)

\* wait_dequeue returns nullopt only when the queue is closed and everything
\* accepted before the close has been handed out.
NulloptMeansDrained ==
    drained # {} => closed /\ queue = <<>>

\* After close() every consumer that is blocked returns.
CloseReleases ==
    \A c \in Consumers :
        (closed /\ c \in waiting \cup woken) ~> (c \in Idle)

\* An element that reaches the front while a consumer is blocked is taken.
FrontIsTaken ==
    \A i \in Items :
        (queue # <<>> /\ Head(queue) = i /\ waiting \cup woken # {})
        ~> (Len(taken) >= i)
=============================================================================
