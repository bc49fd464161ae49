-------------------------- MODULE ObserverAppProofs --------------------------
(***************************************************************************)
(* Safety of the two threads of the observer program, for every set of     *)
(* scene elements and any number of updates.                               *)
(***************************************************************************)
EXTENDS ObserverApp, TLAPS

-----------------------------------------------------------------------------
(* The inductive invariant *)

\* scene_mutex: each thread holds it exactly while it copies.
MutexInv ==
    /\ (owner = "receiver") = (rpc = "copy")
    /\ (owner = "main") = (mpc = "copy")

\* The receiver has applied an update whose revision it has not announced, or
\* that it has not counted yet.
Unannounced == rpc \in {"lock", "copy", "store"}
Uncounted   == rpc \in {"lock", "copy", "store", "count"}

\* What is shared is the client's scene, up to the update on its way; in the
\* middle of the copy some elements are new and the others are those of the
\* update before.
SharedInv ==
    /\ Uncounted => /\ client.applied > 0
                    /\ client.result \in {"applied_snapshot", "applied_delta"}
    /\ \A e \in Elements :
          shared[e] = IF rpc = "lock" \/ (rpc = "copy" /\ e \in todo)
                      THEN client.applied - 1 ELSE client.applied

\* The frame agrees with what is shared as far as it is copied, and once the
\* mutex is released all of it belongs to one update.
FrameInv ==
    /\ mpc = "copy" => \A e \in Elements \ todo : frame[e] = shared[e]
    /\ mpc \in {"poll", "present"} =>
          \A d, e \in Elements : frame[d] = frame[e]
    /\ FrameWhole

\* What the window shows is never newer than the copy that will replace it,
\* which is never newer than what is shared.
OrderInv ==
    /\ \A e \in Elements : presented[e] <= shared[e]
    /\ mpc \in {"poll", "present"} =>
          \A e \in Elements : presented[e] <= frame[e] /\ frame[e] <= shared[e]

\* The telemetry follows the client, update by update, and whoever has applied
\* anything has applied a snapshot first.  Until it is announced, the revision
\* of the scene is the synchronizer's.
StatsInv ==
    /\ IF Unannounced THEN client.drawn = client.revision
                      ELSE client.drawn = stats.revision
    /\ stats.snapshots + stats.deltas = IF Uncounted THEN client.applied - 1
                                        ELSE client.applied
    /\ client.synchronized => client.applied > 0
    /\ client.applied > 0 => \/ stats.snapshots > 0
                             \/ Uncounted /\ client.result = "applied_snapshot"

\* The process ends only after its receiver thread.
ExitInv == mpc = "exited" => rpc = "done"

IInv ==
    TypeOK /\ MutexInv /\ SharedInv /\ FrameInv /\ OrderInv /\ StatsInv /\ ExitInv

-----------------------------------------------------------------------------
\* Before both threads start
LEMMA InitIInv == Init => IInv
<1>. SUFFICES ASSUME Init PROVE IInv
  OBVIOUS
<1>. USE ObserverAppAssumption DEF Init, Blank
<1>1. TypeOK
  <2>1. 0 \in 0..MaxApplied /\ 0 \in 0..MaxRevision /\ 0 \in 0..MaxResyncs
    OBVIOUS
  <2>2. Blank \in [Elements -> 0..MaxApplied]
    BY <2>1
  <2>. QED
    BY <2>1, <2>2 DEF TypeOK
<1>2. MutexInv /\ SharedInv /\ ExitInv
  BY DEF MutexInv, SharedInv, ExitInv, Uncounted
<1>3. FrameInv /\ OrderInv
  BY DEF FrameInv, FrameWhole, OrderInv
<1>4. StatsInv
  BY DEF StatsInv, Unannounced, Uncounted
<1>. QED
  BY <1>1, <1>2, <1>3, <1>4 DEF IInv

\* The steps of the receiver thread.
LEMMA ReceiverStep == IInv /\ Receiver => IInv'
<1>. SUFFICES ASSUME IInv, Receiver PROVE IInv'
  OBVIOUS
<1>. USE ObserverAppAssumption
     DEF IInv, mutex, window, Unannounced, Uncounted
<1>0. UNCHANGED <<mpc, receiving, frame, presented, closing>>
  BY DEF Receiver
<1>1. CASE CheckReceiving
  BY <1>0, <1>1 DEF CheckReceiving, TypeOK, MutexInv, SharedInv, FrameInv,
                    FrameWhole, OrderInv, StatsInv, ExitInv
<1>2. ASSUME NEW r \in {"applied_snapshot", "applied_delta"},
             NEW revision \in 1..MaxRevision, ReceiveApplied(r, revision)
      PROVE  IInv'
  <2>. USE <1>0, <1>2 DEF ReceiveApplied, Applies
  <2>1. TypeOK'
    BY DEF TypeOK
  <2>2. MutexInv' /\ ExitInv'
    BY DEF MutexInv, ExitInv
  <2>3. SharedInv'
    BY DEF SharedInv, TypeOK
  <2>4. FrameInv' /\ OrderInv'
    BY DEF FrameInv, FrameWhole, OrderInv
  <2>5. StatsInv'
    BY DEF StatsInv, TypeOK
  <2>. QED
    BY <2>1, <2>2, <2>3, <2>4, <2>5
<1>3. ASSUME NEW newSession \in BOOLEAN, ReceiveResync(newSession) PROVE IInv'
  <2>. USE <1>0, <1>3 DEF ReceiveResync
  <2>1. TypeOK'
    <3>1. stats.resyncs + 1 \in 0..MaxResyncs /\ 0 \in 0..MaxRevision
      BY DEF TypeOK
    <3>2. client'.revision \in 0..MaxRevision
      BY <3>1 DEF TypeOK
    <3>. QED
      BY <3>1, <3>2 DEF TypeOK
  <2>2. MutexInv' /\ ExitInv' /\ FrameInv' /\ OrderInv'
    BY DEF MutexInv, ExitInv, FrameInv, FrameWhole, OrderInv
  <2>3. SharedInv'
    BY DEF SharedInv, TypeOK
  <2>4. StatsInv'
    BY DEF StatsInv, TypeOK
  <2>. QED
    BY <2>1, <2>2, <2>3, <2>4
<1>6. CASE ReceiveNothing
  BY <1>0, <1>6 DEF ReceiveNothing, TypeOK, MutexInv, SharedInv, FrameInv,
                    FrameWhole, OrderInv, StatsInv, ExitInv
<1>4. CASE PublishScene /\ UNCHANGED <<client, stats>>
  <2>1. CASE rpc = "lock" /\ Lock("receiver") /\ rpc' = "copy" /\ UNCHANGED shared
    BY <1>0, <1>4, <2>1 DEF Lock, TypeOK, MutexInv, SharedInv, FrameInv,
                            FrameWhole, OrderInv, StatsInv, ExitInv
  <2>2. ASSUME NEW e \in Elements, rpc = "copy", UNCHANGED rpc, CopyOne(e),
               shared' = [shared EXCEPT ![e] = client.applied]
        PROVE  IInv'
    <3>. USE <1>0, <1>4, <2>2 DEF CopyOne
    <3>1. TypeOK'
      BY DEF TypeOK
    <3>2. MutexInv' /\ ExitInv' /\ StatsInv'
      BY DEF MutexInv, ExitInv, StatsInv
    <3>3. SharedInv'
      BY DEF SharedInv, TypeOK
    <3>4. mpc # "copy"
      BY DEF MutexInv
    <3>5. FrameInv'
      BY <3>4 DEF FrameInv, FrameWhole
    <3>6. OrderInv'
      BY DEF OrderInv, SharedInv, TypeOK
    <3>. QED
      BY <3>1, <3>2, <3>3, <3>5, <3>6
  <2>3. CASE rpc = "copy" /\ Unlock /\ rpc' = "store" /\ UNCHANGED shared
    BY <1>0, <1>4, <2>3 DEF Unlock, TypeOK, MutexInv, SharedInv, FrameInv,
                            FrameWhole, OrderInv, StatsInv, ExitInv
  <2>. QED
    BY <1>4, <2>1, <2>2, <2>3 DEF PublishScene
<1>5. CASE UpdateTelemetry /\ UNCHANGED <<mutex, client, shared>>
  <2>. USE <1>0, <1>5 DEF UpdateTelemetry
  <2>1. TypeOK'
    BY DEF TypeOK, StatsInv
  <2>2. MutexInv' /\ ExitInv' /\ FrameInv' /\ OrderInv' /\ SharedInv'
    BY DEF MutexInv, ExitInv, FrameInv, FrameWhole, OrderInv, SharedInv
  <2>3. StatsInv'
    BY DEF StatsInv, SharedInv, TypeOK
  <2>. QED
    BY <2>1, <2>2, <2>3
<1>. QED
  BY <1>1, <1>2, <1>3, <1>4, <1>5, <1>6 DEF Receiver

\* The steps of the main thread.
LEMMA MainStep == IInv /\ Main => IInv'
<1>. SUFFICES ASSUME IInv, Main PROVE IInv'
  OBVIOUS
<1>. USE ObserverAppAssumption
     DEF IInv, mutex, window, Unannounced, Uncounted
<1>0. UNCHANGED <<rpc, client, stats, shared>>
  BY DEF Main
<1>1. StatsInv'
  BY <1>0 DEF StatsInv
<1>2. CASE StartFrame
  BY <1>0, <1>1, <1>2 DEF StartFrame, Blank, TypeOK, MutexInv, SharedInv,
                          FrameInv, FrameWhole, OrderInv, ExitInv
<1>3. CASE CopyScene /\ UNCHANGED <<presented, closing, receiving>>
  <2>1. CASE mpc = "lock" /\ Lock("main") /\ mpc' = "copy" /\ UNCHANGED frame
    BY <1>0, <1>1, <1>3, <2>1 DEF Lock, TypeOK, MutexInv, SharedInv, FrameInv,
                                  FrameWhole, OrderInv, ExitInv
  <2>2. ASSUME NEW e \in Elements, mpc = "copy", UNCHANGED mpc, CopyOne(e),
               frame' = [frame EXCEPT ![e] = shared[e]]
        PROVE  IInv'
    <3>. USE <1>0, <1>3, <2>2 DEF CopyOne
    <3>1. TypeOK'
      BY DEF TypeOK
    <3>2. MutexInv' /\ ExitInv'
      BY DEF MutexInv, ExitInv
    <3>3. rpc # "copy"
      BY DEF MutexInv
    <3>4. SharedInv'
      BY <3>3 DEF SharedInv
    <3>5. FrameInv'
      BY DEF FrameInv, FrameWhole, TypeOK
    <3>6. OrderInv'
      BY DEF OrderInv
    <3>. QED
      BY <1>1, <3>1, <3>2, <3>4, <3>5, <3>6
  <2>3. CASE mpc = "copy" /\ Unlock /\ mpc' = "poll" /\ UNCHANGED frame
    <3>1. \A d, e \in Elements : frame[d] = frame[e]
      BY <2>3 DEF Unlock, FrameInv, SharedInv, MutexInv
    <3>2. \A e \in Elements : presented[e] <= frame[e] /\ frame[e] <= shared[e]
      BY <2>3 DEF Unlock, FrameInv, OrderInv, TypeOK
    <3>. QED
      BY <1>0, <1>1, <1>3, <2>3, <3>1, <3>2 DEF Unlock, TypeOK, MutexInv, SharedInv,
                                          FrameInv, FrameWhole, OrderInv, ExitInv
  <2>. QED
    BY <1>3, <2>1, <2>2, <2>3 DEF CopyScene
<1>4. ASSUME NEW close \in BOOLEAN, PollEvents(close) PROVE IInv'
  BY <1>0, <1>1, <1>4 DEF PollEvents, TypeOK, MutexInv, SharedInv, FrameInv,
                          FrameWhole, OrderInv, ExitInv
<1>5. CASE Present
  BY <1>0, <1>1, <1>5 DEF Present, TypeOK, MutexInv, SharedInv, FrameInv,
                          FrameWhole, OrderInv, ExitInv
<1>6. CASE StopReceiver
  BY <1>0, <1>1, <1>6 DEF StopReceiver, TypeOK, MutexInv, SharedInv, FrameInv,
                          FrameWhole, OrderInv, ExitInv
<1>7. CASE Join
  BY <1>0, <1>1, <1>7 DEF Join, TypeOK, MutexInv, SharedInv, FrameInv,
                          FrameWhole, OrderInv, ExitInv
<1>. QED
  BY <1>2, <1>3, <1>4, <1>5, <1>6, <1>7 DEF Main

\* Every step of either thread keeps the invariant.
LEMMA IInvStep == IInv /\ [Next]_vars => IInv'
<1>. SUFFICES ASSUME IInv, [Next]_vars PROVE IInv'
  OBVIOUS
<1>1. CASE UNCHANGED vars
  BY <1>1 DEF vars, mutex, window, IInv, TypeOK, MutexInv, SharedInv, FrameInv,
              FrameWhole, OrderInv, StatsInv, ExitInv, Unannounced, Uncounted
<1>. QED
  BY <1>1, ReceiverStep, MainStep DEF Next, Exited

\* In every interleaving of receiver thread and render loop the window shows
\* only frames whose elements belong to one update, and the totals and the
\* revision printed at exit account for every update the client applied.
THEOREM ObserverSafe == Spec => [](TypeOK /\ FrameWhole /\ ExitTotals)
<1>1. IInv => TypeOK /\ FrameWhole
  BY DEF IInv, FrameInv
<1>2. IInv => ExitTotals
  BY DEF IInv, TypeOK, StatsInv, ExitInv, ExitTotals, Unannounced, Uncounted
<1>. QED
  BY InitIInv, IInvStep, <1>1, <1>2, PTL DEF Spec

\* The window never steps back to an older or to the empty scene, however the
\* threads are scheduled: what is about to be presented is at least as new as
\* what is on the screen.
THEOREM FramesNeverStepBack == Spec => FramesAdvance
<1>. DEFINE Advance == \A e \in Elements : presented'[e] >= presented[e]
<1>1. IInv /\ [Next]_vars => [Advance]_vars
  <2>. SUFFICES ASSUME IInv, Next PROVE Advance
    OBVIOUS
  <2>1. CASE Present
    BY <2>1 DEF Present, IInv, OrderInv, TypeOK
  <2>2. CASE ~Present
    <3>1. presented' = presented
      BY <2>2 DEF Next, Receiver, Main, Exited, StartFrame, PollEvents,
                  StopReceiver, Join, window, vars
    <3>. QED
      BY <3>1 DEF IInv, TypeOK
  <2>. QED
    BY <2>1, <2>2
<1>. QED
  BY InitIInv, IInvStep, <1>1, PTL DEF Spec, FramesAdvance
=============================================================================
