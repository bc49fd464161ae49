----------------------------- MODULE ObserverApp -----------------------------
(***************************************************************************)
(* apps/observer/main.cpp: the two threads of the observer program.  The   *)
(* receiver thread owns the ObserverClient; after an applied update it     *)
(* copies the client's scene into shared_scene under scene_mutex and then  *)
(* updates the telemetry atomics.  The main thread copies shared_scene     *)
(* under the same mutex, lets the window system run, and presents its      *)
(* copy; when the window is closed it stops and joins the receiver.        *)
(*                                                                         *)
(* A scene is a set of elements copied one at a time.  By SceneSync        *)
(* the client's scene is whole; here the number `applied` of updates the   *)
(* client has applied tells its scenes apart, and `drawn` is the revision  *)
(* of the last one.  Revision numbers start again with each session, so    *)
(* they neither count nor order the updates, and the synchronizer's own    *)
(* revision is back to 0 once it has met another session.                  *)
(***************************************************************************)
EXTENDS Naturals, FiniteSets

CONSTANTS
    Elements,      \* nodes and links of the scene
    MaxApplied,    \* bound: updates the client applies
    MaxRevision,   \* bound: revision numbers of a session
    MaxResyncs     \* bound: resynchronizations counted

ASSUME ObserverAppAssumption ==
    /\ IsFiniteSet(Elements)
    /\ MaxApplied \in Nat
    /\ MaxRevision \in Nat
    /\ MaxResyncs \in Nat

VARIABLES
    rpc, mpc,     \* where the receiver and the main thread are
    owner, todo,  \* who holds scene_mutex, and what it has still to copy
    client,       \* the ObserverClient: updates applied and the revision of
                  \* the last, the synchronizer's revision and synchronized
                  \* flag, and what receive_next returned last
    stats,        \* the atomics revision, snapshots, deltas and resyncs
    receiving,    \* the atomic the main thread stops the receiver with
    shared,       \* shared_scene
    frame,        \* frame_scene
    presented,    \* what the window shows
    closing       \* window.should_close()

mutex  == <<owner, todo>>
window == <<frame, presented, closing>>
vars   == <<rpc, mpc, mutex, client, stats, receiving, shared, window>>

Blank == [e \in Elements |-> 0]

Init ==
    /\ rpc = "check" /\ mpc = "loop"
    /\ owner = "free" /\ todo = {}
    /\ client = [applied |-> 0, drawn |-> 0, revision |-> 0,
                 synchronized |-> FALSE, result |-> "none"]
    /\ stats = [revision |-> 0, snapshots |-> 0, deltas |-> 0, resyncs |-> 0]
    /\ receiving = TRUE
    /\ shared = Blank /\ frame = Blank /\ presented = Blank
    /\ closing = FALSE

-----------------------------------------------------------------------------
(* scene_mutex: a lock_guard around a copy made element by element *)

Lock(thread) ==
    /\ owner = "free"
    /\ owner' = thread
    /\ todo' = Elements

CopyOne(e) ==
    /\ e \in todo
    /\ todo' = todo \ {e}
    /\ UNCHANGED owner

Unlock ==
    /\ todo = {}
    /\ owner' = "free"
    /\ UNCHANGED todo

-----------------------------------------------------------------------------
(* The receiver thread *)

\* while (receiving.load())
CheckReceiving ==
    /\ rpc = "check"
    /\ rpc' = IF receiving THEN "receive" ELSE "done"
    /\ UNCHANGED <<mutex, client, stats, shared>>

\* consume() takes a snapshot of any session, whatever its revision, or a
\* delta that leads on from the revision the client is synchronized at.
Applies(r, revision) ==
    r = "applied_delta" => client.synchronized /\ revision > client.revision

\* Mutant: only a snapshot replaces the shared scene.
ReceiveApplied_SnapshotsOnly(r, revision) ==
    /\ rpc = "receive"
    /\ client.applied < MaxApplied
    /\ Applies(r, revision)
    /\ client' = [applied |-> client.applied + 1, drawn |-> revision,
                  revision |-> revision, synchronized |-> TRUE, result |-> r]
    /\ rpc' = IF r = "applied_snapshot" THEN "lock" ELSE "store"
    /\ UNCHANGED <<mutex, stats, shared>>

\* receive_next applies an update.
ReceiveApplied(r, revision) ==
    /\ rpc = "receive"
    /\ client.applied < MaxApplied
    /\ Applies(r, revision)
    /\ client' = [applied |-> client.applied + 1, drawn |-> revision,
                  revision |-> revision, synchronized |-> TRUE, result |-> r]
    /\ rpc' = "lock"
    /\ UNCHANGED <<mutex, stats, shared>>

\* receive_next asks for a snapshot: ++resyncs.  A datagram of another session
\* has reset the synchronizer, one of the same session has not.
ReceiveResync(newSession) ==
    /\ rpc = "receive"
    /\ stats.resyncs < MaxResyncs
    /\ client' = [client EXCEPT !.revision = IF newSession THEN 0 ELSE @,
                                !.synchronized = FALSE,
                                !.result = "resync_required"]
    /\ stats' = [stats EXCEPT !.resyncs = @ + 1]
    /\ rpc' = "check"
    /\ UNCHANGED <<mutex, shared>>

\* The 200 ms receive timeout, a malformed or an ignored datagram.
ReceiveNothing ==
    /\ rpc = "receive"
    /\ client' = [client EXCEPT !.result = "network_error"]
    /\ rpc' = "check"
    /\ UNCHANGED <<mutex, stats, shared>>

\* shared_scene = client.scene() under the mutex.
PublishScene ==
    \/ /\ rpc = "lock" /\ Lock("receiver") /\ rpc' = "copy"
       /\ UNCHANGED shared
    \/ /\ rpc = "copy" /\ UNCHANGED rpc
       /\ \E e \in Elements :
             CopyOne(e) /\ shared' = [shared EXCEPT ![e] = client.applied]
    \/ /\ rpc = "copy" /\ Unlock /\ rpc' = "store"
       /\ UNCHANGED shared

\* revision.store, then ++snapshots or ++deltas.
UpdateTelemetry ==
    \/ /\ rpc = "store" /\ rpc' = "count"
       /\ stats' = [stats EXCEPT !.revision = client.revision]
    \/ /\ rpc = "count" /\ rpc' = "check"
       /\ stats' = IF client.result = "applied_snapshot"
                   THEN [stats EXCEPT !.snapshots = @ + 1]
                   ELSE [stats EXCEPT !.deltas = @ + 1]

Receiver ==
    /\ \/ CheckReceiving
       \/ \E r \in {"applied_snapshot", "applied_delta"},
             revision \in 1..MaxRevision : ReceiveApplied(r, revision)
       \/ \E newSession \in BOOLEAN : ReceiveResync(newSession)
       \/ ReceiveNothing
       \/ PublishScene /\ UNCHANGED <<client, stats>>
       \/ UpdateTelemetry /\ UNCHANGED <<mutex, client, shared>>
    /\ UNCHANGED <<mpc, receiving, window>>

-----------------------------------------------------------------------------
(* The main thread *)

\* while (!window.should_close()), with a fresh frame_scene.
StartFrame ==
    /\ mpc = "loop"
    /\ mpc' = IF closing THEN "stop" ELSE "lock"
    /\ frame' = Blank
    /\ UNCHANGED <<mutex, presented, closing, receiving>>

\* Mutant: the copy is made without the mutex.
CopyScene_NoMutex ==
    \/ /\ mpc = "lock" /\ mpc' = "copy"
       /\ owner' = owner /\ todo' = Elements
       /\ UNCHANGED frame
    \/ /\ mpc = "copy" /\ UNCHANGED mpc
       /\ \E e \in Elements :
             CopyOne(e) /\ frame' = [frame EXCEPT ![e] = shared[e]]
    \/ /\ mpc = "copy" /\ todo = {} /\ mpc' = "poll"
       /\ UNCHANGED <<mutex, frame>>

\* Mutant: std::try_to_lock, so that a frame does not wait for the receiver.
CopyScene_TryLock ==
    \/ /\ mpc = "lock" /\ Lock("main") /\ mpc' = "copy"
       /\ UNCHANGED frame
    \/ /\ mpc = "lock" /\ owner # "free" /\ mpc' = "poll"
       /\ UNCHANGED <<mutex, frame>>
    \/ /\ mpc = "copy" /\ UNCHANGED mpc
       /\ \E e \in Elements :
             CopyOne(e) /\ frame' = [frame EXCEPT ![e] = shared[e]]
    \/ /\ mpc = "copy" /\ Unlock /\ mpc' = "poll"
       /\ UNCHANGED frame

\* frame_scene = shared_scene under the mutex.
CopyScene ==
    \/ /\ mpc = "lock" /\ Lock("main") /\ mpc' = "copy"
       /\ UNCHANGED frame
    \/ /\ mpc = "copy" /\ UNCHANGED mpc
       /\ \E e \in Elements :
             CopyOne(e) /\ frame' = [frame EXCEPT ![e] = shared[e]]
    \/ /\ mpc = "copy" /\ Unlock /\ mpc' = "poll"
       /\ UNCHANGED frame

\* window.poll_events(): the user may have closed the window.
PollEvents(close) ==
    /\ mpc = "poll"
    /\ closing' = (closing \/ close)
    /\ mpc' = "present"
    /\ UNCHANGED <<mutex, frame, presented, receiving>>

\* window.present(frame_scene)
Present ==
    /\ mpc = "present"
    /\ presented' = frame
    /\ mpc' = "loop"
    /\ UNCHANGED <<mutex, frame, closing, receiving>>

\* Mutant: the receiver is joined without being told to stop.
StopReceiver_NoStore ==
    /\ mpc = "stop"
    /\ mpc' = "join"
    /\ UNCHANGED <<mutex, window, receiving>>

\* receiving.store(false)
StopReceiver ==
    /\ mpc = "stop"
    /\ receiving' = FALSE
    /\ mpc' = "join"
    /\ UNCHANGED <<mutex, window>>

\* Mutant: the thread is detached instead of joined.
Join_Detach ==
    /\ mpc = "join"
    /\ mpc' = "exited"
    /\ UNCHANGED <<mutex, window, receiving>>

\* receiver.join(), after which the totals are printed.
Join ==
    /\ mpc = "join"
    /\ rpc = "done"
    /\ mpc' = "exited"
    /\ UNCHANGED <<mutex, window, receiving>>

Main ==
    /\ \/ StartFrame
       \/ CopyScene /\ UNCHANGED <<presented, closing, receiving>>
       \/ \E close \in BOOLEAN : PollEvents(close)
       \/ Present
       \/ StopReceiver
       \/ Join
    /\ UNCHANGED <<rpc, client, stats, shared>>

\* The process is gone.
Exited == mpc = "exited" /\ UNCHANGED vars

Next == Receiver \/ Main \/ Exited

Spec == Init /\ [][Next]_vars

\* Both threads are scheduled, receive_next returns after its timeout at the
\* latest, and a thread that waits for scene_mutex gets it: the other holds it
\* only for a copy and then waits for the network or the display without it.
FairSpec ==
    /\ Spec
    /\ WF_vars(Receiver) /\ SF_vars(Receiver /\ Lock("receiver"))
    /\ WF_vars(Main) /\ SF_vars(Main /\ Lock("main"))

-----------------------------------------------------------------------------
(* Properties *)

\* Types of the state.
TypeOK ==
    /\ rpc \in {"check", "receive", "lock", "copy", "store", "count", "done"}
    /\ mpc \in {"loop", "lock", "copy", "poll", "present", "stop", "join",
                "exited"}
    /\ owner \in {"free", "receiver", "main"}
    /\ todo \subseteq Elements
    /\ client \in [applied: 0..MaxApplied, drawn: 0..MaxRevision,
                   revision: 0..MaxRevision, synchronized: BOOLEAN,
                   result: {"none", "applied_snapshot", "applied_delta",
                            "resync_required", "network_error"}]
    /\ stats \in [revision: 0..MaxRevision, snapshots: 0..MaxApplied,
                  deltas: 0..MaxApplied, resyncs: 0..MaxResyncs]
    /\ {shared, frame, presented} \subseteq [Elements -> 0..MaxApplied]
    /\ closing \in BOOLEAN
    /\ receiving \in BOOLEAN

\* The window never shows a frame that was copied while the receiver was
\* replacing the scene: all elements presented belong to one update.
FrameWhole == \A d, e \in Elements : presented[d] = presented[e]

\* The window never steps back, to an older scene or to the empty one, although
\* every frame starts out empty and the receiver may be replacing the scene
\* when the frame's turn comes.
FramesAdvance == [][\A e \in Elements : presented'[e] >= presented[e]]_vars

\* The totals printed at exit account for every update the client applied, the
\* revision printed is that of the last one, even if the synchronizer has met
\* another session since, and the exit code (snapshots > 0) says whether there
\* ever was a scene: join() comes after the receiver's last update is counted.
ExitTotals ==
    mpc = "exited" =>
        /\ stats.snapshots + stats.deltas = client.applied
        /\ stats.revision = client.drawn
        /\ (stats.snapshots > 0) = (client.applied > 0)

\* Closing the window ends the program, whatever the receiver is doing.
ShutdownCompletes == closing ~> (mpc = "exited")

\* An update the client applied reaches the screen unless the window closes.
AppliedIsShown ==
    \A r \in 1..MaxApplied :
        (client.applied = r)
        ~> (closing \/ \A e \in Elements : presented[e] >= r)
=============================================================================
