--------------------------- MODULE LabOrchestrator ---------------------------
(***************************************************************************)
(* LabOrchestrator (orchestrator.py): child processes, each with a log     *)
(* file of its own, started in order and stopped in reverse.  Calls are    *)
(* made by one script; what interleaves with them are the children, which  *)
(* exit when they like, the timeout of wait(), and KeyboardInterrupt,      *)
(* which `except Exception` does not catch.                                *)
(*                                                                         *)
(* A child is known by the number of its start.  stop_all over the dict    *)
(* is the list of children still to be stopped; the waiting child is the   *)
(* one stop() has taken out of the dict and not finished with.             *)
(***************************************************************************)
EXTENDS Naturals, FiniteSets, SequencesExt

CONSTANTS
    Specs,          \* names of the ProcessSpecs
    Commands,       \* those among them whose command is not empty
    Plans,          \* sequences of Specs a script may start together
    MaxStarts,      \* bound: children started
    MaxInterrupts   \* bound: KeyboardInterrupts in its calls

ASSUME OrchestratorAssumption ==
    /\ MaxStarts \in Nat /\ MaxInterrupts \in Nat
    /\ Commands \subseteq Specs
    /\ Plans \subseteq Seq(Specs)

VARIABLES
    children,    \* every child ever started, by number
    processes,   \* _processes: numbers, in the order of the dict
    task,        \* the call in progress
    outcome,     \* what the last call did
    interrupts   \* KeyboardInterrupts in these calls so far

orchestratorVars == <<children, processes, task, outcome, interrupts>>

NoTask == [call |-> "none", plan |-> <<>>, victims |-> <<>>, waiting |-> 0,
           killed |-> FALSE, failed |-> FALSE]

Free == task = NoTask

Tracked == Range(processes)
Tracks(name) == \E c \in Tracked : children[c].name = name

Return(what) == task' = NoTask /\ outcome' = what

-----------------------------------------------------------------------------
(* start and start_all *)

Child(spec) == [name |-> spec, alive |-> TRUE, told |-> "nothing",
                log |-> TRUE]

Startable(spec) == ~Tracks(spec) /\ spec \in Commands

\* Popen succeeds; the child is entered into the dict.
Spawn(spec) ==
    /\ Startable(spec) /\ Len(children) < MaxStarts
    /\ children' = Append(children, Child(spec))
    /\ processes' = Append(processes, Len(children) + 1)
    /\ UNCHANGED interrupts

\* KeyboardInterrupt after Popen and before the dict knows the child
SpawnInterrupted(spec) ==
    /\ Startable(spec) /\ Len(children) < MaxStarts
    /\ interrupts < MaxInterrupts
    /\ children' = Append(children, Child(spec))
    /\ interrupts' = interrupts + 1
    /\ UNCHANGED processes

\* start on its own; one that raises leaves everything as it was.
Start(spec) ==
    /\ Free
    /\ \/ Spawn(spec) /\ outcome' = "started"
       \/ SpawnInterrupted(spec) /\ outcome' = "interrupted"
    /\ UNCHANGED task

\* reversed(tuple(self._processes))
StopOrder == Reverse(processes)

\* Mutant: a start that fails ends start_all without cleaning up.
StartFails_KeepsOthers ==
    /\ task.call = "start_all" /\ task.plan # <<>> /\ ~task.failed
    /\ Return("raised")
    /\ UNCHANGED <<children, processes, interrupts>>

\* start raises: the name is taken, the command is empty, the log cannot be
\* opened, or Popen fails and the log is closed again.  start_all then stops
\* everything there is, also what was started before it was called.
StartFails ==
    /\ task.call = "start_all" /\ task.plan # <<>> /\ ~task.failed
    /\ task' = [task EXCEPT !.failed = TRUE, !.plan = <<>>,
                            !.victims = StopOrder]
    /\ UNCHANGED <<children, processes, outcome, interrupts>>

CallStartAll(plan) ==
    /\ Free
    /\ task' = [NoTask EXCEPT !.call = "start_all", !.plan = plan]
    /\ outcome' = "none"
    /\ UNCHANGED <<children, processes, interrupts>>

StartNext ==
    /\ task.call = "start_all" /\ task.plan # <<>>
    /\ Spawn(Head(task.plan))
    /\ task' = [task EXCEPT !.plan = Tail(@)]
    /\ UNCHANGED outcome

StartedAll ==
    /\ task.call = "start_all" /\ task.plan = <<>> /\ ~task.failed
    /\ Return("started")
    /\ UNCHANGED <<children, processes, interrupts>>

\* The same in a start_all, whose `except Exception` lets it through.
StartInterrupted ==
    /\ task.call = "start_all" /\ task.plan # <<>>
    /\ SpawnInterrupted(Head(task.plan))
    /\ Return("interrupted")

-----------------------------------------------------------------------------
(* stop and stop_all *)

CallStop(c) ==
    /\ Free /\ c \in Tracked
    /\ task' = [NoTask EXCEPT !.call = "stop", !.victims = <<c>>]
    /\ outcome' = "none"
    /\ UNCHANGED <<children, processes, interrupts>>

\* Also the end of the with statement
CallStopAll ==
    /\ Free
    /\ task' = [NoTask EXCEPT !.call = "stop_all", !.victims = StopOrder]
    /\ outcome' = "none"
    /\ UNCHANGED <<children, processes, interrupts>>

\* Mutant: a child that has exited already keeps its log open.
StopNext_LeavesLog ==
    LET c == Head(task.victims) IN
    /\ task.victims # <<>> /\ task.waiting = 0
    /\ processes' = RemoveFirst(processes, c)
    /\ IF children[c].alive
       THEN /\ children' = [children EXCEPT ![c].told = "terminate"]
            /\ task' = [task EXCEPT !.victims = Tail(@), !.waiting = c]
       ELSE /\ task' = [task EXCEPT !.victims = Tail(@)]
            /\ UNCHANGED children
    /\ UNCHANGED <<outcome, interrupts>>

\* Mutant: stop does not wait for the child it has told to terminate.
StopNext_NoWait ==
    LET c == Head(task.victims) IN
    /\ task.victims # <<>> /\ task.waiting = 0
    /\ processes' = RemoveFirst(processes, c)
    /\ children' = [children EXCEPT ![c].told = "terminate", ![c].log = FALSE]
    /\ task' = [task EXCEPT !.victims = Tail(@)]
    /\ UNCHANGED <<outcome, interrupts>>

\* stop, up to its wait(): the child leaves the dict; if it is still running
\* it is told to terminate, and else its log is closed.
StopNext ==
    LET c == Head(task.victims) IN
    /\ task.victims # <<>> /\ task.waiting = 0
    /\ processes' = RemoveFirst(processes, c)
    /\ IF children[c].alive
       THEN /\ children' = [children EXCEPT ![c].told = "terminate"]
            /\ task' = [task EXCEPT !.victims = Tail(@), !.waiting = c]
       ELSE /\ children' = [children EXCEPT ![c].log = FALSE]
            /\ task' = [task EXCEPT !.victims = Tail(@)]
    /\ UNCHANGED <<outcome, interrupts>>

\* Mutant: a child that ignores terminate() is told again, not killed.
WaitTimesOut_TerminatesAgain ==
    /\ task.waiting # 0 /\ ~task.killed
    /\ children[task.waiting].alive
    /\ task' = [task EXCEPT !.killed = TRUE]
    /\ UNCHANGED <<children, processes, outcome, interrupts>>

\* wait(timeout) raises TimeoutExpired; the next wait() has no timeout.
WaitTimesOut ==
    /\ task.waiting # 0 /\ ~task.killed
    /\ children[task.waiting].alive
    /\ children' = [children EXCEPT ![task.waiting].told = "kill"]
    /\ task' = [task EXCEPT !.killed = TRUE]
    /\ UNCHANGED <<processes, outcome, interrupts>>

WaitEnds ==
    /\ task.waiting # 0 /\ ~children[task.waiting].alive
    /\ children' = [children EXCEPT ![task.waiting].log = FALSE]
    /\ task' = [task EXCEPT !.waiting = 0, !.killed = FALSE]
    /\ UNCHANGED <<processes, outcome, interrupts>>

\* KeyboardInterrupt elsewhere in a call.  In stop, the child is no longer in
\* the dict and the ones that were to follow still are; in start_all, what
\* was started stays.
CallInterrupted ==
    /\ ~Free /\ interrupts < MaxInterrupts
    /\ interrupts' = interrupts + 1
    /\ Return("interrupted")
    /\ UNCHANGED <<children, processes>>

StoppedAll ==
    /\ task.call \in {"stop", "stop_all"} \/ task.failed
    /\ task.victims = <<>> /\ task.waiting = 0
    /\ Return(IF task.failed THEN "raised"
              ELSE IF task.call = "stop" THEN "stopped" ELSE "stopped_all")
    /\ UNCHANGED <<children, processes, interrupts>>

\* A child exits, by itself or because it was told to.
ChildExits(c) ==
    /\ children[c].alive
    /\ children' = [children EXCEPT ![c].alive = FALSE]
    /\ UNCHANGED <<processes, task, outcome, interrupts>>

-----------------------------------------------------------------------------
OrchestratorInit ==
    /\ children = <<>> /\ processes = <<>> /\ task = NoTask
    /\ outcome = "none" /\ interrupts = 0

OrchestratorCall ==
    \/ \E spec \in Specs : Start(spec)
    \/ \E plan \in Plans : CallStartAll(plan)
    \/ \E c \in Tracked : CallStop(c)
    \/ CallStopAll

\* What the script does by itself once it has made a call
TaskStep ==
    \/ StartNext \/ StartFails \/ StartedAll
    \/ StopNext \/ WaitTimesOut \/ WaitEnds \/ StoppedAll

Interrupted == StartInterrupted \/ CallInterrupted

-----------------------------------------------------------------------------
(* Properties *)

\* Children the orchestrator can no longer do anything about
Forgotten == DOMAIN children \ (Tracked \cup {task.waiting})

\* No child is forgotten while it runs or while its log is open, whichever
\* call failed: only a KeyboardInterrupt can do that, and to one child each.
ForgottenIsReleased ==
    Cardinality({c \in Forgotten : children[c].alive \/ children[c].log})
        <= interrupts

\* After a stop_all that returned, and after a start_all that raised, no
\* process is left, also none that an earlier call had started.
NothingIsLeft ==
    Free /\ outcome \in {"stopped_all", "raised"} =>
        /\ processes = <<>>
        /\ interrupts = 0 => \A c \in DOMAIN children : ~children[c].alive
=============================================================================
