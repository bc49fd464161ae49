------------------------------ MODULE LabProofs ------------------------------
(***************************************************************************)
(* Safety of the lab script, for every set of process specifications and   *)
(* plans, every size of the request identifiers, of a length and of a      *)
(* message, and any number of starts, interrupts and requests.             *)
(***************************************************************************)
EXTENDS Lab, ProofFacts, FiniteSetTheorems

-----------------------------------------------------------------------------
(* The orchestrator: its part of the inductive invariant *)

ChildRecord == [name : Specs, alive : BOOLEAN,
                told : {"nothing", "terminate", "kill"}, log : BOOLEAN]

TaskRecord ==
    [call : {"none", "start_all", "stop", "stop_all"}, plan : Seq(Specs),
     victims : Seq(Nat), waiting : Nat, killed : BOOLEAN, failed : BOOLEAN]

OrchestratorTypeOK ==
    /\ children \in Seq(ChildRecord) /\ processes \in Seq(Nat)
    /\ task \in TaskRecord /\ interrupts \in Nat

\* The dict and what is to be stopped hold every child once, and the child
\* stop() waits for is in neither.
DictInv ==
    /\ IsInjective(processes) /\ Tracked \subseteq DOMAIN children
    /\ IsInjective(task.victims) /\ Range(task.victims) \subseteq Tracked
    /\ task.waiting \in {0} \cup (DOMAIN children \ Tracked)

\* stop_all, and a start_all that has failed, are to stop all that is there;
\* before it fails start_all stops nothing.
CallInv ==
    /\ task.call = "stop_all" \/ task.failed => Range(task.victims) = Tracked
    /\ task.failed => task.call = "start_all" /\ task.plan = <<>>
    /\ task.call = "start_all" /\ ~task.failed =>
          task.victims = <<>> /\ task.waiting = 0
    /\ task.call = "none" => Free

OrchestratorInv ==
    /\ OrchestratorTypeOK /\ DictInv /\ CallInv
    /\ ForgottenIsReleased /\ NothingIsLeft

\* What ForgottenIsReleased counts: children nobody will release any more.
Loose == {c \in Forgotten : children[c].alive \/ children[c].log}

-----------------------------------------------------------------------------
\* The children are finitely many.
LEMMA LooseFinite ==
  ASSUME OrchestratorTypeOK
  PROVE  IsFiniteSet(Loose) /\ Cardinality(Loose) \in Nat
<1>1. DOMAIN children = 1..Len(children) /\ Len(children) \in Nat
  BY DEF OrchestratorTypeOK
<1>2. IsFiniteSet(1..Len(children))
  BY <1>1, FS_Interval
<1>3. Loose \in SUBSET (1..Len(children))
  BY <1>1 DEF Loose, Forgotten
<1>. QED
  BY <1>2, <1>3, FS_Subset, FS_CardinalityType

\* A step that lets no child loose keeps the count.
LEMMA NoneLoosened ==
  ASSUME OrchestratorTypeOK, OrchestratorTypeOK', ForgottenIsReleased,
         Loose' \subseteq Loose, interrupts' = interrupts
  PROVE  ForgottenIsReleased'
<1>1. IsFiniteSet(Loose) /\ Cardinality(Loose) \in Nat
  BY LooseFinite
<1>2. Cardinality(Loose') <= Cardinality(Loose) /\ Cardinality(Loose') \in Nat
  BY <1>1, FS_Subset, FS_CardinalityType
<1>3. Cardinality(Loose) <= interrupts /\ interrupts \in Nat
  BY DEF ForgottenIsReleased, Loose, OrchestratorTypeOK
<1>4. Cardinality(Loose') <= interrupts'
  BY <1>1, <1>2, <1>3
<1>. QED
  BY <1>4 DEF ForgottenIsReleased, Loose

\* An interrupt may let one loose.
LEMMA OneLoosened ==
  ASSUME OrchestratorTypeOK, OrchestratorTypeOK', ForgottenIsReleased,
         NEW c, Loose' \subseteq Loose \cup {c}, interrupts' = interrupts + 1
  PROVE  ForgottenIsReleased'
<1>1. IsFiniteSet(Loose) /\ Cardinality(Loose) \in Nat
  BY LooseFinite
<1>2. /\ IsFiniteSet(Loose \cup {c})
      /\ Cardinality(Loose \cup {c}) <= Cardinality(Loose) + 1
      /\ Cardinality(Loose \cup {c}) \in Nat
  <2>1. /\ IsFiniteSet(Loose \cup {c})
        /\ Cardinality(Loose \cup {c}) =
              IF c \in Loose THEN Cardinality(Loose)
                             ELSE Cardinality(Loose) + 1
    BY <1>1, FS_AddElement
  <2>. QED
    BY <1>1, <2>1
<1>3. /\ Cardinality(Loose') <= Cardinality(Loose \cup {c})
      /\ Cardinality(Loose') \in Nat
  BY <1>2, FS_Subset, FS_CardinalityType
<1>4. Cardinality(Loose) <= interrupts /\ interrupts \in Nat
  BY DEF ForgottenIsReleased, Loose, OrchestratorTypeOK
<1>5. Cardinality(Loose') <= interrupts'
  BY <1>1, <1>2, <1>3, <1>4
<1>. QED
  BY <1>5 DEF ForgottenIsReleased, Loose

\* Without an interrupt, none is loose.
LEMMA NoneLoose ==
  ASSUME OrchestratorTypeOK, ForgottenIsReleased, interrupts = 0
  PROVE  Loose = {}
<1>1. IsFiniteSet(Loose) /\ Cardinality(Loose) \in Nat
  BY LooseFinite
<1>2. Cardinality(Loose) = 0
  BY <1>1 DEF ForgottenIsReleased, Loose
<1>. QED
  BY <1>1, <1>2, FS_EmptySet

\* A new orchestrator has no children.
LEMMA OrchestratorInitInv == OrchestratorInit => OrchestratorInv
<1>. SUFFICES ASSUME OrchestratorInit PROVE OrchestratorInv
  OBVIOUS
<1>. USE DEF OrchestratorInit
<1>1. OrchestratorTypeOK
  BY DEF OrchestratorTypeOK, TaskRecord, NoTask
<1>2. DictInv /\ CallInv
  BY DEF DictInv, CallInv, Tracked, NoTask, Free, Range, IsInjective
<1>3. Loose = {}
  BY DEF Loose, Forgotten
<1>4. ForgottenIsReleased
  BY <1>3, FS_EmptySet DEF ForgottenIsReleased, Loose
<1>5. NothingIsLeft
  BY DEF NothingIsLeft
<1>. QED
  BY <1>1, <1>2, <1>4, <1>5 DEF OrchestratorInv

\* Popen: one more child, which is running.
LEMMA NewChild ==
  ASSUME OrchestratorTypeOK, NEW spec \in Specs
  PROVE  LET n == Len(children) + 1
             all == Append(children, Child(spec))
         IN  /\ all \in Seq(ChildRecord)
             /\ n \in Nat /\ n # 0 /\ n \notin DOMAIN children
             /\ DOMAIN all = DOMAIN children \cup {n}
             /\ all[n].alive
             /\ \A c \in DOMAIN children : all[c] = children[c]
<1>1. Child(spec) \in ChildRecord
  BY DEF Child, ChildRecord
<1>2. children \in Seq(ChildRecord)
  BY DEF OrchestratorTypeOK
<1>. QED
  BY <1>1, <1>2 DEF Child

\* A field of one child changes.
LEMMA ChildChanges ==
  ASSUME OrchestratorTypeOK, NEW c \in DOMAIN children,
         NEW new \in ChildRecord
  PROVE  /\ [children EXCEPT ![c] = new] \in Seq(ChildRecord)
         /\ DOMAIN [children EXCEPT ![c] = new] = DOMAIN children
         /\ [children EXCEPT ![c] = new][c] = new
         /\ \A d \in DOMAIN children \ {c} :
               [children EXCEPT ![c] = new][d] = children[d]
BY ExceptSeq DEF OrchestratorTypeOK

\* The empty sequence as a list of victims
LEMMA EmptyFacts == IsInjective(<<>>) /\ Range(<<>>) = {}
BY DEF IsInjective, Range

\* The fields of the idle task
LEMMA NoTaskFacts ==
  /\ NoTask \in TaskRecord /\ NoTask.call = "none" /\ ~NoTask.failed
  /\ NoTask.victims = <<>> /\ NoTask.waiting = 0
  /\ ~NoTask.killed /\ NoTask.plan = <<>>
BY DEF NoTask, TaskRecord

\* start enters the child it starts into the dict.
LEMMA SpawnStep ==
  ASSUME OrchestratorInv, NEW spec \in Specs, Spawn(spec),
         task' \in TaskRecord, task.victims = <<>>, task'.victims = <<>>,
         task.waiting = 0, task'.waiting = 0
  PROVE  OrchestratorTypeOK' /\ DictInv' /\ ForgottenIsReleased'
<1>. DEFINE n == Len(children) + 1
<1>. USE DEF OrchestratorInv
<1>1. /\ children' \in Seq(ChildRecord) /\ n \in Nat /\ n # 0
      /\ n \notin DOMAIN children
      /\ DOMAIN children' = DOMAIN children \cup {n}
      /\ \A c \in DOMAIN children : children'[c] = children[c]
  BY NewChild DEF Spawn
<1>. HIDE DEF n
<1>2. n \notin Tracked
  BY <1>1 DEF DictInv
<1>3. /\ processes' \in Seq(Nat) /\ IsInjective(processes')
      /\ Tracked' = Tracked \cup {n}
  <2>1. processes' = Append(processes, n)
    BY DEF Spawn, n
  <2>2. processes \in Seq(Nat) /\ IsInjective(processes)
    BY DEF OrchestratorTypeOK, DictInv
  <2>. QED
    BY <1>1, <1>2, <2>1, <2>2, AppendFacts DEF Tracked
<1>4. interrupts' = interrupts
  BY DEF Spawn
<1>5. OrchestratorTypeOK'
  BY <1>1, <1>3, <1>4 DEF OrchestratorTypeOK
<1>6. DictInv'
  <2>1. IsInjective(<<>>) /\ Range(<<>>) = {}
    BY DEF IsInjective, Range
  <2>. QED
    BY <1>1, <1>3, <2>1 DEF DictInv
<1>7. Loose' \subseteq Loose
  BY <1>1, <1>3 DEF Loose, Forgotten
<1>. QED
  BY <1>4, <1>5, <1>6, <1>7, NoneLoosened

\* An interrupt between Popen and the dict lets the new child loose.
LEMMA SpawnInterruptedStep ==
  ASSUME OrchestratorInv, NEW spec \in Specs, SpawnInterrupted(spec),
         task' = NoTask, task.waiting = 0
  PROVE  /\ OrchestratorTypeOK' /\ DictInv' /\ CallInv'
         /\ ForgottenIsReleased'
<1>. DEFINE n == Len(children) + 1
<1>. USE NoTaskFacts, EmptyFacts DEF OrchestratorInv
<1>1. interrupts' = interrupts + 1 /\ UNCHANGED processes /\ Tracked' = Tracked
  BY DEF SpawnInterrupted, Tracked
<1>2. /\ children' \in Seq(ChildRecord) /\ n \notin DOMAIN children
      /\ DOMAIN children' = DOMAIN children \cup {n}
      /\ \A c \in DOMAIN children : children'[c] = children[c]
  BY NewChild DEF SpawnInterrupted
<1>. HIDE DEF n
<1>3. OrchestratorTypeOK' /\ DictInv'
  BY <1>1, <1>2 DEF OrchestratorTypeOK, DictInv
<1>4. CallInv'
  BY DEF CallInv, Free
<1>5. Loose' \subseteq Loose \cup {n}
  BY <1>1, <1>2 DEF Loose, Forgotten
<1>6. ForgottenIsReleased'
  BY <1>1, <1>3, <1>5, OneLoosened
<1>. QED
  BY <1>3, <1>4, <1>6

\* start() puts its child into the dict unless it is interrupted.
LEMMA StartStep ==
  ASSUME OrchestratorInv, NEW spec \in Specs, Start(spec)
  PROVE  OrchestratorInv'
<1>. USE DEF OrchestratorInv
<1>1. /\ task = NoTask /\ task' = NoTask
      /\ outcome' \in {"started", "interrupted"}
  BY DEF Start, Free
<1>2. NothingIsLeft'
  BY <1>1 DEF NothingIsLeft
<1>3. CASE Spawn(spec)
  <2>1. OrchestratorTypeOK' /\ DictInv' /\ ForgottenIsReleased'
    BY <1>1, <1>3, SpawnStep, NoTaskFacts
  <2>2. CallInv'
    BY <1>1, NoTaskFacts DEF CallInv, Free
  <2>. QED
    BY <1>2, <2>1, <2>2
<1>4. CASE SpawnInterrupted(spec)
  BY <1>1, <1>2, <1>4, SpawnInterruptedStep, NoTaskFacts
<1>. QED
  BY <1>3, <1>4 DEF Start

\* The next start of a start_all, as start() itself
LEMMA StartNextStep ==
  ASSUME OrchestratorInv, StartNext
  PROVE  OrchestratorInv'
<1>. USE DEF StartNext, OrchestratorInv
<1>1. /\ ~task.failed /\ task.victims = <<>> /\ task.waiting = 0
      /\ task \in TaskRecord
  BY DEF CallInv, OrchestratorTypeOK, TaskRecord
<1>2. Head(task.plan) \in Specs /\ Tail(task.plan) \in Seq(Specs)
  BY <1>1 DEF TaskRecord
<1>3. /\ task' \in TaskRecord /\ task'.call = "start_all" /\ ~task'.failed
      /\ task'.victims = <<>> /\ task'.waiting = 0
  BY <1>1, <1>2 DEF TaskRecord
<1>4. OrchestratorTypeOK' /\ DictInv' /\ ForgottenIsReleased'
  BY <1>1, <1>2, <1>3, SpawnStep
<1>5. CallInv'
  BY <1>3 DEF CallInv
<1>6. NothingIsLeft'
  BY <1>3 DEF NothingIsLeft, Free, NoTask
<1>. QED
  BY <1>4, <1>5, <1>6

\* A step that only notes what is to be done: the children and the dict are
\* as before.
LEMMA NoteStep ==
  ASSUME OrchestratorInv, UNCHANGED <<children, processes, interrupts>>,
         task.waiting = 0, task'.waiting = 0, task' \in TaskRecord,
         IsInjective(task'.victims), Range(task'.victims) \subseteq Tracked
  PROVE  OrchestratorTypeOK' /\ DictInv' /\ ForgottenIsReleased'
<1>. USE DEF OrchestratorInv
<1>1. OrchestratorTypeOK'
  BY DEF OrchestratorTypeOK
<1>2. DictInv'
  BY DEF DictInv, Tracked
<1>3. Loose' \subseteq Loose
  BY DEF Loose, Forgotten, Tracked
<1>. QED
  BY <1>1, <1>2, <1>3, NoneLoosened

\* stop_all goes through every child of the dict once.
LEMMA StopOrderFacts ==
  ASSUME OrchestratorTypeOK, DictInv
  PROVE  /\ StopOrder \in Seq(Nat) /\ IsInjective(StopOrder)
         /\ Range(StopOrder) = Tracked
BY ReverseFacts DEF StopOrder, Tracked, OrchestratorTypeOK, DictInv

\* start_all() begins.
LEMMA CallStartAllStep ==
  ASSUME OrchestratorInv, NEW plan \in Plans, CallStartAll(plan)
  PROVE  OrchestratorInv'
<1>. USE OrchestratorAssumption, NoTaskFacts, EmptyFacts
     DEF CallStartAll, Free, OrchestratorInv
<1>1. /\ task' \in TaskRecord /\ task'.call = "start_all" /\ ~task'.failed
      /\ task'.victims = <<>> /\ task'.waiting = 0
  BY DEF TaskRecord
<1>2. OrchestratorTypeOK' /\ DictInv' /\ ForgottenIsReleased'
  BY <1>1, NoteStep
<1>3. CallInv'
  BY <1>1 DEF CallInv
<1>4. NothingIsLeft'
  BY <1>1 DEF NothingIsLeft
<1>. QED
  BY <1>2, <1>3, <1>4

\* stop() begins: its only victim is its child.
LEMMA CallStopStep ==
  ASSUME OrchestratorInv, NEW c \in Tracked, CallStop(c)
  PROVE  OrchestratorInv'
<1>. USE NoTaskFacts DEF CallStop, Free, OrchestratorInv
<1>1. c \in Nat
  BY DEF Tracked, OrchestratorTypeOK, Range
<1>2. <<c>> \in Seq(Nat) /\ IsInjective(<<c>>) /\ Range(<<c>>) = {c}
  BY <1>1 DEF IsInjective, Range
<1>3. /\ task' \in TaskRecord /\ task'.call = "stop" /\ ~task'.failed
      /\ task'.victims = <<c>> /\ task'.waiting = 0
  BY <1>2 DEF TaskRecord
<1>4. OrchestratorTypeOK' /\ DictInv' /\ ForgottenIsReleased'
  BY <1>2, <1>3, NoteStep
<1>5. CallInv'
  BY <1>3 DEF CallInv
<1>6. NothingIsLeft'
  BY <1>3 DEF NothingIsLeft
<1>. QED
  BY <1>4, <1>5, <1>6

\* stop_all() begins: its victims are all the children of the dict.
LEMMA CallStopAllStep ==
  ASSUME OrchestratorInv, CallStopAll
  PROVE  OrchestratorInv'
<1>. USE NoTaskFacts DEF CallStopAll, Free, OrchestratorInv
<1>1. /\ StopOrder \in Seq(Nat) /\ IsInjective(StopOrder)
      /\ Range(StopOrder) = Tracked
  BY StopOrderFacts
<1>2. /\ task' \in TaskRecord /\ task'.call = "stop_all" /\ ~task'.failed
      /\ task'.victims = StopOrder /\ task'.waiting = 0
  BY <1>1 DEF TaskRecord
<1>3. OrchestratorTypeOK' /\ DictInv' /\ ForgottenIsReleased'
  BY <1>1, <1>2, NoteStep
<1>4. CallInv'
  BY <1>1, <1>2 DEF CallInv, Tracked
<1>5. NothingIsLeft'
  BY <1>2 DEF NothingIsLeft
<1>. QED
  BY <1>3, <1>4, <1>5

\* A start that fails turns start_all into stop_all.
LEMMA StartFailsStep ==
  ASSUME OrchestratorInv, StartFails
  PROVE  OrchestratorInv'
<1>. USE DEF StartFails, OrchestratorInv
<1>1. /\ StopOrder \in Seq(Nat) /\ IsInjective(StopOrder)
      /\ Range(StopOrder) = Tracked
  BY StopOrderFacts
<1>2. task \in TaskRecord /\ task.waiting = 0
  BY DEF CallInv, OrchestratorTypeOK
<1>3. /\ task' \in TaskRecord /\ task'.call = "start_all" /\ task'.failed
      /\ task'.plan = <<>> /\ task'.victims = StopOrder /\ task'.waiting = 0
  <2>1. task' = [task EXCEPT !.failed = TRUE, !.plan = <<>>,
                             !.victims = StopOrder]
    OBVIOUS
  <2>2. <<>> \in Seq(Specs) /\ task.call = "start_all"
    OBVIOUS
  <2>. HIDE DEF StartFails
  <2>. QED
    BY <1>1, <1>2, <2>1, <2>2 DEF TaskRecord
<1>4. OrchestratorTypeOK' /\ DictInv' /\ ForgottenIsReleased'
  BY <1>1, <1>2, <1>3, NoteStep
<1>5. CallInv'
  BY <1>1, <1>3 DEF CallInv, Tracked
<1>6. NothingIsLeft'
  BY <1>3, NoTaskFacts DEF NothingIsLeft, Free
<1>. QED
  BY <1>4, <1>5, <1>6

\* start_all() returns when its plan is done.
LEMMA StartedAllStep ==
  ASSUME OrchestratorInv, StartedAll
  PROVE  OrchestratorInv'
<1>. USE NoTaskFacts, EmptyFacts DEF StartedAll, Return, OrchestratorInv
<1>1. task.waiting = 0
  BY DEF CallInv
<1>2. OrchestratorTypeOK' /\ DictInv' /\ ForgottenIsReleased'
  BY <1>1, NoteStep
<1>3. CallInv'
  BY DEF CallInv, Free
<1>4. NothingIsLeft'
  BY DEF NothingIsLeft
<1>. QED
  BY <1>2, <1>3, <1>4

\* Whatever call returns after everything was stopped: no victim is left and
\* no child is waited for, so what is in the dict was not to be stopped, and
\* without an interrupt no child is loose.
LEMMA StoppedAllStep ==
  ASSUME OrchestratorInv, StoppedAll
  PROVE  OrchestratorInv'
<1>. USE NoTaskFacts, EmptyFacts DEF StoppedAll, Return, OrchestratorInv
<1>1. OrchestratorTypeOK' /\ DictInv' /\ ForgottenIsReleased'
  BY NoteStep
<1>2. CallInv'
  BY DEF CallInv, Free
<1>3. NothingIsLeft'
  <2>. SUFFICES ASSUME outcome' \in {"stopped_all", "raised"}
                PROVE  /\ processes' = <<>>
                       /\ interrupts' = 0 =>
                             \A c \in DOMAIN children' : ~children'[c].alive
    BY DEF NothingIsLeft
  <2>1. task.call = "stop_all" \/ task.failed
    BY DEF OrchestratorTypeOK, TaskRecord
  <2>2. Tracked = {}
    BY <2>1 DEF CallInv
  <2>3. processes = <<>>
    <3>1. processes \in Seq(Nat)
      BY DEF OrchestratorTypeOK
    <3>2. processes # <<>> => processes[1] \in Tracked
      BY <3>1 DEF Tracked, Range
    <3>. QED
      BY <2>2, <3>2
  <2>4. Forgotten = DOMAIN children
    <3>1. 0 \notin DOMAIN children
      BY DEF OrchestratorTypeOK
    <3>. QED
      BY <2>2, <3>1 DEF Forgotten
  <2>5. interrupts = 0 => \A c \in DOMAIN children : ~children[c].alive
    <3>1. interrupts = 0 => Loose = {}
      BY NoneLoose
    <3>. QED
      BY <2>4, <3>1 DEF Loose
  <2>. QED
    BY <2>3, <2>5
<1>. QED
  BY <1>1, <1>2, <1>3

\* stop: the child leaves the dict, and from now on it is waited for, or it
\* has exited and its log is closed.
LEMMA StopNextStep ==
  ASSUME OrchestratorInv, StopNext
  PROVE  OrchestratorInv'
<1>. DEFINE c == Head(task.victims)
<1>. USE DEF OrchestratorInv
<1>1. /\ task \in TaskRecord /\ task.victims \in Seq(Nat)
      /\ task.victims # <<>> /\ task.waiting = 0
  BY DEF StopNext, OrchestratorTypeOK, TaskRecord
<1>2. /\ Tail(task.victims) \in Seq(Nat) /\ IsInjective(Tail(task.victims))
      /\ Range(Tail(task.victims)) = Range(task.victims) \ {c}
      /\ c \in Range(task.victims)
  BY <1>1, TailFacts DEF DictInv
<1>3. c \in Tracked /\ c \in DOMAIN children /\ c \in Nat /\ c # 0
  BY <1>2 DEF DictInv, OrchestratorTypeOK
<1>4. /\ processes' \in Seq(Nat) /\ IsInjective(processes')
      /\ Tracked' = Tracked \ {c}
  <2>1. processes' = RemoveFirst(processes, c)
    BY DEF StopNext
  <2>2. /\ processes \in Seq(Nat) /\ IsInjective(processes)
        /\ c \in Range(processes)
    BY <1>3 DEF OrchestratorTypeOK, DictInv, Tracked
  <2>. HIDE DEF c
  <2>. QED
    BY <2>1, <2>2, RemoveFirstFacts DEF Tracked
<1>5. children[c] \in ChildRecord
  BY <1>3 DEF OrchestratorTypeOK
<1>6. /\ DOMAIN children' = DOMAIN children
      /\ children' \in Seq(ChildRecord)
      /\ \A d \in DOMAIN children \ {c} : children'[d] = children[d]
      /\ children[c].alive \/ ~(children'[c].alive \/ children'[c].log)
  <2>. DEFINE told   == [children[c] EXCEPT !.told = "terminate"]
              closed == [children[c] EXCEPT !.log = FALSE]
  <2>1. /\ told \in ChildRecord /\ closed \in ChildRecord
        /\ closed.alive = children[c].alive /\ ~closed.log
    BY <1>5 DEF ChildRecord
  <2>2. children' = IF children[c].alive
                    THEN [children EXCEPT ![c] = told]
                    ELSE [children EXCEPT ![c] = closed]
    BY DEF StopNext
  <2>. HIDE DEF c, told, closed
  <2>. QED
    BY <1>3, <2>1, <2>2, ChildChanges
<1>7. /\ task' \in TaskRecord
      /\ task'.victims = Tail(task.victims)
      /\ task'.waiting = IF children[c].alive THEN c ELSE 0
      /\ task'.call = task.call /\ task'.failed = task.failed
      /\ task'.plan = task.plan
      /\ interrupts' = interrupts /\ outcome' = outcome
  <2>1. CASE children[c].alive
    BY <1>1, <1>2, <1>3, <2>1 DEF StopNext, TaskRecord
  <2>2. CASE ~children[c].alive
    BY <1>1, <1>2, <1>3, <2>2 DEF StopNext, TaskRecord
  <2>. QED
    BY <2>1, <2>2
<1>. HIDE DEF c
<1>8. task.call # "none" /\ (task.call = "start_all" => task.failed)
  BY <1>1, NoTaskFacts DEF CallInv, Free
<1>9. OrchestratorTypeOK'
  BY <1>4, <1>6, <1>7 DEF OrchestratorTypeOK
<1>10. DictInv'
  BY <1>2, <1>3, <1>4, <1>6, <1>7 DEF DictInv
<1>11. CallInv'
  BY <1>2, <1>4, <1>7, <1>8 DEF CallInv
<1>12. Loose' \subseteq Loose
  <2>1. Forgotten' \subseteq Forgotten \cup {c}
    BY <1>1, <1>3, <1>4, <1>6 DEF Forgotten, OrchestratorTypeOK
  <2>2. children[c].alive => Forgotten' \subseteq Forgotten
    BY <1>1, <1>3, <1>4, <1>6, <1>7 DEF Forgotten, OrchestratorTypeOK
  <2>3. c \notin Forgotten
    BY <1>3 DEF Forgotten
  <2>4. ASSUME NEW d \in Loose' PROVE d \in Loose
    <3>1. d # c
      BY <2>2, <2>3, <1>6 DEF Loose
    <3>2. d \in Forgotten /\ d \in DOMAIN children
      BY <2>1, <3>1 DEF Loose, Forgotten
    <3>. QED
      BY <3>1, <3>2, <1>6 DEF Loose
  <2>. QED
    BY <2>4
<1>13. NothingIsLeft'
  BY <1>7, <1>8, NoTaskFacts DEF NothingIsLeft, Free
<1>. QED
  BY <1>7, <1>9, <1>10, <1>11, <1>12, <1>13, NoneLoosened

\* A child that stop() waits for is killed, or it has exited.
LEMMA WaitStep ==
  ASSUME OrchestratorInv, WaitTimesOut \/ WaitEnds
  PROVE  OrchestratorInv'
<1>. DEFINE c == task.waiting
<1>. USE DEF OrchestratorInv
<1>1. task \in TaskRecord /\ c # 0 /\ c \in DOMAIN children
  BY DEF WaitTimesOut, WaitEnds, OrchestratorTypeOK, DictInv
<1>2. children[c] \in ChildRecord
  BY <1>1 DEF OrchestratorTypeOK
<1>3. /\ DOMAIN children' = DOMAIN children
      /\ children' \in Seq(ChildRecord)
      /\ \A d \in DOMAIN children \ {c} : children'[d] = children[d]
      /\ WaitEnds => ~(children'[c].alive \/ children'[c].log)
  <2>. DEFINE told   == [children[c] EXCEPT !.told = "kill"]
              closed == [children[c] EXCEPT !.log = FALSE]
  <2>1. /\ told \in ChildRecord /\ closed \in ChildRecord
        /\ closed.alive = children[c].alive /\ ~closed.log
    BY <1>2 DEF ChildRecord
  <2>2. CASE WaitTimesOut
    <3>1. children' = [children EXCEPT ![c] = told] /\ children[c].alive
      BY <2>2 DEF WaitTimesOut
    <3>2. WaitEnds => ~children[c].alive
      BY DEF WaitEnds
    <3>. HIDE DEF c, told
    <3>. QED
      BY <1>1, <2>1, <3>1, <3>2, ChildChanges
  <2>3. CASE WaitEnds
    <3>1. children' = [children EXCEPT ![c] = closed] /\ ~children[c].alive
      BY <2>3 DEF WaitEnds
    <3>. HIDE DEF c, closed
    <3>. QED
      BY <1>1, <2>1, <3>1, ChildChanges
  <2>. QED
    BY <2>2, <2>3
<1>4. /\ task' \in TaskRecord /\ task'.victims = task.victims
      /\ task'.waiting = IF WaitEnds THEN 0 ELSE c
      /\ task'.call = task.call /\ task'.failed = task.failed
      /\ task'.plan = task.plan
      /\ UNCHANGED <<processes, interrupts, outcome>>
  <2>1. CASE WaitTimesOut
    <3>1. ~WaitEnds
      BY <2>1 DEF WaitTimesOut, WaitEnds
    <3>. QED
      BY <1>1, <2>1, <3>1 DEF WaitTimesOut, TaskRecord
  <2>2. CASE WaitEnds
    <3>1. /\ task' = [task EXCEPT !.waiting = 0, !.killed = FALSE]
          /\ UNCHANGED <<processes, interrupts, outcome>>
      BY <2>2 DEF WaitEnds
    <3>. QED
      BY <1>1, <2>2, <3>1 DEF TaskRecord
  <2>. QED
    BY <2>1, <2>2
<1>. HIDE DEF c
<1>5. Tracked' = Tracked
  BY <1>4 DEF Tracked
<1>6. task.call # "none" /\ (task.call = "start_all" => task.failed)
  BY <1>1, NoTaskFacts DEF CallInv, Free, c
<1>7. OrchestratorTypeOK'
  BY <1>3, <1>4 DEF OrchestratorTypeOK
<1>8. DictInv'
  BY <1>3, <1>4, <1>5 DEF DictInv, c
<1>9. CallInv'
  BY <1>4, <1>5, <1>6 DEF CallInv
<1>10. Loose' \subseteq Loose
  <2>1. ASSUME NEW d \in Loose' PROVE d \in Loose
    <3>1. d # c
      BY <1>3, <1>4 DEF Loose, Forgotten
    <3>2. d \in Forgotten
      BY <1>3, <1>5, <3>1 DEF Loose, Forgotten, c
    <3>. QED
      BY <3>1, <3>2, <1>3 DEF Loose, Forgotten
  <2>. QED
    BY <2>1
<1>11. NothingIsLeft'
  BY <1>4, <1>6, NoTaskFacts DEF NothingIsLeft, Free
<1>. QED
  BY <1>4, <1>7, <1>8, <1>9, <1>10, <1>11, NoneLoosened

\* A KeyboardInterrupt lets at most one child loose: the one Popen has just
\* started, or the one stop() was waiting for.
LEMMA InterruptedStep ==
  ASSUME OrchestratorInv, Interrupted
  PROVE  OrchestratorInv'
<1>. USE NoTaskFacts, EmptyFacts, OrchestratorAssumption DEF OrchestratorInv
<1>1. /\ task' = NoTask /\ outcome' = "interrupted"
      /\ interrupts' = interrupts + 1 /\ UNCHANGED processes
  BY DEF Interrupted, StartInterrupted, SpawnInterrupted, CallInterrupted,
         Return
<1>2. Tracked' = Tracked
  BY <1>1 DEF Tracked
<1>3. CallInv' /\ NothingIsLeft'
  BY <1>1 DEF CallInv, NothingIsLeft, Free
<1>4. CASE CallInterrupted
  <2>1. UNCHANGED children
    BY <1>4 DEF CallInterrupted
  <2>2. OrchestratorTypeOK' /\ DictInv'
    BY <1>1, <1>2, <2>1 DEF OrchestratorTypeOK, DictInv
  <2>3. Loose' \subseteq Loose \cup {task.waiting}
    BY <1>2, <2>1 DEF Loose, Forgotten
  <2>4. ForgottenIsReleased'
    BY <1>1, <2>2, <2>3, OneLoosened
  <2>. QED
    BY <1>3, <2>2, <2>4
<1>5. CASE StartInterrupted
  <2>1. task.waiting = 0 /\ Head(task.plan) \in Specs
    BY <1>5 DEF StartInterrupted, CallInv, OrchestratorTypeOK, TaskRecord
  <2>2. SpawnInterrupted(Head(task.plan))
    BY <1>5 DEF StartInterrupted
  <2>. QED
    BY <1>1, <1>3, <2>1, <2>2, SpawnInterruptedStep
<1>. QED
  BY <1>4, <1>5 DEF Interrupted

\* A child exits; the orchestrator does not notice.
LEMMA ChildExitsStep ==
  ASSUME OrchestratorInv, NEW c \in DOMAIN children, ChildExits(c)
  PROVE  /\ OrchestratorInv'
         /\ DOMAIN children' = DOMAIN children
         /\ \A d \in DOMAIN children \ {c} : children'[d] = children[d]
<1>. DEFINE ended == [children[c] EXCEPT !.alive = FALSE]
<1>. USE DEF OrchestratorInv
<1>1. children[c] \in ChildRecord
  BY DEF OrchestratorTypeOK
<1>2. /\ ended \in ChildRecord /\ ~ended.alive
      /\ ended.log = children[c].log
  BY <1>1 DEF ChildRecord
<1>3. /\ children' = [children EXCEPT ![c] = ended] /\ children[c].alive
      /\ UNCHANGED <<processes, task, outcome, interrupts>>
  BY DEF ChildExits
<1>. HIDE DEF ended
<1>4. /\ DOMAIN children' = DOMAIN children
      /\ children' \in Seq(ChildRecord)
      /\ \A d \in DOMAIN children \ {c} : children'[d] = children[d]
      /\ children'[c] = ended
  BY <1>2, <1>3, ChildChanges
<1>5. Tracked' = Tracked /\ Forgotten' = Forgotten
  BY <1>3, <1>4 DEF Tracked, Forgotten
<1>6. OrchestratorTypeOK' /\ DictInv' /\ CallInv'
  BY <1>3, <1>4, <1>5 DEF OrchestratorTypeOK, DictInv, CallInv, Free
<1>7. Loose' \subseteq Loose
  BY <1>2, <1>3, <1>4, <1>5 DEF Loose
<1>8. ForgottenIsReleased'
  BY <1>3, <1>6, <1>7, NoneLoosened
<1>9. NothingIsLeft'
  BY <1>2, <1>3, <1>4 DEF NothingIsLeft, Free
<1>. QED
  BY <1>4, <1>6, <1>8, <1>9

-----------------------------------------------------------------------------
(* The control channel: its part of the inductive invariant *)

\* The identifier of the n-th request: they go round from 1 to MaxRequestId.
IdOf(n) == ((n - 1) % MaxRequestId) + 1

\* What can be in the stream: units of the requests made so far, each with
\* the identifier of its request.
UnitsOf(n) == {u \in [number : 1..n, id : Nat, pos : Nat] :
                  u.id = IdOf(u.number)}
Units == UnitsOf(requests)

RequestRecord(U) ==
    [phase : {"idle", "length", "body"}, number : Nat, id : Nat, want : Nat,
     chunks : Seq(U)]
Errors == {"none", "send", "encode", "too large", "decode", "mismatch",
           "closed", "timeout", "interrupted"}
ReturnedRecord == [asked : Nat, answered : Nat, error : Errors]

ControlTypeOK ==
    /\ conn \in {"none", "up", "eof"} /\ requests \in Nat
    /\ nextRequestId = IdOf(requests + 1)
    /\ request \in RequestRecord(Units)
    /\ up \in Seq(Units) /\ down \in Seq(Units) /\ sending \in Seq(Units)
    /\ returned \in ReturnedRecord /\ disturbed \in BOOLEAN

\* A request in progress is the last one made, and it has not read all that
\* it wants; a server that is gone neither reads nor sends.
RequestInv ==
    /\ request.phase # "idle" =>
          /\ requests > 0 /\ request.number = requests
          /\ request.id = IdOf(requests)
          /\ Len(request.chunks) < request.want
          /\ request.phase = "length" => request.want = LengthUnits
    /\ conn = "eof" => up = <<>> /\ sending = <<>>

\* The frame of the request in progress and what of it is still to be read
Own  == Frame(request.number, request.id)
Rest == IF request.phase = "length" THEN Own
        ELSE SubSeq(Own, LengthUnits + 1, FrameUnits)

\* The request has not been read yet ...
Waiting ==
    /\ request.phase = "length" /\ conn = "up" /\ up = Own
    /\ request.chunks = <<>> /\ down = <<>> /\ sending = <<>>

\* ... or the response is on its way: what was read and what is in the stream,
\* with what a server that is gone did not send, is all of it.
Answering ==
    /\ up = <<>>
    /\ request.phase = "body" => request.want = BodyUnits
    /\ \E lost \in Seq(Units) :
          /\ Join(request.chunks, Join(down, Join(sending, lost))) = Rest
          /\ conn = "up" => lost = <<>>

FramingInv ==
    ~disturbed /\ conn # "none" =>
        IF request.phase = "idle"
        THEN /\ up = <<>> /\ down = <<>> /\ sending = <<>>
             /\ returned.error \in {"none", "encode"}
        ELSE Waiting \/ Answering

ControlInv == ControlTypeOK /\ RequestInv /\ AnswerIsOwn /\ FramingInv

-----------------------------------------------------------------------------
\* Request identifiers are the numbers of the requests, going round.
LEMMA IdFacts ==
  ASSUME NEW n \in Nat \ {0}
  PROVE  IdOf(n) \in 1..MaxRequestId /\ IdOf(n + 1) = FollowingId(IdOf(n))
<1>. DEFINE m == n - 1
<1>1. m \in Nat /\ MaxRequestId \in Nat \ {0}
  BY ControlAssumption
<1>2. m % MaxRequestId \in 0..MaxRequestId - 1
  BY <1>1, DivMod
<1>3. (m + 1) % MaxRequestId = IF m % MaxRequestId = MaxRequestId - 1 THEN 0
                               ELSE (m % MaxRequestId) + 1
  BY <1>1, ModSuccessor
<1>4. m + 1 = (n + 1) - 1 /\ m = n - 1
  OBVIOUS
<1>. HIDE DEF m
<1>. QED
  BY <1>1, <1>2, <1>3, <1>4 DEF IdOf, FollowingId

\* Two requests with the same identifier are a whole round apart.
LEMMA IdRound ==
  ASSUME NEW a \in Nat \ {0}, NEW n \in Nat \ {0}, a <= n, a # n,
         IdOf(a) = IdOf(n)
  PROVE  n >= a + MaxRequestId
<1>1. /\ MaxRequestId \in Nat \ {0} /\ a - 1 \in Nat /\ n - 1 \in Nat
      /\ a - 1 < n - 1
  BY ControlAssumption
<1>2. /\ (a - 1) % MaxRequestId \in 0..MaxRequestId - 1
      /\ (n - 1) % MaxRequestId \in 0..MaxRequestId - 1
  BY <1>1, DivMod
<1>3. (a - 1) % MaxRequestId = (n - 1) % MaxRequestId
  BY <1>2 DEF IdOf
<1>4. n - 1 >= (a - 1) + MaxRequestId
  BY <1>1, <1>3, RoundApart
<1>. QED
  BY <1>1, <1>4

\* The units of a frame and their places
LEMMA FrameFacts ==
  ASSUME NEW r \in Nat, NEW n \in 1..r
  PROVE  /\ Frame(n, IdOf(n)) \in Seq(UnitsOf(r))
         /\ Len(Frame(n, IdOf(n))) = FrameUnits
         /\ \A p \in 1..FrameUnits :
               Frame(n, IdOf(n))[p] = [number |-> n, id |-> IdOf(n), pos |-> p]
         /\ FrameUnits \in Nat
<1>1. FrameUnits \in Nat
  BY ControlAssumption DEF FrameUnits
<1>2. IdOf(n) \in Nat
  BY IdFacts, ControlAssumption
<1>3. \A p \in 1..FrameUnits :
         [number |-> n, id |-> IdOf(n), pos |-> p] \in UnitsOf(r)
  BY <1>1, <1>2 DEF UnitsOf
<1>. QED
  BY <1>1, <1>3 DEF Frame

\* One more request: what is in the stream stays what it is.
LEMMA UnitsGrow ==
  ASSUME NEW r \in Nat, NEW s \in Seq(UnitsOf(r))
  PROVE  s \in Seq(UnitsOf(r + 1))
<1>1. UnitsOf(r) \subseteq UnitsOf(r + 1)
  BY DEF UnitsOf
<1>. QED
  BY <1>1, SeqMonotonic

\* What a request that is over leaves behind
LEMMA IdleFacts ==
  /\ \A U : NoRequest \in RequestRecord(U)
  /\ NoRequest.phase = "idle"
  /\ Nothing \in ReturnedRecord /\ Nothing.asked = Nothing.answered
  /\ Nothing.error = "none"
BY DEF NoRequest, RequestRecord, Nothing, ReturnedRecord, Errors

\* A request that raises returns no response.
LEMMA RaiseFacts ==
  ASSUME NEW e \in Errors, Raise(e)
  PROVE  /\ request' = NoRequest /\ returned' \in ReturnedRecord
         /\ returned'.asked = returned'.answered /\ returned'.error = e
BY DEF Raise, Nothing, ReturnedRecord

\* A client that is not connected
LEMMA ControlInitInv == ControlInit => ControlInv
<1>. SUFFICES ASSUME ControlInit PROVE ControlInv
  OBVIOUS
<1>. USE IdleFacts DEF ControlInit
<1>1. ControlTypeOK
  <2>1. 1 = IdOf(requests + 1)
    <3>1. MaxRequestId \in Nat \ {0} /\ 0 \in Nat
      BY ControlAssumption
    <3>2. 0 % MaxRequestId = 0
      <4>1. /\ 0 % MaxRequestId \in 0..MaxRequestId - 1
            /\ 0 \div MaxRequestId \in Nat
            /\ 0 = MaxRequestId * (0 \div MaxRequestId) + (0 % MaxRequestId)
        BY <3>1, DivMod
      <4>2. MaxRequestId * (0 \div MaxRequestId) \in Nat
        BY <3>1, <4>1
      <4>. QED
        BY <4>1, <4>2
    <3>. QED
      BY <3>2 DEF IdOf
  <2>2. <<>> \in Seq(Units)
    OBVIOUS
  <2>. QED
    BY <2>1, <2>2 DEF ControlTypeOK
<1>2. RequestInv /\ FramingInv
  BY DEF RequestInv, FramingInv
<1>3. AnswerIsOwn
  BY DEF AnswerIsOwn
<1>. QED
  BY <1>1, <1>2, <1>3 DEF ControlInv

\* A step between requests that leaves the streams empty, or alone.
LEMMA IdleStep ==
  ASSUME ControlInv, request.phase = "idle", request' = request,
         \/ UNCHANGED <<conn, up, down, sending, disturbed>>
         \/ /\ conn' \in {"none", "up"} /\ disturbed' = FALSE
            /\ up' = <<>> /\ down' = <<>> /\ sending' = <<>>,
         returned' = Nothing,
         UNCHANGED <<nextRequestId, requests>>
  PROVE  ControlInv'
<1>. USE IdleFacts DEF ControlInv
<1>1. Units' = Units
  BY DEF Units
<1>2. ControlTypeOK'
  <2>1. /\ conn' \in {"none", "up", "eof"} /\ disturbed' \in BOOLEAN
        /\ up' \in Seq(Units) /\ down' \in Seq(Units)
        /\ sending' \in Seq(Units)
    <3>1. CASE UNCHANGED <<conn, up, down, sending, disturbed>>
      BY <3>1 DEF ControlTypeOK
    <3>2. CASE /\ conn' \in {"none", "up"} /\ disturbed' = FALSE
               /\ up' = <<>> /\ down' = <<>> /\ sending' = <<>>
      <4>1. disturbed' \in BOOLEAN /\ conn' \in {"none", "up", "eof"}
        BY <3>2
      <4>2. <<>> \in Seq(Units)
        OBVIOUS
      <4>. QED
        BY <3>2, <4>1, <4>2
    <3>. QED
      BY <3>1, <3>2
  <2>2. request' \in RequestRecord(Units) /\ returned' \in ReturnedRecord
    BY DEF ControlTypeOK
  <2>3. nextRequestId' = IdOf(requests' + 1) /\ requests' \in Nat
    BY DEF ControlTypeOK
  <2>. QED
    BY <1>1, <2>1, <2>2, <2>3 DEF ControlTypeOK
<1>3. RequestInv' /\ FramingInv'
  BY DEF RequestInv, FramingInv, ControlTypeOK
<1>4. AnswerIsOwn'
  BY DEF AnswerIsOwn
<1>. QED
  BY <1>2, <1>3, <1>4

\* A request whose message is too large only uses up its identifier.
LEMMA RequestTooLargeStep ==
  ASSUME ControlInv, RequestTooLarge
  PROVE  ControlInv'
<1>. USE IdleFacts DEF ControlInv, RequestTooLarge
<1>0. /\ request' = NoRequest /\ returned' \in ReturnedRecord
      /\ returned'.asked = returned'.answered /\ returned'.error = "encode"
  BY RaiseFacts DEF Errors
<1>1. requests \in Nat /\ requests' = requests + 1
  BY DEF ControlTypeOK
<1>2. nextRequestId' = IdOf(requests' + 1)
  <2>1. requests + 1 \in Nat \ {0} /\ nextRequestId = IdOf(requests + 1)
    BY <1>1 DEF ControlTypeOK
  <2>. QED
    BY <1>1, <2>1, IdFacts
<1>3. /\ up' \in Seq(Units') /\ down' \in Seq(Units')
      /\ sending' \in Seq(Units') /\ <<>> \in Seq(Units')
  BY <1>1, UnitsGrow DEF ControlTypeOK, Units
<1>4. ControlTypeOK'
  BY <1>0, <1>1, <1>2, <1>3 DEF ControlTypeOK
<1>5. RequestInv' /\ FramingInv'
  BY <1>0 DEF RequestInv, FramingInv
<1>6. AnswerIsOwn'
  BY <1>0 DEF AnswerIsOwn
<1>. QED
  BY <1>4, <1>5, <1>6

\* request() sends its frame, or a beginning of it before send fails.
LEMMA RequestStarts ==
  ASSUME ControlInv, NEW sent \in 0..FrameUnits, Request(sent)
  PROVE  ControlInv'
<1>. DEFINE n == requests + 1
            frame == Frame(n, nextRequestId)
            whole == sent = FrameUnits
<1>. USE DEF ControlInv
<1>1. /\ requests \in Nat /\ requests' = n /\ n \in Nat \ {0} /\ n \in 1..n
      /\ nextRequestId = IdOf(n)
  BY DEF ControlTypeOK, Request
<1>2. nextRequestId' = IdOf(requests' + 1) /\ IdOf(n) \in Nat
  BY <1>1, IdFacts, ControlAssumption DEF Request
<1>3. /\ frame \in Seq(UnitsOf(n)) /\ Len(frame) = FrameUnits
      /\ FrameUnits \in Nat
  BY <1>1, FrameFacts
<1>4. /\ up \in Seq(UnitsOf(n)) /\ down \in Seq(UnitsOf(n))
      /\ sending \in Seq(UnitsOf(n)) /\ <<>> \in Seq(UnitsOf(n))
  BY <1>1, UnitsGrow DEF ControlTypeOK, Units
<1>5. /\ request.phase = "idle" /\ conn # "none"
      /\ up' = IF conn = "eof" THEN up ELSE up \o SubSeq(frame, 1, sent)
      /\ disturbed' = (disturbed \/ ~whole)
      /\ UNCHANGED <<conn, down, sending>>
      /\ whole => /\ request' = [phase |-> "length", number |-> n,
                                 id |-> IdOf(n), want |-> LengthUnits,
                                 chunks |-> <<>>]
                  /\ returned' = Nothing
      /\ ~whole => Raise("send")
  BY <1>1 DEF Request
<1>0. /\ ~whole => /\ request' = NoRequest /\ returned' \in ReturnedRecord
                   /\ returned'.asked = returned'.answered
      /\ whole => /\ request'.phase = "length" /\ request'.number = n
                  /\ request'.id = IdOf(n) /\ request'.want = LengthUnits
                  /\ request'.chunks = <<>>
  <2>1. CASE whole
    BY <1>5, <2>1
  <2>2. CASE ~whole
    BY <1>5, <2>2, RaiseFacts DEF Errors
  <2>. QED
    BY <2>1, <2>2
<1>6. Units' = UnitsOf(n)
  BY <1>1 DEF Units
<1>. HIDE DEF n, frame
<1>7. ControlTypeOK'
  <2>1. up' \in Seq(UnitsOf(n))
    <3>1. SubSeq(frame, 1, sent) \in Seq(UnitsOf(n))
      BY <1>3, Cut
    <3>. QED
      BY <1>4, <1>5, <3>1
  <2>2. request' \in RequestRecord(UnitsOf(n)) /\ returned' \in ReturnedRecord
    <3>1. CASE whole
      <4>1. n \in Nat /\ LengthUnits \in Nat /\ returned' = Nothing
        BY <1>1, <1>5, <3>1, ControlAssumption
      <4>2. request' = [phase |-> "length", number |-> n, id |-> IdOf(n),
                        want |-> LengthUnits, chunks |-> <<>>]
        BY <1>5, <3>1
      <4>. QED
        BY <1>2, <1>4, <4>1, <4>2, IdleFacts DEF RequestRecord
    <3>2. CASE ~whole
      BY <1>0, <3>2, IdleFacts
    <3>. QED
      BY <3>1, <3>2
  <2>. QED
    BY <1>1, <1>2, <1>4, <1>5, <1>6, <2>1, <2>2 DEF ControlTypeOK
<1>8. RequestInv'
  <2>1. conn' = "eof" => up' = <<>> /\ sending' = <<>>
    BY <1>5 DEF RequestInv
  <2>2. ~whole => request'.phase = "idle"
    BY <1>0, IdleFacts
  <2>3. whole => /\ request'.number = n /\ request'.id = IdOf(n)
                 /\ Len(request'.chunks) < request'.want
                 /\ request'.want = LengthUnits
    BY <1>0, ControlAssumption
  <2>. QED
    BY <1>1, <2>1, <2>2, <2>3 DEF RequestInv
<1>9. FramingInv'
  <2>. SUFFICES ASSUME ~disturbed', conn # "none"
                PROVE  request'.phase # "idle" /\ (Waiting' \/ Answering')
    BY <1>5 DEF FramingInv
  <2>1. /\ whole /\ up = <<>> /\ down = <<>> /\ sending = <<>>
        /\ request'.phase = "length" /\ request'.chunks = <<>>
    BY <1>0, <1>5 DEF FramingInv, ControlTypeOK
  <2>2. Own' = frame /\ Rest' = frame
    BY <1>0, <1>1, <2>1 DEF Own, Rest, frame
  <2>3. CASE conn = "up"
    <3>1. up' = frame
      <4>1. SubSeq(frame, 1, sent) = frame
        BY <1>3, <2>1, SubSeqFull
      <4>. QED
        BY <1>3, <1>5, <2>1, <2>3, <4>1
    <3>. QED
      BY <1>5, <2>1, <2>2, <2>3, <3>1 DEF Waiting
  <2>4. CASE conn = "eof"
    <3>1. up' = <<>>
      BY <1>5, <2>1, <2>4
    <3>2. Join(<<>>, Join(<<>>, Join(<<>>, frame))) = frame
      BY <1>3, JoinFacts
    <3>. QED
      BY <1>3, <1>5, <1>6, <2>1, <2>2, <2>4, <3>1, <3>2 DEF Answering
  <2>. QED
    BY <2>1, <2>3, <2>4 DEF ControlTypeOK
<1>10. AnswerIsOwn'
  BY <1>0, <1>5, IdleFacts DEF AnswerIsOwn
<1>. QED
  BY <1>7, <1>8, <1>9, <1>10

\* A timeout, a closed connection or an interrupt ends the request.
LEMMA RecvFailsStep ==
  ASSUME ControlInv, RecvFails \/ RequestInterrupted
  PROVE  ControlInv'
<1>. USE IdleFacts DEF ControlInv
<1>1. /\ request' = NoRequest /\ returned' \in ReturnedRecord
      /\ returned'.asked = returned'.answered
  <2>1. PICK e \in Errors : Raise(e)
    BY DEF RecvFails, RequestInterrupted, Errors
  <2>. QED
    BY <2>1, RaiseFacts
<1>2. /\ disturbed' = TRUE
      /\ UNCHANGED <<conn, up, down, sending, nextRequestId, requests>>
  BY DEF RecvFails, RequestInterrupted
<1>3. Units' = Units
  BY <1>2 DEF Units
<1>4. ControlTypeOK'
  BY <1>1, <1>2, <1>3 DEF ControlTypeOK
<1>5. RequestInv' /\ FramingInv' /\ AnswerIsOwn'
  BY <1>1, <1>2 DEF RequestInv, FramingInv, AnswerIsOwn
<1>. QED
  BY <1>4, <1>5

\* The server goes, with what it has not read and what it has not sent.
LEMMA HangUpStep ==
  ASSUME ControlInv, HangUp, conn = "up"
  PROVE  ControlInv'
<1>. USE DEF ControlInv
<1>1. /\ conn' = "eof" /\ up' = <<>> /\ sending' = <<>>
      /\ UNCHANGED <<request, down, nextRequestId, requests, returned,
                     disturbed>>
  BY DEF HangUp
<1>2. Units' = Units /\ Own' = Own /\ Rest' = Rest
  BY <1>1 DEF Units, Own, Rest
<1>3. ControlTypeOK'
  BY <1>1, <1>2 DEF ControlTypeOK
<1>4. RequestInv' /\ AnswerIsOwn'
  BY <1>1 DEF RequestInv, AnswerIsOwn
<1>5. FramingInv'
  <2>. SUFFICES ASSUME ~disturbed, request.phase # "idle" PROVE Answering'
    BY <1>1 DEF FramingInv
  <2>1. /\ request.chunks \in Seq(Units) /\ down \in Seq(Units)
        /\ sending \in Seq(Units) /\ <<>> \in Seq(Units)
    BY DEF ControlTypeOK, RequestRecord
  <2>2. CASE Waiting
    <3>1. /\ request.chunks = <<>> /\ down = <<>> /\ request.phase = "length"
          /\ Rest = Own
      BY <2>2 DEF Waiting, Rest
    <3>2. Own \in Seq(Units)
      BY <2>2 DEF Waiting, ControlTypeOK
    <3>3. Join(<<>>, Join(<<>>, Join(<<>>, Own))) = Own
      BY <3>2, JoinFacts
    <3>. QED
      BY <1>1, <1>2, <3>1, <3>2, <3>3 DEF Answering
  <2>3. CASE Answering
    <3>1. PICK lost \in Seq(Units) :
             Join(request.chunks, Join(down, Join(sending, lost))) = Rest
      BY <2>3 DEF Answering
    <3>2. Join(sending, lost) \in Seq(Units)
      BY <2>1, JoinType
    <3>3. Join(<<>>, Join(sending, lost)) = Join(sending, lost)
      BY <3>2, JoinFacts
    <3>. QED
      BY <1>1, <1>2, <2>3, <3>1, <3>2, <3>3 DEF Answering
  <2>. QED
    BY <2>2, <2>3 DEF FramingInv
<1>. QED
  BY <1>3, <1>4, <1>5

\* The server sends a part of its response.
LEMMA SendStep ==
  ASSUME ControlInv, NEW k \in 1..FrameUnits, Send(k)
  PROVE  ControlInv'
<1>. DEFINE front == SubSeq(sending, 1, k)
            back  == SubSeq(sending, k + 1, Len(sending))
<1>. USE DEF ControlInv
<1>1. /\ conn = "up" /\ k <= Len(sending)
      /\ down' = Join(down, front) /\ sending' = back
      /\ UNCHANGED <<conn, request, up, nextRequestId, requests, returned,
                     disturbed>>
  BY DEF Send, Join
<1>2. /\ request.chunks \in Seq(Units) /\ down \in Seq(Units)
      /\ sending \in Seq(Units)
  BY DEF ControlTypeOK, RequestRecord
<1>3. k \in 0..Len(sending) /\ sending # <<>>
  BY <1>1, <1>2
<1>4. /\ front \in Seq(Units) /\ back \in Seq(Units)
      /\ Join(front, back) = sending
  BY <1>2, <1>3, Cut
<1>. HIDE DEF front, back
<1>5. Units' = Units /\ Own' = Own /\ Rest' = Rest
  BY <1>1 DEF Units, Own, Rest
<1>6. ControlTypeOK'
  <2>1. down' \in Seq(Units)
    BY <1>1, <1>2, <1>4, JoinType
  <2>. QED
    BY <1>1, <1>4, <1>5, <2>1 DEF ControlTypeOK
<1>7. RequestInv' /\ AnswerIsOwn'
  BY <1>1 DEF RequestInv, AnswerIsOwn
<1>8. FramingInv'
  <2>. SUFFICES ASSUME ~disturbed
                PROVE  request.phase # "idle" /\ Answering'
    BY <1>1 DEF FramingInv
  <2>1. request.phase # "idle" /\ Answering
    BY <1>1, <1>3 DEF FramingInv, Waiting
  <2>2. PICK lost \in Seq(Units) :
           /\ Join(request.chunks, Join(down, Join(sending, lost))) = Rest
           /\ conn = "up" => lost = <<>>
    BY <2>1 DEF Answering
  <2>3. Join(Join(down, front), Join(back, lost))
           = Join(down, Join(Join(front, back), lost))
    <3>1. down \in Seq(Units) /\ front \in Seq(Units) /\ back \in Seq(Units)
      BY <1>2, <1>4
    <3>. QED
      BY <3>1, Regroup
  <2>4. Join(request.chunks, Join(down', Join(sending', lost))) = Rest
    BY <1>1, <1>4, <2>2, <2>3
  <2>. QED
    BY <1>1, <1>5, <2>1, <2>2, <2>4 DEF Answering
<1>. QED
  BY <1>6, <1>7, <1>8

\* The units of a frame read from its beginning are its length; the others
\* are its message.
LEMMA FrameParts ==
  ASSUME NEW r \in Nat, NEW n \in 1..r
  PROVE  LET own  == Frame(n, IdOf(n))
             head == SubSeq(own, 1, LengthUnits)
             body == SubSeq(own, LengthUnits + 1, FrameUnits)
         IN  /\ head \in Seq(UnitsOf(r)) /\ body \in Seq(UnitsOf(r))
             /\ Len(head) = LengthUnits /\ Len(body) = BodyUnits
             /\ Join(head, body) = own
             /\ LengthsOf(head) = {BodyUnits} /\ Decodes(body)
             /\ body[1] \in UnitsOf(r)
             /\ body[1].number = n /\ body[1].id = IdOf(n)
<1>. DEFINE own  == Frame(n, IdOf(n))
            head == SubSeq(own, 1, LengthUnits)
            body == SubSeq(own, LengthUnits + 1, FrameUnits)
<1>1. /\ own \in Seq(UnitsOf(r)) /\ Len(own) = FrameUnits
      /\ \A p \in 1..FrameUnits :
            own[p] = [number |-> n, id |-> IdOf(n), pos |-> p]
      /\ FrameUnits \in Nat
  BY FrameFacts
<1>2. /\ LengthUnits \in 1..FrameUnits /\ FrameUnits = LengthUnits + BodyUnits
      /\ LengthUnits \in Nat \ {0} /\ BodyUnits \in Nat \ {0}
  BY ControlAssumption DEF FrameUnits
<1>. HIDE DEF own
<1>3. /\ head \in Seq(UnitsOf(r)) /\ Len(head) = LengthUnits
      /\ \A p \in 1..LengthUnits : head[p] = own[p]
  BY <1>1, <1>2
<1>4. /\ body \in Seq(UnitsOf(r)) /\ Len(body) = BodyUnits
      /\ \A p \in 1..BodyUnits : body[p] = own[LengthUnits + p]
  BY <1>1, <1>2
<1>5. Join(head, body) = own
  <2>1. LengthUnits \in 0..Len(own)
    BY <1>1, <1>2
  <2>2. Join(SubSeq(own, 1, LengthUnits),
             SubSeq(own, LengthUnits + 1, Len(own))) = own
    BY <1>1, <2>1, Cut
  <2>. QED
    BY <1>1, <2>2
<1>. HIDE DEF head, body
<1>6. LengthsOf(head) = {BodyUnits}
  BY <1>1, <1>2, <1>3 DEF LengthsOf, RunFrom
<1>7. \A p \in 1..BodyUnits :
         body[p] = [number |-> n, id |-> IdOf(n), pos |-> LengthUnits + p]
  BY <1>1, <1>2, <1>4
<1>8. Decodes(body)
  <2>1. 1 \in 1..BodyUnits /\ DOMAIN body = 1..BodyUnits
    BY <1>2, <1>4
  <2>2. \A i \in 1..BodyUnits : LengthUnits + i = LengthUnits + 1 + i - 1
    BY <1>2
  <2>3. RunFrom(body, LengthUnits + 1)
    BY <1>7, <2>1, <2>2 DEF RunFrom
  <2>. QED
    BY <1>4, <2>3 DEF Decodes
<1>9. /\ body[1] \in UnitsOf(r)
      /\ body[1].number = n /\ body[1].id = IdOf(n)
  BY <1>2, <1>4, <1>7
<1>. QED
  BY <1>3, <1>4, <1>5, <1>6, <1>8, <1>9 DEF own, head, body

\* The server reads a request: it answers it, or it hangs up.
LEMMA ReceiveFrameStep ==
  ASSUME ControlInv, ReceiveFrame
  PROVE  ControlInv'
<1>. USE DEF ControlInv
<1>1. /\ conn = "up" /\ sending = <<>> /\ Len(up) >= LengthUnits
      /\ up \in Seq(Units) /\ requests \in Nat
  BY DEF ReceiveFrame, ControlTypeOK
<1>2. PICK length \in LengthsOf(SubSeq(up, 1, LengthUnits)) :
        LET body == SubSeq(up, LengthUnits + 1, LengthUnits + length) IN
        \/ length > MaximumFrame /\ HangUp
        \/ /\ length <= MaximumFrame /\ Len(up) >= LengthUnits + length
           /\ IF Decodes(body)
              THEN /\ sending' = Frame(body[1].number, body[1].id)
                   /\ up' = SubSeq(up, LengthUnits + length + 1, Len(up))
                   /\ UNCHANGED <<conn, request, down, nextRequestId,
                                  requests, returned, disturbed>>
              ELSE HangUp
  BY DEF ReceiveFrame
<1>3. CASE HangUp
  BY <1>1, <1>3, HangUpStep
<1>4. CASE ~HangUp
  <2>. DEFINE body == SubSeq(up, LengthUnits + 1, LengthUnits + length)
  <2>0. /\ Len(up) >= LengthUnits + length /\ Decodes(body)
        /\ sending' = Frame(body[1].number, body[1].id)
        /\ up' = SubSeq(up, LengthUnits + length + 1, Len(up))
        /\ UNCHANGED <<conn, request, down, nextRequestId, requests, returned,
                       disturbed>>
    BY <1>2, <1>4
  <2>1. length \in Nat /\ LengthUnits \in Nat /\ BodyUnits \in Nat \ {0}
    BY ControlAssumption DEF LengthsOf
  <2>2. Units' = Units /\ Own' = Own /\ Rest' = Rest
    BY <2>0 DEF Units, Own, Rest
  <2>3. /\ body \in Seq(Units) /\ Len(body) = BodyUnits /\ body[1] \in Units
    <3>1. body \in Seq(Units)
      BY <1>1, <2>0, <2>1
    <3>. QED
      BY <2>0, <2>1, <3>1 DEF Decodes
  <2>4. /\ body[1].number \in 1..requests
        /\ body[1].id = IdOf(body[1].number)
    BY <2>3 DEF Units, UnitsOf
  <2>5. sending' \in Seq(Units)
    BY <1>1, <2>0, <2>4, FrameFacts DEF Units
  <2>6. up' \in Seq(Units)
    BY <1>1, <2>0, <2>1
  <2>7. ControlTypeOK'
    BY <2>0, <2>2, <2>5, <2>6 DEF ControlTypeOK
  <2>8. RequestInv' /\ AnswerIsOwn'
    BY <1>1, <2>0 DEF RequestInv, AnswerIsOwn
  <2>9. FramingInv'
    <3>. SUFFICES ASSUME ~disturbed
                  PROVE  request.phase # "idle" /\ Answering'
      BY <1>1, <2>0 DEF FramingInv
    <3>1. LengthUnits > 0 /\ up # <<>>
      BY <1>1, ControlAssumption
    <3>2. request.phase # "idle" /\ Waiting
      BY <1>1, <3>1 DEF FramingInv, Answering
    <3>3. /\ request.phase = "length" /\ up = Own /\ request.chunks = <<>>
          /\ down = <<>> /\ Rest = Own
      BY <3>2 DEF Waiting, Rest
    <3>4. /\ Own = Frame(requests, IdOf(requests)) /\ requests \in 1..requests
      BY <1>1, <3>2 DEF Own, RequestInv
    <3>5. /\ length = BodyUnits /\ Len(up) = LengthUnits + BodyUnits
      BY <1>1, <3>3, <3>4, FrameParts, FrameFacts DEF FrameUnits
    <3>6. body[1].number = requests /\ body[1].id = IdOf(requests)
      BY <1>1, <3>3, <3>4, <3>5, FrameParts DEF FrameUnits
    <3>7. sending' = Own
      BY <2>0, <3>4, <3>6
    <3>8. up' = <<>>
      BY <1>1, <2>0, <2>1, <3>5
    <3>9. Own \in Seq(Units) /\ <<>> \in Seq(Units)
      BY <2>5, <3>7
    <3>10. Join(<<>>, Join(<<>>, Join(Own, <<>>))) = Own
      BY <3>9, JoinFacts
    <3>. QED
      BY <1>1, <2>0, <2>2, <3>3, <3>7, <3>8, <3>9, <3>10 DEF Answering
  <2>. QED
    BY <2>7, <2>8, <2>9
<1>. QED
  BY <1>3, <1>4

\* The client reads k units.
LEMMA RecvStep ==
  ASSUME ControlInv, NEW k \in 1..FrameUnits, Recv(k)
  PROVE  ControlInv'
<1>. DEFINE front == SubSeq(down, 1, k)
            back  == SubSeq(down, k + 1, Len(down))
            units == Join(request.chunks, front)
<1>. USE DEF ControlInv
<1>1. /\ request.phase \in {"length", "body"}
      /\ k <= request.want - Len(request.chunks) /\ k <= Len(down)
      /\ down' = back
      /\ IF Len(units) < request.want
         THEN /\ request' = [request EXCEPT !.chunks = units]
              /\ UNCHANGED returned
         ELSE ReadDone(units)
      /\ UNCHANGED <<conn, up, sending, nextRequestId, requests, disturbed>>
  BY DEF Recv, Asked, Join
<1>2. /\ request.chunks \in Seq(Units) /\ down \in Seq(Units)
      /\ sending \in Seq(Units) /\ request.want \in Nat
      /\ request \in RequestRecord(Units)
  BY DEF ControlTypeOK, RequestRecord
<1>3. /\ requests \in 1..requests /\ request.number = requests
      /\ request.id = IdOf(requests) /\ requests \in Nat
      /\ request.phase = "length" => request.want = LengthUnits
  BY <1>1 DEF RequestInv, ControlTypeOK
<1>4. k \in 0..Len(down) /\ down # <<>>
  BY <1>1, <1>2
<1>5. /\ front \in Seq(Units) /\ back \in Seq(Units)
      /\ Join(front, back) = down /\ Len(front) = k
  BY <1>2, <1>4, Cut
<1>. HIDE DEF front, back
<1>6. /\ units \in Seq(Units) /\ Len(units) = Len(request.chunks) + k
      /\ Len(units) \in Nat /\ Len(units) > 0 /\ Len(units) <= request.want
  <2>1. units \in Seq(Units) /\ Len(units) = Len(request.chunks) + Len(front)
    BY <1>2, <1>5, JoinType
  <2>. HIDE DEF units
  <2>. QED
    BY <1>1, <1>2, <1>5, <2>1
<1>7. Units' = Units
  BY <1>1 DEF Units
<1>8. ~disturbed /\ conn # "none" =>
         /\ up = <<>>
         /\ request.phase = "body" => request.want = BodyUnits
         /\ \E lost \in Seq(Units) :
               /\ Join(units, Join(back, Join(sending, lost))) = Rest
               /\ conn = "up" => lost = <<>>
  <2>. SUFFICES ASSUME ~disturbed, conn # "none"
                PROVE  /\ up = <<>>
                       /\ request.phase = "body" => request.want = BodyUnits
                       /\ \E lost \in Seq(Units) :
                             /\ Join(units, Join(back, Join(sending, lost)))
                                   = Rest
                             /\ conn = "up" => lost = <<>>
    OBVIOUS
  <2>1. Answering
    BY <1>1, <1>4 DEF FramingInv, Waiting
  <2>2. PICK lost \in Seq(Units) :
           /\ Join(request.chunks, Join(down, Join(sending, lost))) = Rest
           /\ conn = "up" => lost = <<>>
    BY <2>1 DEF Answering
  <2>3. Join(sending, lost) \in Seq(Units)
    BY <1>2, JoinType
  <2>4. Join(units, Join(back, Join(sending, lost)))
            = Join(request.chunks,
                   Join(Join(front, back), Join(sending, lost)))
    <3>1. /\ request.chunks \in Seq(Units) /\ front \in Seq(Units)
          /\ back \in Seq(Units)
      BY <1>2, <1>5
    <3>. QED
      BY <2>3, <3>1, Regroup
  <2>. QED
    BY <1>5, <2>1, <2>2, <2>4 DEF Answering
<1>. HIDE DEF units
<1>9. CASE Len(units) < request.want
  <2>1. /\ request' = [request EXCEPT !.chunks = units]
        /\ UNCHANGED returned
    BY <1>1, <1>9
  <2>2. /\ request' \in RequestRecord(Units) /\ request'.chunks = units
        /\ request'.phase = request.phase /\ request'.number = request.number
        /\ request'.id = request.id /\ request'.want = request.want
    BY <1>2, <1>6, <2>1 DEF RequestRecord
  <2>3. Own' = Own /\ Rest' = Rest
    BY <2>2 DEF Own, Rest
  <2>4. ControlTypeOK'
    BY <1>1, <1>5, <1>7, <2>1, <2>2 DEF ControlTypeOK
  <2>5. RequestInv' /\ AnswerIsOwn'
    BY <1>1, <1>9, <2>1, <2>2 DEF RequestInv, AnswerIsOwn
  <2>6. FramingInv'
    BY <1>1, <1>7, <1>8, <2>2, <2>3 DEF FramingInv, Answering
  <2>. QED
    BY <2>4, <2>5, <2>6
<1>10. ASSUME ~(Len(units) < request.want)
       PROVE  ~disturbed /\ conn # "none" =>
                 LET own == Frame(requests, IdOf(requests)) IN
                 /\ request.phase = "length" =>
                       /\ units = SubSeq(own, 1, LengthUnits)
                       /\ \E lost \in Seq(Units) :
                             /\ Join(<<>>, Join(back, Join(sending, lost)))
                                   = SubSeq(own, LengthUnits + 1, FrameUnits)
                             /\ conn = "up" => lost = <<>>
                 /\ request.phase = "body" =>
                       /\ units = SubSeq(own, LengthUnits + 1, FrameUnits)
                       /\ back = <<>> /\ sending = <<>>
  <2>. DEFINE own == Frame(requests, IdOf(requests))
              body == SubSeq(own, LengthUnits + 1, FrameUnits)
  <2>. SUFFICES ASSUME ~disturbed, conn # "none"
                PROVE  /\ request.phase = "length" =>
                            /\ units = SubSeq(own, 1, LengthUnits)
                            /\ \E lost \in Seq(Units) :
                                  /\ Join(<<>>, Join(back, Join(sending, lost)))
                                        = body
                                  /\ conn = "up" => lost = <<>>
                       /\ request.phase = "body" =>
                            units = body /\ back = <<>> /\ sending = <<>>
    OBVIOUS
  <2>1. Len(units) = request.want
    <3>1. /\ Len(units) \in Nat /\ Len(units) <= request.want
          /\ request.want \in Nat
      BY <1>2, <1>6
    <3>. QED
      BY <1>10, <3>1
  <2>2. PICK lost \in Seq(Units) :
           /\ Join(units, Join(back, Join(sending, lost))) = Rest
           /\ conn = "up" => lost = <<>>
    BY <1>8
  <2>. DEFINE after == Join(back, Join(sending, lost))
  <2>3. Join(sending, lost) \in Seq(Units) /\ after \in Seq(Units)
    <3>1. Join(sending, lost) \in Seq(Units)
      BY <1>2, JoinType
    <3>. QED
      BY <1>5, <3>1, JoinType
  <2>4. /\ own \in Seq(Units) /\ Len(own) = FrameUnits
        /\ body \in Seq(Units) /\ Len(body) = BodyUnits
        /\ LengthUnits \in Nat /\ BodyUnits \in Nat
    BY <1>3, FrameFacts, FrameParts, ControlAssumption DEF Units
  <2>5. Rest = IF request.phase = "length" THEN own ELSE body
    BY <1>3 DEF Rest, Own
  <2>. HIDE DEF own, body, after
  <2>6. CASE request.phase = "length"
    <3>1. Join(units, after) = own /\ Len(units) = LengthUnits
      BY <1>3, <2>1, <2>2, <2>5, <2>6 DEF after
    <3>2. /\ units = SubSeq(own, 1, LengthUnits)
          /\ after = SubSeq(own, LengthUnits + 1, FrameUnits)
      <4>1. /\ units \in Seq(Units) /\ after \in Seq(Units)
            /\ own \in Seq(Units) /\ Join(units, after) = own
        BY <1>6, <2>3, <2>4, <3>1
      <4>2. /\ units = SubSeq(own, 1, Len(units))
            /\ after = SubSeq(own, Len(units) + 1, Len(own))
        BY <4>1, CutUnique
      <4>. QED
        BY <2>4, <3>1, <4>2
    <3>3. Join(<<>>, after) = after
      BY <2>3, JoinFacts
    <3>. QED
      BY <2>2, <2>6, <3>2, <3>3 DEF after, body
  <2>7. CASE request.phase = "body"
    <3>1. Join(units, after) = body /\ Len(units) = BodyUnits
      BY <1>8, <2>1, <2>2, <2>5, <2>7 DEF after
    <3>2. Len(after) = 0 /\ units = SubSeq(body, 1, BodyUnits)
      <4>1. /\ units \in Seq(Units) /\ after \in Seq(Units)
            /\ body \in Seq(Units) /\ Join(units, after) = body
        BY <1>6, <2>3, <2>4, <3>1
      <4>2. /\ Len(body) = Len(units) + Len(after)
            /\ units = SubSeq(body, 1, Len(units))
        BY <4>1, CutUnique
      <4>. QED
        BY <2>3, <2>4, <3>1, <4>2
    <3>3. units = body
      BY <2>4, <3>2, SubSeqFull
    <3>4. after = <<>>
      BY <2>3, <3>2
    <3>5. back = <<>> /\ Join(sending, lost) = <<>>
      BY <1>5, <2>3, <3>4, JoinFacts DEF after
    <3>6. sending = <<>>
      BY <1>2, <3>5, JoinFacts
    <3>. QED
      BY <2>7, <3>3, <3>5, <3>6
  <2>. QED
    BY <1>1, <2>6, <2>7
<1>11. ASSUME NEW e \in Errors, Raise(e), disturbed \/ conn = "none"
       PROVE  ControlInv'
  <2>1. /\ request' = NoRequest /\ returned' \in ReturnedRecord
        /\ returned'.asked = returned'.answered
    BY <1>11, RaiseFacts
  <2>2. ControlTypeOK'
    BY <1>1, <1>5, <1>7, <2>1, IdleFacts DEF ControlTypeOK
  <2>3. RequestInv' /\ FramingInv' /\ AnswerIsOwn'
    BY <1>1, <1>11, <2>1, IdleFacts DEF RequestInv, FramingInv, AnswerIsOwn
  <2>. QED
    BY <2>2, <2>3
<1>12. CASE ~(Len(units) < request.want) /\ request.phase = "length"
  <2>1. PICK length \in LengthsOf(units) :
          IF length > MaximumFrame THEN Raise("too large")
          ELSE IF length = 0 THEN Raise("decode")
          ELSE /\ request' = [request EXCEPT !.phase = "body",
                                  !.want = length, !.chunks = <<>>]
               /\ UNCHANGED returned
    BY <1>1, <1>12 DEF ReadDone
  <2>2. /\ length \in Nat /\ BodyUnits \in Nat \ {0}
        /\ BodyUnits <= MaximumFrame /\ MaximumFrame \in Nat
    BY ControlAssumption DEF LengthsOf
  <2>3. ~disturbed /\ conn # "none" => length = BodyUnits
    <3>1. LengthsOf(SubSeq(Frame(requests, IdOf(requests)), 1, LengthUnits))
             = {BodyUnits}
      BY <1>3, FrameParts
    <3>2. ~disturbed /\ conn # "none" =>
             units = SubSeq(Frame(requests, IdOf(requests)), 1, LengthUnits)
      BY <1>10, <1>12
    <3>. QED
      BY <3>1, <3>2
  <2>4. CASE length > MaximumFrame
    <3>1. disturbed \/ conn = "none"
      BY <2>2, <2>3, <2>4
    <3>. QED
      BY <1>11, <2>1, <2>4, <3>1 DEF Errors
  <2>5. CASE ~(length > MaximumFrame) /\ length = 0
    <3>1. disturbed \/ conn = "none"
      BY <2>2, <2>3, <2>5
    <3>. QED
      BY <1>11, <2>1, <2>5, <3>1 DEF Errors
  <2>6. CASE ~(length > MaximumFrame) /\ length # 0
    <3>1. /\ request' = [request EXCEPT !.phase = "body", !.want = length,
                                        !.chunks = <<>>]
          /\ UNCHANGED returned
      BY <2>1, <2>6
    <3>2. <<>> \in Seq(Units)
      OBVIOUS
    <3>3. /\ request' \in RequestRecord(Units) /\ request'.chunks = <<>>
          /\ request'.phase = "body" /\ request'.number = request.number
          /\ request'.id = request.id /\ request'.want = length
      BY <1>2, <2>2, <3>1, <3>2 DEF RequestRecord
    <3>4. Rest' = SubSeq(Frame(requests, IdOf(requests)), LengthUnits + 1,
                         FrameUnits)
      BY <1>3, <3>3 DEF Rest, Own
    <3>5. ControlTypeOK'
      BY <1>1, <1>5, <1>7, <3>1, <3>3 DEF ControlTypeOK
    <3>6. RequestInv'
      <4>1. Len(<<>>) < length
        BY <2>2, <2>6
      <4>. QED
        BY <1>1, <1>3, <3>3, <4>1 DEF RequestInv
    <3>7. AnswerIsOwn'
      BY <3>1 DEF AnswerIsOwn
    <3>8. FramingInv'
      <4>. SUFFICES ASSUME ~disturbed, conn # "none" PROVE Answering'
        BY <1>1, <3>3 DEF FramingInv
      <4>1. PICK lost \in Seq(Units) :
               /\ Join(<<>>, Join(back, Join(sending, lost)))
                     = SubSeq(Frame(requests, IdOf(requests)),
                              LengthUnits + 1, FrameUnits)
               /\ conn = "up" => lost = <<>>
        BY <1>10, <1>12
      <4>2. Join(request'.chunks, Join(down', Join(sending', lost))) = Rest'
        BY <1>1, <3>3, <3>4, <4>1
      <4>. QED
        BY <1>1, <1>7, <1>8, <2>3, <3>3, <4>1, <4>2 DEF Answering
    <3>. QED
      BY <3>5, <3>6, <3>7, <3>8
  <2>. QED
    BY <2>4, <2>5, <2>6
<1>13. CASE ~(Len(units) < request.want) /\ request.phase = "body"
  <2>1. CASE ~Decodes(units) \/ ~Matches(units[1])
    <3>1. PICK e \in Errors : Raise(e)
      BY <1>1, <1>13, <2>1 DEF ReadDone, Errors
    <3>2. disturbed \/ conn = "none"
      BY <1>3, <1>10, <1>13, <2>1, FrameParts DEF Matches
    <3>. QED
      BY <1>11, <3>1, <3>2
  <2>2. CASE Decodes(units) /\ Matches(units[1])
    <3>1. /\ request' = NoRequest
          /\ returned' = [asked |-> request.number, error |-> "none",
                          answered |-> units[1].number]
      BY <1>1, <1>13, <2>2 DEF ReadDone
    <3>2. units[1] \in Units
      BY <1>6
    <3>3. /\ units[1].number \in 1..requests
          /\ units[1].id = IdOf(units[1].number)
      BY <3>2 DEF Units, UnitsOf
    <3>4. returned'.asked = requests /\ returned'.answered = units[1].number
      BY <1>3, <3>1
    <3>5. returned' \in ReturnedRecord /\ returned'.error = "none"
      BY <1>3, <3>1, <3>3 DEF ReturnedRecord, Errors
    <3>6. AnswerIsOwn'
      <4>1. IdOf(units[1].number) = IdOf(requests)
        BY <1>3, <2>2, <3>3 DEF Matches
      <4>2. units[1].number # requests =>
               requests >= units[1].number + MaxRequestId
        BY <1>3, <3>3, <4>1, IdRound
      <4>. QED
        BY <3>4, <4>2 DEF AnswerIsOwn
    <3>7. ControlTypeOK'
      BY <1>1, <1>5, <1>7, <3>1, <3>5, IdleFacts DEF ControlTypeOK
    <3>8. RequestInv'
      BY <1>1, <3>1, IdleFacts DEF RequestInv
    <3>9. FramingInv'
      BY <1>1, <1>8, <1>10, <1>13, <3>1, <3>5, IdleFacts DEF FramingInv
    <3>. QED
      BY <3>6, <3>7, <3>8, <3>9
  <2>. QED
    BY <2>1, <2>2
<1>. QED
  BY <1>1, <1>9, <1>12, <1>13

\* What the inductive invariant says of the stream is what FramingInStep asks.
LEMMA FramingFollows ==
  ASSUME ControlInv
  PROVE  FramingInStep
<1>. USE DEF ControlInv
<1>0. /\ request.chunks \in Seq(Units) /\ down \in Seq(Units)
      /\ sending \in Seq(Units) /\ <<>> \in Seq(Units)
  BY DEF ControlTypeOK, RequestRecord
<1>. SUFFICES ASSUME ~disturbed, conn # "none"
              PROVE  IF request.phase = "idle"
                     THEN /\ up \o down \o sending = <<>>
                          /\ returned.error \in {"none", "encode"}
                     ELSE LET sofar == request.chunks \o down \o sending IN
                          \/ up = Own /\ sofar = <<>> /\ Rest = Own
                          \/ up = <<>> /\ sofar = Rest
                          \/ conn = "eof" /\ \E k \in 0..FrameUnits :
                                                sofar = SubSeq(Rest, 1, k)
  BY DEF FramingInStep, Own, Rest
<1>1. CASE request.phase = "idle"
  <2>1. <<>> \o <<>> \o <<>> = <<>>
    OBVIOUS
  <2>. QED
    BY <1>1, <2>1 DEF FramingInv
<1>2. CASE request.phase # "idle" /\ Waiting
  <2>1. <<>> \o <<>> \o <<>> = <<>>
    OBVIOUS
  <2>. QED
    BY <1>2, <2>1 DEF Waiting, Rest
<1>3. CASE request.phase # "idle" /\ Answering
  <2>. DEFINE sofar == Join(Join(request.chunks, down), sending)
  <2>1. PICK lost \in Seq(Units) :
           /\ Join(request.chunks, Join(down, Join(sending, lost))) = Rest
           /\ conn = "up" => lost = <<>>
    BY <1>3 DEF Answering
  <2>2. /\ sofar \in Seq(Units) /\ Join(sending, lost) \in Seq(Units)
        /\ Join(request.chunks, down) \in Seq(Units)
    BY <1>0, JoinType
  <2>3. Join(sofar, lost) = Rest
    <3>1. Join(sofar, lost)
             = Join(Join(request.chunks, down), Join(sending, lost))
      BY <1>0, <2>2, JoinFacts
    <3>2. Join(Join(request.chunks, down), Join(sending, lost))
             = Join(request.chunks, Join(down, Join(sending, lost)))
      BY <1>0, <2>2, JoinFacts
    <3>. QED
      BY <2>1, <3>1, <3>2
  <2>. HIDE DEF sofar
  <2>4. /\ Rest \in Seq(Units) /\ Len(Rest) \in 0..FrameUnits
    <3>1. /\ requests \in 1..requests /\ requests \in Nat
          /\ Own = Frame(requests, IdOf(requests))
      BY <1>3 DEF RequestInv, ControlTypeOK, Own
    <3>2. /\ Own \in Seq(Units) /\ Len(Own) = FrameUnits /\ FrameUnits \in Nat
      BY <3>1, FrameFacts DEF Units
    <3>3. LET body == SubSeq(Own, LengthUnits + 1, FrameUnits)
          IN  body \in Seq(Units) /\ Len(body) = BodyUnits
      BY <3>1, FrameParts DEF Units
    <3>4. BodyUnits \in 0..FrameUnits
      BY ControlAssumption DEF FrameUnits
    <3>. QED
      BY <3>2, <3>3, <3>4 DEF Rest
  <2>5. CASE conn = "up"
    <3>1. sofar = Rest
      BY <2>1, <2>2, <2>3, <2>5, JoinFacts
    <3>. QED
      BY <1>3, <3>1 DEF sofar, Join, Answering
  <2>6. CASE conn = "eof"
    <3>1. /\ Len(Rest) = Len(sofar) + Len(lost)
          /\ sofar = SubSeq(Rest, 1, Len(sofar))
      BY <2>2, <2>3, <2>4, CutUnique
    <3>2. Len(sofar) \in 0..FrameUnits
      <4>1. Len(sofar) \in Nat /\ Len(lost) \in Nat /\ FrameUnits \in Nat
        BY <2>2, ControlAssumption DEF FrameUnits
      <4>. QED
        BY <2>4, <3>1, <4>1
    <3>. QED
      BY <1>3, <2>6, <3>1, <3>2 DEF sofar, Join
  <2>. QED
    BY <2>5, <2>6 DEF ControlTypeOK
<1>. QED
  BY <1>1, <1>2, <1>3 DEF FramingInv

-----------------------------------------------------------------------------
(* The lab script *)

\* The control port belongs to a child that lives, and a connection that is
\* up leads to it.
PortInv ==
    /\ listener # 0 =>
          listener \in DOMAIN children /\ children[listener].alive
    /\ conn = "up" => listener # 0

IInv == OrchestratorInv /\ ControlInv /\ PortInv

\* The lab before its first call
LEMMA InitIInv == Init => IInv
BY OrchestratorInitInv, ControlInitInv
   DEF Init, IInv, PortInv, ControlInit, OrchestratorInit

\* Steps of the control channel leave the orchestrator alone.
LEMMA OrchestratorKept ==
  ASSUME OrchestratorInv, UNCHANGED <<children, processes, task, interrupts>>,
         outcome' \in {outcome, "none"}
  PROVE  OrchestratorInv'
<1>. USE DEF OrchestratorInv
<1>1. OrchestratorTypeOK' /\ DictInv' /\ CallInv'
  BY DEF OrchestratorTypeOK, DictInv, CallInv, Tracked, Free
<1>2. ForgottenIsReleased'
  BY DEF ForgottenIsReleased, Forgotten, Tracked
<1>3. NothingIsLeft'
  BY DEF NothingIsLeft, Free
<1>. QED
  BY <1>1, <1>2, <1>3

\* Steps of the orchestrator leave the control channel alone.
LEMMA ControlKept ==
  ASSUME ControlInv, UNCHANGED controlVars
  PROVE  ControlInv'
<1>. USE DEF ControlInv, controlVars
<1>1. Units' = Units /\ Own' = Own /\ Rest' = Rest
  BY DEF Units, Own, Rest
<1>2. ControlTypeOK'
  BY <1>1 DEF ControlTypeOK
<1>3. RequestInv' /\ AnswerIsOwn'
  BY DEF RequestInv, AnswerIsOwn
<1>4. Waiting' = Waiting /\ Answering' = Answering
  BY <1>1 DEF Waiting, Answering
<1>5. FramingInv'
  BY <1>4 DEF FramingInv
<1>. QED
  BY <1>2, <1>3, <1>5

\* The orchestrator's steps: no child disappears, and none ends by them.
LEMMA ChildrenStay ==
  ASSUME OrchestratorInv, OrchestratorCall \/ TaskStep \/ Interrupted,
         NEW c \in DOMAIN children
  PROVE  c \in DOMAIN children' /\ children'[c].alive = children[c].alive
<1>. USE DEF OrchestratorInv
<1>1. CASE UNCHANGED children
  BY <1>1
<1>2. ASSUME NEW spec \in Specs, children' = Append(children, Child(spec))
      PROVE  c \in DOMAIN children' /\ children'[c].alive = children[c].alive
  BY <1>2, NewChild
<1>3. ASSUME NEW d \in DOMAIN children, NEW new \in ChildRecord,
             children' = [children EXCEPT ![d] = new],
             new.alive = children[d].alive
      PROVE  c \in DOMAIN children' /\ children'[c].alive = children[c].alive
  BY <1>3, ChildChanges
<1>4. CASE OrchestratorCall
  BY <1>1, <1>2, <1>4 DEF OrchestratorCall, Start, Spawn, SpawnInterrupted,
                          CallStartAll, CallStop, CallStopAll
<1>5. CASE StartNext \/ StartInterrupted
  <2>1. task.plan # <<>> /\ task.plan \in Seq(Specs)
    BY <1>5 DEF StartNext, StartInterrupted, OrchestratorTypeOK, TaskRecord
  <2>2. Head(task.plan) \in Specs
    BY <2>1
  <2>. QED
    BY <1>2, <1>5, <2>2 DEF StartNext, Spawn, StartInterrupted,
                           SpawnInterrupted
<1>6. CASE StartFails \/ StartedAll \/ StoppedAll \/ CallInterrupted
  BY <1>1, <1>6 DEF StartFails, StartedAll, StoppedAll, CallInterrupted
<1>7. CASE StopNext
  <2>. DEFINE d == Head(task.victims)
              told   == [children[d] EXCEPT !.told = "terminate"]
              closed == [children[d] EXCEPT !.log = FALSE]
  <2>1. task.victims \in Seq(Nat) /\ task.victims # <<>>
    BY <1>7 DEF StopNext, OrchestratorTypeOK, TaskRecord
  <2>2. d \in DOMAIN children
    BY <2>1, TailFacts DEF DictInv
  <2>3. children[d] \in ChildRecord
    BY <2>2 DEF OrchestratorTypeOK
  <2>4. /\ told \in ChildRecord /\ told.alive = children[d].alive
        /\ closed \in ChildRecord /\ closed.alive = children[d].alive
    BY <2>3 DEF ChildRecord
  <2>5. \/ children' = [children EXCEPT ![d] = told]
        \/ children' = [children EXCEPT ![d] = closed]
    BY <1>7 DEF StopNext
  <2>. HIDE DEF d, told, closed
  <2>. QED
    BY <1>3, <2>2, <2>4, <2>5
<1>8. CASE WaitTimesOut \/ WaitEnds
  <2>. DEFINE d == task.waiting
              told   == [children[d] EXCEPT !.told = "kill"]
              closed == [children[d] EXCEPT !.log = FALSE]
  <2>1. d \in DOMAIN children
    BY <1>8 DEF WaitTimesOut, WaitEnds, DictInv
  <2>2. children[d] \in ChildRecord
    BY <2>1 DEF OrchestratorTypeOK
  <2>3. /\ told \in ChildRecord /\ told.alive = children[d].alive
        /\ closed \in ChildRecord /\ closed.alive = children[d].alive
    BY <2>2 DEF ChildRecord
  <2>4. \/ children' = [children EXCEPT ![d] = told]
        \/ children' = [children EXCEPT ![d] = closed]
    BY <1>8 DEF WaitTimesOut, WaitEnds
  <2>. HIDE DEF d, told, closed
  <2>. QED
    BY <1>3, <2>1, <2>3, <2>4
<1>. QED
  BY <1>4, <1>5, <1>6, <1>7, <1>8 DEF TaskStep, Interrupted

\* Every step of the orchestrator keeps its invariant.
LEMMA OrchestratorStep ==
  ASSUME OrchestratorInv, OrchestratorCall \/ TaskStep \/ Interrupted
  PROVE  OrchestratorInv'
<1>1. CASE OrchestratorCall
  BY <1>1, StartStep, CallStartAllStep, CallStopStep, CallStopAllStep
     DEF OrchestratorCall
<1>2. CASE TaskStep
  BY <1>2, StartNextStep, StartFailsStep, StartedAllStep, StopNextStep,
     WaitStep, StoppedAllStep DEF TaskStep
<1>3. CASE Interrupted
  BY <1>3, InterruptedStep
<1>. QED
  BY <1>1, <1>2, <1>3

\* Every call of the client keeps its invariant, and only connect() connects.
LEMMA ControlCallStep ==
  ASSUME ControlInv,
         \/ Connect \/ CloseConnection \/ RequestTooLarge
         \/ \E sent \in 0..FrameUnits : Request(sent)
  PROVE  ControlInv' /\ (conn' = "up" => conn = "up" \/ Connect)
<1>1. CASE Connect \/ CloseConnection
  BY <1>1, IdleStep DEF Connect, CloseConnection
<1>2. CASE RequestTooLarge
  BY <1>2, RequestTooLargeStep DEF RequestTooLarge
<1>3. ASSUME NEW sent \in 0..FrameUnits, Request(sent)
      PROVE  ControlInv' /\ (conn' = "up" => conn = "up" \/ Connect)
  BY <1>3, RequestStarts DEF Request
<1>. QED
  BY <1>1, <1>2, <1>3

\* Every step of a request keeps the invariant of the channel.
LEMMA RequestStepInv ==
  ASSUME ControlInv, RequestStep \/ RequestInterrupted
  PROVE  ControlInv' /\ conn' = conn
<1>1. CASE RecvFails \/ RequestInterrupted
  BY <1>1, RecvFailsStep DEF RecvFails, RequestInterrupted
<1>2. ASSUME NEW k \in 1..FrameUnits, Recv(k)
      PROVE  ControlInv' /\ conn' = conn
  BY <1>2, RecvStep DEF Recv
<1>. QED
  BY <1>1, <1>2 DEF RequestStep

\* The calls of the script
LEMMA ScriptCallStep == IInv /\ ScriptCall => IInv'
<1>. SUFFICES ASSUME IInv, ScriptCall PROVE IInv'
  OBVIOUS
<1>. USE DEF IInv
<1>1. UNCHANGED listener
  BY DEF ScriptCall
<1>2. CASE /\ OrchestratorCall /\ returned' = Nothing
           /\ UNCHANGED <<conn, nextRequestId, request, up, down, sending,
                          requests, disturbed>>
  <2>1. request.phase = "idle"
    BY DEF ScriptCall, AtRest
  <2>2. ControlInv'
    BY <1>2, <2>1, IdleStep
  <2>3. OrchestratorInv'
    BY <1>2, OrchestratorStep
  <2>4. PortInv'
    BY <1>1, <1>2, ChildrenStay DEF PortInv
  <2>. QED
    BY <2>2, <2>3, <2>4
<1>3. CASE /\ \/ listener # 0 /\ Connect
              \/ CloseConnection \/ RequestTooLarge
              \/ \E sent \in 0..FrameUnits : Request(sent)
           /\ outcome' = "none"
           /\ UNCHANGED <<children, processes, task, interrupts>>
  <2>1. ControlInv' /\ (conn' = "up" => conn = "up" \/ Connect)
    BY <1>3, ControlCallStep
  <2>2. conn' = "up" => conn = "up" \/ listener # 0
    BY <1>3, <2>1 DEF CloseConnection, RequestTooLarge, Request
  <2>3. OrchestratorInv'
    BY <1>3, OrchestratorKept
  <2>4. PortInv'
    BY <1>1, <1>3, <2>2 DEF PortInv
  <2>. QED
    BY <2>1, <2>3, <2>4
<1>. QED
  BY <1>2, <1>3 DEF ScriptCall

\* The steps of the call the script is in
LEMMA ScriptStepStep == IInv /\ ScriptStep => IInv'
<1>. SUFFICES ASSUME IInv, ScriptStep PROVE IInv'
  OBVIOUS
<1>. USE DEF IInv
<1>1. UNCHANGED listener
  BY DEF ScriptStep
<1>2. CASE (TaskStep \/ Interrupted) /\ UNCHANGED controlVars
  <2>1. OrchestratorInv' /\ ControlInv'
    BY <1>2, OrchestratorStep, ControlKept
  <2>2. PortInv'
    BY <1>1, <1>2, ChildrenStay DEF PortInv, controlVars
  <2>. QED
    BY <2>1, <2>2
<1>3. CASE (RequestStep \/ RequestInterrupted) /\ UNCHANGED orchestratorVars
  <2>1. ControlInv' /\ conn' = conn
    BY <1>3, RequestStepInv
  <2>2. OrchestratorInv'
    BY <1>3, OrchestratorKept DEF orchestratorVars
  <2>3. PortInv'
    BY <1>1, <1>3, <2>1 DEF PortInv, orchestratorVars
  <2>. QED
    BY <2>1, <2>2, <2>3
<1>. QED
  BY <1>2, <1>3 DEF ScriptStep

\* The steps of the server at the other end
LEMMA ServerStepStep == IInv /\ ServerStep => IInv'
<1>. SUFFICES ASSUME IInv, ServerStep PROVE IInv'
  OBVIOUS
<1>. USE DEF IInv
<1>1. UNCHANGED <<orchestratorVars, listener>>
  BY DEF ServerStep
<1>2. ControlInv' /\ (conn' = "up" => conn = "up")
  <2>1. CASE ReceiveFrame
    BY <2>1, ReceiveFrameStep DEF ReceiveFrame
  <2>2. ASSUME NEW k \in 1..FrameUnits, Send(k)
        PROVE  ControlInv' /\ (conn' = "up" => conn = "up")
    BY <2>2, SendStep DEF Send
  <2>. QED
    BY <2>1, <2>2 DEF ServerStep
<1>3. OrchestratorInv'
  BY <1>1, OrchestratorKept DEF orchestratorVars
<1>4. PortInv'
  BY <1>1, <1>2 DEF PortInv, orchestratorVars
<1>. QED
  BY <1>2, <1>3, <1>4

\* A child exits, and its connection and its port with it.
LEMMA ChildStepStep == IInv /\ ChildStep => IInv'
<1>. SUFFICES ASSUME IInv, NEW c \in DOMAIN children, Listen(c) \/ Exit(c)
              PROVE  IInv'
  BY DEF ChildStep
<1>. USE DEF IInv
<1>1. CASE Listen(c)
  <2>1. OrchestratorInv' /\ ControlInv'
    BY <1>1, OrchestratorKept, ControlKept DEF Listen, orchestratorVars
  <2>2. PortInv'
    <3>1. c # 0
      BY DEF OrchestratorInv, OrchestratorTypeOK
    <3>. QED
      BY <1>1, <3>1 DEF Listen, PortInv, orchestratorVars, controlVars
  <2>. QED
    BY <2>1, <2>2
<1>2. CASE Exit(c)
  <2>1. /\ OrchestratorInv' /\ DOMAIN children' = DOMAIN children
        /\ \A d \in DOMAIN children \ {c} : children'[d] = children[d]
    BY <1>2, ChildExitsStep DEF Exit
  <2>2. ControlInv'
    BY <1>2, HangUpStep, ControlKept DEF Exit
  <2>3. /\ listener' = IF c = listener THEN 0 ELSE listener
        /\ conn' = "up" => conn = "up" /\ c # listener
    BY <1>2 DEF Exit, HangUp, controlVars
  <2>4. PortInv'
    BY <2>1, <2>3 DEF PortInv
  <2>. QED
    BY <2>1, <2>2, <2>4
<1>. QED
  BY <1>1, <1>2

\* Every step of the lab keeps the invariant.
LEMMA StepIInv == IInv /\ [Next]_vars => IInv'
<1>. SUFFICES ASSUME IInv, [Next]_vars PROVE IInv'
  OBVIOUS
<1>1. CASE Next
  BY <1>1, ScriptCallStep, ScriptStepStep, ServerStepStep, ChildStepStep
     DEF Next
<1>2. CASE UNCHANGED vars
  <2>1. OrchestratorInv' /\ ControlInv'
    BY <1>2, OrchestratorKept, ControlKept
       DEF IInv, vars, orchestratorVars
  <2>2. PortInv'
    BY <1>2 DEF IInv, PortInv, vars, orchestratorVars, controlVars
  <2>. QED
    BY <2>1, <2>2 DEF IInv
<1>. QED
  BY <1>1, <1>2

\* The server a connection leads to lives, so if the orchestrator neither has
\* it nor waits for it, it is loose, and that takes an interrupt.
LEMMA OwnServer == IInv => TalksToOwnServer
<1>. SUFFICES ASSUME IInv, conn = "up",
                     listener \notin Tracked \cup {task.waiting}
              PROVE  interrupts > 0
  BY DEF TalksToOwnServer
<1>1. OrchestratorTypeOK /\ ForgottenIsReleased
  BY DEF IInv, OrchestratorInv
<1>2. listener \in Loose
  BY DEF IInv, PortInv, Loose, Forgotten
<1>3. interrupts # 0
  BY <1>1, <1>2, NoneLoose
<1>. QED
  BY <1>1, <1>3 DEF OrchestratorTypeOK

-----------------------------------------------------------------------------
\* A child that is no longer in the dict has exited and its log is closed,
\* but for one child for each KeyboardInterrupt (orchestrator.py: stop,
\* start_all), and after a stop_all that returned or a start_all that raised
\* nothing is left running.
THEOREM OrchestratorSafe == Spec => [](ForgottenIsReleased /\ NothingIsLeft)
<1>1. IInv => ForgottenIsReleased /\ NothingIsLeft
  BY DEF IInv, OrchestratorInv
<1>. QED
  BY <1>1, InitIInv, StepIInv, PTL DEF Spec

\* The response a request returns is its own, or a whole round of identifiers
\* old; and until a send or recv fails or is interrupted, both ends agree
\* where frames begin (control_client.py: request, _receive_exact).
THEOREM ControlSafe == Spec => [](AnswerIsOwn /\ FramingInStep)
<1>1. IInv => AnswerIsOwn /\ FramingInStep
  BY FramingFollows DEF IInv, ControlInv
<1>. QED
  BY <1>1, InitIInv, StepIInv, PTL DEF Spec

\* A script not interrupted in a start or stop is connected to a server its
\* orchestrator still has, or is waiting for to end.
THEOREM LabSafe == Spec => []TalksToOwnServer
BY InitIInv, StepIInv, OwnServer, PTL DEF Spec
=============================================================================
