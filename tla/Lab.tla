--------------------------------- MODULE Lab ---------------------------------
(***************************************************************************)
(* A lab script: one thread that starts and stops the processes of the lab *)
(* through a LabOrchestrator and, while they run, controls the switch      *)
(* server among them through a ControlClient.  The server is a child: it   *)
(* listens while it lives, and its end closes the connection.              *)
(***************************************************************************)
EXTENDS ControlChannel, LabOrchestrator

CONSTANT ServerName    \* the child that listens on the control port

VARIABLE listener      \* the child that has the control port, or 0

vars == <<controlVars, orchestratorVars, listener>>

\* The script is in no call of either object.
AtRest == Free /\ request.phase = "idle"

Init == ControlInit /\ OrchestratorInit /\ listener = 0

\* A server binds the port unless another one still has it.
Listen(c) ==
    /\ children[c].alive /\ children[c].name = ServerName
    /\ listener = 0
    /\ listener' = c
    /\ UNCHANGED <<controlVars, orchestratorVars>>

\* With the child its socket is closed; what it has sent can still be read.
Exit(c) ==
    /\ ChildExits(c)
    /\ IF c = listener /\ conn = "up"
       THEN HangUp /\ listener' = 0
       ELSE /\ UNCHANGED controlVars
            /\ listener' = IF c = listener THEN 0 ELSE listener

\* What the last call returned is known until the next one.
ScriptCall ==
    /\ AtRest
    /\ \/ /\ OrchestratorCall
          /\ returned' = Nothing
          /\ UNCHANGED <<conn, nextRequestId, request, up, down, sending,
                         requests, disturbed>>
       \/ /\ \/ listener # 0 /\ Connect
             \/ CloseConnection \/ RequestTooLarge
             \/ \E sent \in 0..FrameUnits : Request(sent)
          /\ outcome' = "none"
          /\ UNCHANGED <<children, processes, task, interrupts>>
    /\ UNCHANGED listener

ScriptStep ==
    /\ \/ (TaskStep \/ Interrupted) /\ UNCHANGED controlVars
       \/ (RequestStep \/ RequestInterrupted) /\ UNCHANGED orchestratorVars
    /\ UNCHANGED listener

ServerStep ==
    /\ ReceiveFrame \/ \E k \in 1..FrameUnits : Send(k)
    /\ UNCHANGED <<orchestratorVars, listener>>

ChildStep == \E c \in DOMAIN children : Listen(c) \/ Exit(c)

Next == ScriptCall \/ ScriptStep \/ ServerStep \/ ChildStep

Spec == Init /\ [][Next]_vars

\* A call the script has made goes on: a recv returns or times out, a wait()
\* returns or times out, and a killed process ends.  Nothing is assumed of
\* children that were not killed.
FairSpec ==
    /\ Spec
    /\ WF_vars(TaskStep /\ UNCHANGED <<controlVars, listener>>)
    /\ WF_vars(RequestStep /\ UNCHANGED <<orchestratorVars, listener>>)
    /\ \A c \in 1..MaxStarts :
          WF_vars(c \in DOMAIN children /\ children[c].told = "kill" /\ Exit(c))

-----------------------------------------------------------------------------
(* Properties *)

\* A script that was not interrupted in a start or stop talks to the server of
\* its own lab: to one the orchestrator has, and after stop_all to none.
TalksToOwnServer ==
    conn = "up" => \/ listener \in Tracked \cup {task.waiting}
                   \/ interrupts > 0

\* Every call ends: stop_all although a child ignores terminate(), a request
\* although the server is gone, silent or out of step.
CallsReturn == ~AtRest ~> AtRest
=============================================================================
