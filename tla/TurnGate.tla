------------------------------ MODULE TurnGate ------------------------------
(***************************************************************************)
(* What the engine promises its caller about jobs, with the threads, the   *)
(* mutexes and the condition variables left out: a request is accepted     *)
(* only when no other one is outstanding, the accepted job is the one that *)
(* runs, it runs once, and the engine is free for the next request only    *)
(* after it finished.  Destroying the engine may drop a job that was       *)
(* accepted and not started; a job that started is finished first.         *)
(*                                                                         *)
(* EngineTurns is shown to implement this module.                          *)
(***************************************************************************)
CONSTANTS Jobs, NoJob

VARIABLES phase,    \* "idle" | "accepted" | "running" | "closed"
          current   \* the outstanding job, NoJob when there is none

gateVars == <<phase, current>>

GateInit == phase = "idle" /\ current = NoJob

\* A public method claimed the engine for job j.
Accept(j) == /\ phase = "idle"
             /\ phase' = "accepted"
             /\ current' = j

\* The worker took the accepted job.
Start == /\ phase = "accepted"
         /\ phase' = "running"
         /\ UNCHANGED current

\* The job's effects are published and the engine is free again.
Finish == /\ phase = "running"
          /\ phase' = "idle"
          /\ current' = NoJob

\* The engine is destroyed between jobs; a job not yet started is dropped.
Close == /\ phase \in {"idle", "accepted"}
         /\ phase' = "closed"
         /\ current' = NoJob

GateNext == \/ \E j \in Jobs : Accept(j)
            \/ Start
            \/ Finish
            \/ Close

\* An accepted job is started, or dropped because the engine is closing.
Serve == Start \/ (phase = "accepted" /\ Close)

GateSpec == GateInit /\ [][GateNext]_gateVars

FairGateSpec == GateSpec /\ WF_gateVars(Serve) /\ WF_gateVars(Finish)
=============================================================================
