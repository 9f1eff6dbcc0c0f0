--------------------------- MODULE MotorContract ---------------------------
(***************************************************************************)
(* What the actuator firmware promises about the motor, with nothing of    *)
(* how it gets there: one power stage and one step-pulse generator.        *)
(*                                                                         *)
(* The promise is in what Next leaves out.  A motion can only start on an  *)
(* energised power stage; energising never starts one; the only way to end *)
(* a motion at once is to cut the power stage with it; a velocity run ends *)
(* by braking or by cutting off, never by itself.                          *)
(***************************************************************************)

VARIABLES
  outputs,   (* TRUE while the driver outputs are energised             *)
  motion     (* what the pulse generator is doing                       *)

motorVars == <<outputs, motion>>

Motions == {"still", "position", "velocity", "stopping"}

MotorInit ==
  /\ outputs = FALSE
  /\ motion = "still"

Energise ==
  /\ outputs' = TRUE
  /\ UNCHANGED motion

DeEnergise ==
  /\ outputs' = FALSE
  /\ UNCHANGED motion

Start(kind) ==
  /\ outputs
  /\ kind \in {"position", "velocity"}
  /\ motion' = kind
  /\ UNCHANGED outputs

Brake ==
  /\ motion # "still"
  /\ motion' = "stopping"
  /\ UNCHANGED outputs

Finish ==
  /\ motion \in {"position", "stopping"}
  /\ motion' = "still"
  /\ UNCHANGED outputs

CutOff ==
  /\ outputs' = FALSE
  /\ motion' = "still"

MotorNext ==
  \/ Energise
  \/ DeEnergise
  \/ \E kind \in {"position", "velocity"} : Start(kind)
  \/ Brake
  \/ Finish
  \/ CutOff

MotorSpec == MotorInit /\ [][MotorNext]_motorVars

=============================================================================
