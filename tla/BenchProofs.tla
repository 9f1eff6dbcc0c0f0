---------------------------- MODULE BenchProofs -----------------------------
(***************************************************************************)
(* Theorems about Bench.                                                   *)
(***************************************************************************)
EXTENDS Bench, ActuatorProofs

-----------------------------------------------------------------------------
(* The program *)

LEMMA PartCount == Len(Script) = 8 /\ Len(Cleanup) = 5
BY DEF Script, Cleanup

LEMMA Parts ==
  /\ part = 1 => Part = Opening
  /\ part = 2 => Part = Cycle
  /\ part = 3 => Part = VelocityRuns
  /\ part = 4 => Part = SaveRebootCycle
  /\ part = 5 => Part = TimeoutTest
  /\ part = 6 => Part = RestoreTimeout
  /\ part = 7 => Part = RestoreDirection
  /\ part = 8 => Part = Closing
  /\ part = 9 => Part = << <<"ramp">> >>
  /\ part = 10 => Part = << <<"clear">> >>
  /\ part = 11 => Part = Repair("timeout")
  /\ part = 12 => Part = Repair("inverted")
  /\ part = 13 => Part = << <<"mode", "DISABLED">> >>
BY PartCount DEF Part, InScript, Script, Cleanup

(* The value a repair of the clean-up puts back. *)
Repaired == IF part = 11 THEN "timeout" ELSE "inverted"

LEMMA OpeningLines ==
  part = 1 =>
    /\ Len(Part) = 7
    /\ step = 1 => Line[1] = "status"
    /\ step = 2 => Line[1] = "driver"
    /\ step = 3 => Line[1] = "clear_if_faulty"
    /\ step = 4 => Line[1] = "note" /\ Line[2] = "timeout"
    /\ step = 5 => Line[1] = "note" /\ Line[2] = "inverted"
    /\ step = 6 => Line[1] = "rate"
    /\ step = 7 => Line[1] = "mode" /\ Line[2] = "POSITION"
BY Parts DEF Line, Opening

LEMMA CycleLines ==
  part = 2 =>
    /\ Len(Part) = 7
    /\ step = 1 => Line[1] = "rate"
    /\ step = 2 => Line[1] = "stage" /\ Line[2] = "inverted" /\ Line[3] = "forward"
    /\ step = 3 => Line[1] = "apply"
    /\ step = 4 => Line[1] = "move"
    /\ step = 5 => Line[1] = "wait"
    /\ step = 6 => Line[1] = "move"
    /\ step = 7 => Line[1] = "wait"
BY Parts DEF Line, Cycle

LEMMA VelocityRunsLines ==
  part = 3 =>
    /\ Len(Part) = 7
    /\ step = 1 => Line[1] = "mode" /\ Line[2] = "VELOCITY"
    /\ step = 2 => Line[1] = "run"
    /\ step = 3 => Line[1] = "ramp"
    /\ step = 4 => Line[1] = "wait"
    /\ step = 5 => Line[1] = "run"
    /\ step = 6 => Line[1] = "ramp"
    /\ step = 7 => Line[1] = "wait"
BY Parts DEF Line, VelocityRuns

LEMMA SaveRebootCycleLines ==
  part = 4 =>
    /\ Len(Part) = 5
    /\ step = 1 => Line[1] = "stage" /\ Line[2] = "inverted" /\ Line[3] = "direction"
    /\ step = 2 => Line[1] = "apply"
    /\ step = 3 => Line[1] = "save"
    /\ step = 4 => Line[1] = "reboot"
    /\ step = 5 => Line[1] = "check" /\ Line[2] = "inverted" /\ Line[3] = "direction"
BY Parts DEF Line, SaveRebootCycle

LEMMA TimeoutTestLines ==
  part = 5 =>
    /\ Len(Part) = 12
    /\ step = 1 => Line[1] = "stage" /\ Line[2] = "timeout" /\ Line[3] = "test"
    /\ step = 2 => Line[1] = "apply"
    /\ step = 3 => Line[1] = "save"
    /\ step = 4 => Line[1] = "reboot"
    /\ step = 5 => Line[1] = "check" /\ Line[2] = "timeout" /\ Line[3] = "test"
    /\ step = 6 => Line[1] = "clear"
    /\ step = 7 => Line[1] = "mode" /\ Line[2] = "VELOCITY"
    /\ step = 8 => Line[1] = "run"
    /\ step = 9 => Line[1] = "timed_out"
    /\ step = 10 => Line[1] = "ramp"
    /\ step = 11 => Line[1] = "wait"
    /\ step = 12 => Line[1] = "clear"
BY Parts DEF Line, TimeoutTest

LEMMA RestoreTimeoutLines ==
  part = 6 =>
    /\ Len(Part) = 5
    /\ step = 1 => Line[1] = "stage" /\ Line[2] = "timeout" /\ Line[3] = "original"
    /\ step = 2 => Line[1] = "apply"
    /\ step = 3 => Line[1] = "save"
    /\ step = 4 => Line[1] = "reboot"
    /\ step = 5 => Line[1] = "check" /\ Line[2] = "timeout" /\ Line[3] = "original"
BY Parts DEF Line, RestoreTimeout

LEMMA RestoreDirectionLines ==
  part = 7 =>
    /\ Len(Part) = 6
    /\ step = 1 => Line[1] = "skip_if_restored" /\ Line[2] = "inverted"
    /\ step = 2 => Line[1] = "stage" /\ Line[2] = "inverted" /\ Line[3] = "original"
    /\ step = 3 => Line[1] = "apply"
    /\ step = 4 => Line[1] = "save"
    /\ step = 5 => Line[1] = "reboot"
    /\ step = 6 => Line[1] = "check" /\ Line[2] = "inverted" /\ Line[3] = "original"
BY Parts DEF Line, RestoreDirection

LEMMA ClosingLines ==
  part = 8 =>
    /\ Len(Part) = 4
    /\ step = 1 => Line[1] = "clear"
    /\ step = 2 => Line[1] = "mode" /\ Line[2] = "DISABLED"
    /\ step = 3 => Line[1] = "final_status"
    /\ step = 4 => Line[1] = "final_driver"
BY Parts DEF Line, Closing

LEMMA RepairLines ==
  part \in {11, 12} =>
    /\ Len(Part) = 4
    /\ step = 1 => Line[1] = "skip_if_restored" /\ Line[2] = Repaired
    /\ step = 2 => Line[1] = "stage" /\ Line[2] = Repaired /\ Line[3] = "original"
    /\ step = 3 => Line[1] = "apply"
    /\ step = 4 => Line[1] = "save"
BY Parts DEF Line, Repair, Repaired

LEMMA OtherCleanupLines ==
  /\ part \in {9, 10, 13} => Len(Part) = 1
  /\ part = 9 /\ step = 1 => Line[1] = "ramp"
  /\ part = 10 /\ step = 1 => Line[1] = "clear"
  /\ part = 13 /\ step = 1 => Line[1] = "mode" /\ Line[2] = "DISABLED"
BY Parts DEF Line

(* The program is at one of its lines, or at its end. *)
PlaceOK ==
  /\ part \in 1..14
  /\ step \in Nat \ {0}
  /\ part # 14 => step <= Len(Part)

-----------------------------------------------------------------------------
(* The inductive invariant *)

(* No other value is noted. *)
NotesOK == DOMAIN original \subseteq {"timeout", "inverted"}

(* In the script an edit is staged for as long as it takes to apply it. *)
AppliedNext == InScript /\ configStaged => Line[1] = "apply"

(* The clean-up stops the motor, then takes the state away from motion,     *)
(* then switches off.                                                       *)
Stopped == motion \in {"still", "stopping"}

StopsInOrder ==
  allAnswered =>
    /\ part > 9 => Stopped
    /\ part > 10 => state \notin MotionStates
    /\ part > 13 => ~outputs /\ controlMode = "DISABLED"

InRepair == part \in {11, 12}

Back(field) == field \in DOMAIN original => active[field] = original[field]

(* A repair that is under way has staged the one value it puts back, and    *)
(* the values whose repairs are over are in force.                          *)
RepairsInOrder ==
  ~InScript /\ allAnswered /\ ~excused =>
    /\ configStaged => InRepair /\ step = 3
    /\ InRepair /\ step > 1 => Repaired \in DOMAIN original
    /\ InRepair /\ step = 3 =>
         configStaged /\ staged = [active EXCEPT ![Repaired] = original[Repaired]]
    /\ InRepair /\ step > 3 => Back(Repaired)
    /\ part > 11 => Back("timeout")
    /\ part > 12 => Back("inverted")

AtRest ==
  motion = "still" /\ state \notin MotionStates /\ ~outputs /\ controlMode = "DISABLED"

(* From the last reboot on that the script insists on. *)
SinceReboot == (part = 6 /\ step = 5) \/ part \in {7, 8} \/ ok

RestsSinceReboot == SinceReboot => AtRest

(* Both values are noted before anything is changed. *)
Noted ==
  /\ part = 1 /\ step > 4 => "timeout" \in DOMAIN original
  /\ part = 1 /\ step > 5 => "inverted" \in DOMAIN original
  /\ part \in 2..8 \/ ok => {"timeout", "inverted"} \subseteq DOMAIN original

InFlash(field) == stored # NothingStored /\ stored.config[field] = active[field]

(* The timeout is in flash and in force from the save of its restoration    *)
(* on; the direction is, but while its own restoration has applied it and   *)
(* not saved it yet.                                                        *)
SavedInOrder ==
  /\ (part = 6 /\ step > 3) \/ part \in {7, 8} \/ ok => InFlash("timeout")
  /\ (part = 6 /\ step > 3) \/ (part = 7 /\ step # 4) \/ part = 8 \/ ok =>
       InFlash("inverted")
  /\ part \in {7, 8} \/ ok => active.timeout = original.timeout
  /\ part = 8 \/ ok => active.inverted = original.inverted
  /\ part = 7 /\ configStaged => staged.timeout = active.timeout

(* A bench that passed has nothing left to repair. *)
NothingToRepair ==
  ok => ~InScript /\ ~configStaged /\ (InRepair => step = 1)

(* All of it but the place and the types of the device, which come first.   *)
Promises ==
  /\ NotesOK
  /\ AppliedNext
  /\ StopsInOrder
  /\ RepairsInOrder
  /\ RestsSinceReboot
  /\ Noted
  /\ SavedInOrder
  /\ NothingToRepair

-----------------------------------------------------------------------------
(* What a step does to the place in the program. *)

LEMMA LastPart == Finished <=> part > 13
BY PartCount DEF Finished

LEMMA PartLengths ==
  ASSUME part \in 1..13
  PROVE  Len(Part) \in Nat \ {0}
<1>1. CASE part \in {1, 2, 3, 4}
  BY <1>1, OpeningLines, CycleLines, VelocityRunsLines, SaveRebootCycleLines
<1>2. CASE part \in {5, 6, 7, 8}
  BY <1>2, TimeoutTestLines, RestoreTimeoutLines, RestoreDirectionLines, ClosingLines
<1>3. CASE part \in {9, 10, 11, 12, 13}
  BY <1>3, RepairLines, OtherCleanupLines
<1> QED
  BY <1>1, <1>2, <1>3

LEMMA PlaceRanges ==
  ASSUME PlaceOK, ~Finished
  PROVE  part \in 1..13 /\ step \in 1..Len(Part) /\ Len(Part) \in Nat
<1>1. part \in 1..13
  BY LastPart DEF PlaceOK
<1>2. Len(Part) \in Nat
  BY <1>1, PartLengths
<1> QED
  BY <1>1, <1>2 DEF PlaceOK

(* The ways to go on. *)
LEMMA PlaceSteps ==
  ASSUME PlaceOK, RunsOn
  PROVE  \/ Stay
         \/ /\ ~Finished
            /\ \/ Exchange /\ Advance
               \/ Exchange /\ SkipIfRestored /\ LeavePart
               \/ Raised(TRUE) \/ Raised(FALSE)
<1>1. CASE Exchange
  <2>1. CASE Command
    BY <1>1, <2>1 DEF Exchange, Command
  <2>2. CASE Status \/ ClearIfFaulty \/ Note \/ RebootAndReopen \/ WaitIdle
    BY <1>1, <2>2 DEF Exchange, Status, ClearIfFaulty, Note, RebootAndReopen, WaitIdle
  <2>3. CASE DriverStatus \/ TimedOut \/ Check
    BY <1>1, <2>3 DEF Exchange, DriverStatus, TimedOut, Check, Judged
  <2>4. CASE SkipIfRestored
    BY <1>1, <2>4 DEF Exchange, SkipIfRestored
  <2> QED
    BY <1>1, <2>1, <2>2, <2>3, <2>4 DEF Exchange, Answered
<1>2. CASE Unanswered \/ ReopenFails \/ NotConnected
  BY <1>2 DEF Unanswered, ReopenFails, NotConnected
<1>3. CASE Meanwhile
  BY <1>3 DEF Meanwhile
<1> QED
  BY <1>1, <1>2, <1>3 DEF RunsOn

LEMMA PlaceKept ==
  ASSUME PlaceOK, RunsOn
  PROVE  PlaceOK'
<1> DEFINE Length(p) == Len(IF p <= Len(Script) THEN Script[p] ELSE Cleanup[p - Len(Script)])
<1>0. Len(Part) = Length(part) /\ Len(Part)' = Length(part')
  BY DEF Part, InScript
<1>1. CASE Stay
  BY <1>1 DEF Stay, PlaceOK, Part, InScript
<1>2. CASE ~Finished /\ step < Len(Part) /\ Advance
  <2>1. part' = part /\ step' = step + 1
    BY <1>2 DEF Advance
  <2>2. Len(Part)' = Len(Part)
    BY <2>1 DEF Part, InScript
  <2> QED
    BY <1>2, <2>1, <2>2, PlaceRanges DEF PlaceOK
<1>3. CASE ~Finished /\ part' \in {part + 1, 9} /\ step' = 1
  <2>1. part' \in 1..14
    BY <1>3, PlaceRanges
  <2>2. (part \in 1..13 => Len(Part) \in Nat \ {0})'
    BY PartLengths, PTL
  <2> QED
    BY <1>3, <2>1, <2>2 DEF PlaceOK
<1> QED
  BY <1>1, <1>2, <1>3, PlaceSteps, PartCount DEF Advance, LeavePart, Raised

-----------------------------------------------------------------------------
(* What the lines of the program say. *)

Kinds ==
  {"status", "driver", "clear_if_faulty", "note", "rate", "mode", "stage", "apply", "move",
   "wait", "run", "ramp", "save", "reboot", "check", "clear", "timed_out",
   "skip_if_restored", "final_status", "final_driver"}

(* Modes are modes, and whatever is staged is applied next. *)
LineFacts ==
  /\ Line[1] \in Kinds
  /\ Line[1] = "mode" => Line[2] \in {"POSITION", "VELOCITY", "DISABLED"}
  /\ Line[1] = "stage" =>
       /\ part \in {2, 4, 5, 6, 7, 11, 12}
       /\ step < Len(Part)
       /\ Line[2] \in {"timeout", "inverted"}
       /\ step = IF part \in {4, 5, 6} THEN 1 ELSE 2
  /\ Line[1] = "note" =>
       part = 1 /\ step \in {4, 5} /\ Line[2] = IF step = 4 THEN "timeout" ELSE "inverted"
  /\ Line[1] = "reboot" => part \in {4, 5, 6, 7}
  /\ Line[1] = "final_driver" => part = 8 /\ step = 4

LEMMA LinesAsMeant ==
  ASSUME PlaceOK, ~Finished
  PROVE  LineFacts
<1>1. CASE part = 1
  <2>1. step \in 1..7
    BY <1>1, PlaceRanges, OpeningLines
  <2> QED
    BY <1>1, <2>1, OpeningLines DEF LineFacts, Kinds
<1>2. CASE part = 2
  <2>1. step \in 1..7
    BY <1>2, PlaceRanges, CycleLines
  <2> QED
    BY <1>2, <2>1, CycleLines DEF LineFacts, Kinds
<1>3. CASE part = 3
  <2>1. step \in 1..7
    BY <1>3, PlaceRanges, VelocityRunsLines
  <2> QED
    BY <1>3, <2>1, VelocityRunsLines DEF LineFacts, Kinds
<1>4. CASE part = 4
  <2>1. step \in 1..5
    BY <1>4, PlaceRanges, SaveRebootCycleLines
  <2> QED
    BY <1>4, <2>1, SaveRebootCycleLines DEF LineFacts, Kinds
<1>5. CASE part = 5
  <2>1. step \in 1..12
    BY <1>5, PlaceRanges, TimeoutTestLines
  <2> QED
    BY <1>5, <2>1, TimeoutTestLines DEF LineFacts, Kinds
<1>6. CASE part = 6
  <2>1. step \in 1..5
    BY <1>6, PlaceRanges, RestoreTimeoutLines
  <2> QED
    BY <1>6, <2>1, RestoreTimeoutLines DEF LineFacts, Kinds
<1>7. CASE part = 7
  <2>1. step \in 1..6
    BY <1>7, PlaceRanges, RestoreDirectionLines
  <2>2. CASE step \in 1..3
    BY <1>7, <2>2, RestoreDirectionLines DEF LineFacts, Kinds
  <2>3. CASE step \in 4..6
    BY <1>7, <2>3, RestoreDirectionLines DEF LineFacts, Kinds
  <2> QED
    BY <2>1, <2>2, <2>3
<1>8. CASE part = 8
  <2>1. step \in 1..4
    BY <1>8, PlaceRanges, ClosingLines
  <2> QED
    BY <1>8, <2>1, ClosingLines DEF LineFacts, Kinds
<1>9. CASE part \in {11, 12}
  <2>1. step \in 1..4
    BY <1>9, PlaceRanges, RepairLines
  <2>2. CASE step \in 1..2
    BY <1>9, <2>2, RepairLines DEF LineFacts, Kinds, Repaired
  <2>3. CASE step \in 3..4
    BY <1>9, <2>3, RepairLines DEF LineFacts, Kinds
  <2> QED
    BY <2>1, <2>2, <2>3
<1>10. CASE part \in {9, 10, 13}
  <2>1. step \in 1..1
    BY <1>10, PlaceRanges, OtherCleanupLines
  <2> QED
    BY <1>10, <2>1, OtherCleanupLines DEF LineFacts, Kinds
<1> QED
  BY <1>1, <1>2, <1>3, <1>4, <1>5, <1>6, <1>7, <1>8, <1>9, <1>10, PlaceRanges

LEMMA StageThenApply ==
  ASSUME PlaceOK, ~Finished, Line[1] = "stage"
  PROVE  step < Len(Part) /\ Part[step + 1][1] = "apply"
<1>1. part \in 1..13 /\ LineFacts
  BY PlaceRanges, LinesAsMeant
<1>2. part \notin {1, 3, 8, 9, 10, 13}
  BY <1>1 DEF LineFacts
<1>3. CASE part = 2
  BY <1>1, <1>3, Parts DEF LineFacts, Cycle
<1>4. CASE part = 4
  BY <1>1, <1>4, Parts DEF LineFacts, SaveRebootCycle
<1>5. CASE part = 5
  BY <1>1, <1>5, Parts DEF LineFacts, TimeoutTest
<1>6. CASE part = 6
  BY <1>1, <1>6, Parts DEF LineFacts, RestoreTimeout
<1>7. CASE part = 7
  BY <1>1, <1>7, Parts DEF LineFacts, RestoreDirection
<1>8. CASE part \in {11, 12}
  BY <1>1, <1>8, Parts DEF LineFacts, Repair
<1> QED
  BY <1>1, <1>2, <1>3, <1>4, <1>5, <1>6, <1>7, <1>8

-----------------------------------------------------------------------------
(* The device in a step of the bench: it does nothing, or what a request    *)
(* asks for, or goes on by itself.                                          *)

LEMMA DeviceSteps ==
  ASSUME RunsOn
  PROVE  \/ Meanwhile
         \/ ~Finished /\ (UNCHANGED vars \/ Executed(Line))
<1>1. CASE Exchange
  <2>1. CASE Command
    BY <1>1, <2>1 DEF Exchange, Command, Executed
  <2>2. CASE Status
    BY <1>1, <2>2 DEF Exchange, Status, Executed, Acked
  <2>3. CASE DriverStatus
    BY <1>1, <2>3 DEF Exchange, DriverStatus, IsDriverQuery, Executed, Acked
  <2>4. CASE ClearIfFaulty
    BY <1>1, <2>4 DEF Exchange, ClearIfFaulty, Executed, Acked
  <2>5. CASE Note
    BY <1>1, <2>5 DEF Exchange, Note, Executed, Acked
  <2>6. CASE WaitIdle
    BY <1>1, <2>6 DEF Exchange, WaitIdle, Executed, Acked
  <2>7. CASE TimedOut
    BY <1>1, <2>7 DEF Exchange, TimedOut, Executed, Acked
  <2>8. CASE Check
    BY <1>1, <2>8 DEF Exchange, Check, Executed, Acked
  <2>9. CASE SkipIfRestored
    BY <1>1, <2>9 DEF Exchange, SkipIfRestored, Executed, Acked
  <2>10. CASE RebootAndReopen
    BY <1>1, <2>10 DEF Exchange, RebootAndReopen, Executed, Acked
  <2> QED
    BY <1>1, <2>1, <2>2, <2>3, <2>4, <2>5, <2>6, <2>7, <2>8, <2>9, <2>10 DEF Exchange, Answered
<1>2. CASE Unanswered
  BY <1>2 DEF Unanswered
<1>3. CASE ReopenFails
  BY <1>3 DEF ReopenFails, Executed, Acked
<1>4. CASE NotConnected
  BY <1>4 DEF NotConnected
<1> QED
  BY <1>1, <1>2, <1>3, <1>4 DEF RunsOn

(* What each request has the device do. *)
Ordered ==
  \/ /\ Line[1] = "stage"
     /\ StageField /\ staged' = [Candidate EXCEPT ![Line[2]] = Value(Line)]
  \/ Line[1] = "apply" /\ ApplyConfig
  \/ Line[1] = "save" /\ SaveConfig
  \/ Line[1] = "reboot" /\ Reboot
  \/ Line[1] \in {"clear", "clear_if_faulty"} /\ ClearFaults
  \/ Line[1] = "mode" /\ Line[2] = "DISABLED" /\ Disable
  \/ Line[1] = "mode" /\ Line[2] # "DISABLED" /\ (Enable(Line[2]) \/ EnableFails(Line[2]))
  \/ Line[1] = "move" /\ Move
  \/ Line[1] = "run" /\ RunVelocity
  \/ Line[1] = "ramp" /\ RampStop
  \/ Line[1] = "rate" /\ SetTelemRate(TestInterval)
  \/ IsDriverQuery(Line) /\ DriverUartFails
  \/ AnswerOnly

LEMMA Orders ==
  ASSUME Line[1] \in Kinds, Executed(Line)
  PROVE  Ordered
<1>1. CASE Acked(Line)
  <2>1. CASE Line[1] = "stage"
    BY <1>1, <2>1 DEF Acked, Ordered
  <2>2. CASE Line[1] = "apply"
    BY <1>1, <2>2 DEF Acked, Ordered
  <2>3. CASE Line[1] = "save"
    BY <1>1, <2>3 DEF Acked, Ordered
  <2>4. CASE Line[1] = "reboot"
    BY <1>1, <2>4 DEF Acked, Ordered
  <2>5. CASE Line[1] = "mode"
    BY <1>1, <2>5 DEF Acked, Ordered
  <2>6. CASE Line[1] = "move"
    BY <1>1, <2>6 DEF Acked, Ordered
  <2>7. CASE Line[1] = "run"
    BY <1>1, <2>7 DEF Acked, Ordered
  <2>8. CASE Line[1] = "ramp"
    BY <1>1, <2>8 DEF Acked, Ordered
  <2>9. CASE Line[1] = "rate"
    BY <1>1, <2>9 DEF Acked, Ordered
  <2>10. CASE Line[1] \in {"clear", "clear_if_faulty"}
    BY <1>1, <2>10 DEF Acked, Ordered
  <2>11. CASE Line[1] \in {"status", "driver", "note", "wait", "check", "timed_out",
                          "skip_if_restored", "final_status", "final_driver"}
    BY <1>1, <2>11 DEF Acked, Ordered
  <2> QED
    BY <2>1, <2>2, <2>3, <2>4, <2>5, <2>6, <2>7, <2>8, <2>9, <2>10, <2>11 DEF Kinds
<1>2. CASE Refused(Line)
  <2>1. CASE Line[1] = "apply"
    BY <1>2, <2>1 DEF Refused, Ordered
  <2>2. CASE Line[1] = "save"
    BY <1>2, <2>2 DEF Refused, Ordered
  <2>3. CASE Line[1] = "mode"
    BY <1>2, <2>3 DEF Refused, Ordered, EnableFails
  <2>4. CASE Line[1] = "move"
    BY <1>2, <2>4 DEF Refused, Ordered
  <2>5. CASE Line[1] = "run"
    BY <1>2, <2>5 DEF Refused, Ordered
  <2> QED
    BY <1>2, <2>1, <2>2, <2>3, <2>4, <2>5 DEF Refused
<1>3. CASE IsDriverQuery(Line) /\ DriverUartFails
  BY <1>3 DEF Ordered
<1> QED
  BY <1>1, <1>2, <1>3 DEF Executed

LEMMA OrderIsStep ==
  ASSUME PlaceOK, ~Finished, Ordered
  PROVE  Next
<1>1. Line[2] \in ControlModes \/ Line[1] # "mode"
  BY LinesAsMeant DEF LineFacts, ControlModes
<1>2. CASE StageField \/ ApplyConfig \/ SaveConfig
  BY <1>2 DEF Next, ConfigCommand
<1>3. CASE SetTelemRate(TestInterval)
  BY <1>3, BenchAssumption DEF Next, ConfigCommand
<1>4. CASE Reboot \/ AnswerOnly
  BY <1>4 DEF Next
<1>5. CASE ClearFaults \/ Disable \/ DriverUartFails
  BY <1>5 DEF Next, ModeCommand
<1>6. CASE Line[1] = "mode" /\ (Enable(Line[2]) \/ EnableFails(Line[2]))
  BY <1>1, <1>6 DEF Next, ModeCommand
<1>7. CASE Move \/ RunVelocity \/ RampStop
  BY <1>7 DEF Next, MotionCommand
<1> QED
  BY <1>2, <1>3, <1>4, <1>5, <1>6, <1>7 DEF Ordered

LEMMA BenchStepIsStep ==
  ASSUME PlaceOK, RunsOn
  PROVE  [Next]_vars
<1>1. CASE Meanwhile
  BY <1>1 DEF Meanwhile, Next
<1>2. CASE ~Finished /\ Executed(Line)
  BY <1>2, LinesAsMeant, Orders, OrderIsStep DEF LineFacts
<1> QED
  BY <1>1, <1>2, DeviceSteps

(* The device under the bench is the device of Actuator, and what is proved *)
(* of that holds here.                                                      *)
THEOREM BenchDrivesTheDevice == BenchSpec => Spec /\ []PlaceOK
<1>1. BenchInit => Init /\ PlaceOK
  <2> SUFFICES ASSUME BenchInit PROVE Init /\ PlaceOK
    OBVIOUS
  <2>1. Init /\ part = 1 /\ step = 1
    BY DEF BenchInit
  <2>2. step <= Len(Part)
    BY <2>1, OpeningLines
  <2> QED
    BY <2>1, <2>2 DEF PlaceOK
<1>2. PlaceOK /\ [BenchNext]_<<vars, benchVars>> => PlaceOK' /\ [Next]_vars
  <2>1. ASSUME PlaceOK, RunsOn PROVE PlaceOK' /\ [Next]_vars
    BY <2>1, PlaceKept, BenchStepIsStep
  <2>2. ASSUME PlaceOK, ResetsItself PROVE PlaceOK' /\ [Next]_vars
    BY <2>2 DEF ResetsItself, PlaceOK, Part, InScript, Next
  <2>3. ASSUME PlaceOK, UNCHANGED <<vars, benchVars>> PROVE PlaceOK' /\ UNCHANGED vars
    BY <2>3 DEF PlaceOK, benchVars, Part, InScript
  <2> QED
    BY <2>1, <2>2, <2>3 DEF BenchNext
<1> QED
  BY <1>1, <1>2, PTL DEF BenchSpec, Spec

-----------------------------------------------------------------------------
(* The invariant is inductive, part by part. *)

LEMMA ScriptEnd == InScript <=> part <= 8
BY PartCount DEF InScript

(* The program is left line by line or by an exception. *)
LEMMA PlaceMoves ==
  ASSUME PlaceOK, RunsOn
  PROVE  \/ part' = part /\ step' = step
         \/ /\ ~Finished /\ Exchange
            /\ part' = part /\ step < Len(Part) /\ step' = step + 1
         \/ /\ ~Finished /\ part' = part + 1 /\ step' = 1
            /\ part < 8 => Exchange /\ (step = Len(Part) \/ SkipIfRestored)
         \/ ~Finished /\ InScript /\ part' = 9 /\ step' = 1
<1>1. CASE Stay
  BY <1>1 DEF Stay
<1>2. CASE ~Finished /\ Exchange /\ Advance
  BY <1>2, PlaceRanges DEF Advance, LeavePart
<1>3. CASE ~Finished /\ Exchange /\ SkipIfRestored /\ LeavePart
  BY <1>3 DEF LeavePart
<1>4. CASE ~Finished /\ (Raised(TRUE) \/ Raised(FALSE))
  BY <1>4, PartCount, PlaceRanges, ScriptEnd DEF Raised
<1> QED
  BY <1>1, <1>2, <1>3, <1>4, PlaceSteps

(* Nothing but CONFIG_STAGE_FIELD stages. *)
LEMMA StagingSteps ==
  ASSUME Ordered, Line[1] # "stage"
  PROVE  configStaged' = configStaged \/ configStaged' = FALSE
BY DEF Ordered, ApplyConfig, SaveConfig, Reboot, ClearFaults, Disable, Enable, EnableFails,
       Move, RunVelocity, RampStop, SetTelemRate, DriverUartFails, AnswerOnly, configVars

(* Between the requests nothing happens to the configurations, and a device *)
(* out of motion stays so.                                                  *)
LEMMA MeanwhileKeeps ==
  ASSUME Meanwhile
  PROVE  /\ UNCHANGED <<active, staged, configStaged, generation, stored>>
         /\ UNCHANGED <<part, step, excused, allAnswered, original, ok>>
         /\ Stopped => Stopped'
         /\ motion = "still" => motion' = "still"
         /\ state \notin MotionStates =>
              state' \notin MotionStates /\ UNCHANGED <<outputs, controlMode>>
<1>1. UNCHANGED <<part, step, excused, allAnswered, original, ok>>
  BY DEF Meanwhile, Stay
<1>2. CASE Update
  <2>1. UNCHANGED <<active, staged, configStaged, generation, stored>>
    BY <1>2 DEF Update, MotionFinished, HostTimeoutRamp, HostTimeoutDisable, configVars, storage
  <2>2. motion' = motion \/ motion' = "still" \/ (motion # "still" /\ motion' = "stopping")
    BY <1>2 DEF Update, MotionFinished, HostTimeoutRamp, HostTimeoutDisable, plant, Slowed
  <2>3. state \in MotionStates
    BY <1>2 DEF Update, MotionFinished, HostTimeoutRamp, HostTimeoutDisable, HostSilent,
                MotionStates
  <2> QED
    BY <1>1, <2>1, <2>2, <2>3 DEF Stopped
<1>3. CASE MotionEnds \/ Tick
  BY <1>1, <1>3 DEF MotionEnds, Tick, configVars, plant, Stopped, storage
<1>4. ASSUME NEW error \in FrameErrors, RecordFrameError(error)
      PROVE  /\ UNCHANGED <<active, staged, configStaged, generation, stored, motion,
                            outputs, controlMode>>
             /\ state' \in {state, "FAULTED"}
  BY <1>4 DEF RecordFrameError, Raise, Transition, configVars, plant, storage
<1> QED
  BY <1>1, <1>2, <1>3, <1>4 DEF Meanwhile, Stopped, MotionStates

LEMMA Commands ==
  ASSUME Exchange, Line[1] \notin Reading
  PROVE  Command
BY DEF Exchange, Answered, Reading, Status, DriverStatus, IsDriverQuery, ClearIfFaulty, Note,
       WaitIdle, TimedOut, Check, SkipIfRestored, RebootAndReopen

LEMMA RaisedLeaves ==
  ASSUME NEW answered, Raised(answered), part \in Nat
  PROVE  ~InScript'
BY PartCount DEF Raised, InScript

LEMMA AppliedNextKept ==
  ASSUME TypeOK, PlaceOK, AppliedNext, RunsOn
  PROVE  AppliedNext'
<1> SUFFICES ASSUME InScript', configStaged' PROVE Line'[1] = "apply"
  BY DEF AppliedNext
<1>0. ~Raised(TRUE) /\ ~Raised(FALSE)
  <2>1. part \in Nat
    BY DEF PlaceOK
  <2> QED
    BY <2>1, RaisedLeaves
<1>1. InScript
  BY PlaceMoves, PartCount DEF InScript, PlaceOK
<1>2. CASE Meanwhile
  <2>1. UNCHANGED <<part, step, configStaged>>
    BY <1>2, MeanwhileKeeps
  <2> QED
    BY <1>1, <2>1 DEF AppliedNext, Line, Part, InScript
<1>3. ASSUME Exchange, Line[1] = "stage"
      PROVE  Line'[1] = "apply"
  <2>1. ~Finished /\ Advance
    BY <1>0, <1>3, Commands DEF Exchange, Command, Refused, Reading
  <2>2. step < Len(Part) /\ Part[step + 1][1] = "apply"
    BY <1>3, <2>1, StageThenApply
  <2>3. part' = part /\ step' = step + 1
    BY <2>1, <2>2 DEF Advance
  <2> QED
    BY <2>2, <2>3 DEF Line, Part, InScript
<1>4. ASSUME Exchange, Line[1] = "apply"
      PROVE  FALSE
  <2>1. Acked(Line)
    BY <1>0, <1>4, Commands DEF Command, Reading
  <2>2. ApplyConfig \/ (~configStaged /\ AnswerOnly)
    BY <1>4, <2>1 DEF Acked
  <2> QED
    BY <2>2 DEF ApplyConfig, AnswerOnly, configVars
<1>5. ASSUME Exchange, Line[1] \notin {"stage", "apply"}
      PROVE  FALSE
  <2>1. ~configStaged
    BY <1>1, <1>5 DEF AppliedNext
  <2>2. Meanwhile \/ UNCHANGED vars \/ Ordered
    BY DeviceSteps, LinesAsMeant, Orders DEF LineFacts
  <2> QED
    BY <1>5, <2>1, <2>2, StagingSteps, MeanwhileKeeps DEF vars, configVars
<1>6. ~(Unanswered \/ ReopenFails \/ NotConnected)
  BY <1>0 DEF Unanswered, ReopenFails, NotConnected
<1> QED
  BY <1>2, <1>3, <1>4, <1>5, <1>6 DEF RunsOn

(* Values are noted at the start, at two lines. *)
LEMMA NoteSteps ==
  ASSUME PlaceOK, RunsOn
  PROVE  \/ original' = original
         \/ /\ part = 1 /\ step \in {4, 5} /\ Exchange /\ Note
            /\ DOMAIN original' =
                 DOMAIN original \cup {IF step = 4 THEN "timeout" ELSE "inverted"}
<1>1. CASE Exchange
  <2>1. CASE Note
    <3>1. ~Finished /\ Line[1] = "note"
      BY <1>1, <2>1 DEF Exchange, Note
    <3>2. /\ part = 1 /\ step \in {4, 5}
          /\ Line[2] = IF step = 4 THEN "timeout" ELSE "inverted"
      BY <3>1, LinesAsMeant DEF LineFacts
    <3>3. DOMAIN original' = DOMAIN original \cup {Line[2]}
      BY <2>1 DEF Note
    <3> QED
      BY <1>1, <2>1, <3>2, <3>3
  <2> QED
    BY <1>1, <2>1 DEF Exchange, Answered, Command, Status, DriverStatus, ClearIfFaulty,
       WaitIdle, TimedOut, Check, SkipIfRestored, RebootAndReopen
<1> QED
  BY <1>1 DEF RunsOn, Unanswered, ReopenFails, NotConnected, Meanwhile

LEMMA NotesKept ==
  ASSUME PlaceOK, NotesOK, RunsOn
  PROVE  NotesOK'
BY NoteSteps DEF NotesOK

(* The verdict falls at the last line of the script, and only after that    *)
(* line was got over.                                                       *)
LEMMA VerdictSteps ==
  ASSUME PlaceOK, RunsOn, ok'
  PROVE  \/ ok
         \/ /\ part = 8 /\ step = 4 /\ part' = 9 /\ step' = 1
            /\ ~Finished /\ Line[1] = "final_driver"
            /\ AnswerOnly \/ DriverUartFails
            /\ original' = original
<1>1. CASE Exchange /\ DriverStatus
  <2>1. CASE Line[1] = "driver"
    BY <1>1, <2>1 DEF DriverStatus
  <2>2. CASE Line[1] = "final_driver"
    <3>1. ~Finished
      BY <1>1 DEF Exchange
    <3>2. part = 8 /\ step = 4
      BY <2>2, <3>1, LinesAsMeant DEF LineFacts
    <3>3. Len(Part) = 4
      BY <3>2, ClosingLines
    <3>4. Advance /\ (AnswerOnly \/ DriverUartFails) /\ original' = original
      BY <1>1, <2>2 DEF DriverStatus, Judged
    <3> QED
      BY <2>2, <3>1, <3>2, <3>3, <3>4 DEF Advance, LeavePart
  <2> QED
    BY <1>1, <2>1, <2>2 DEF DriverStatus, IsDriverQuery
<1>2. CASE Exchange /\ ~DriverStatus
  BY <1>2 DEF Exchange, Answered, Command, Status, ClearIfFaulty, Note,
     WaitIdle, TimedOut, Check, SkipIfRestored, RebootAndReopen
<1> QED
  BY <1>1, <1>2 DEF RunsOn, Unanswered, ReopenFails, NotConnected, Meanwhile

LEMMA NotedKept ==
  ASSUME PlaceOK, Noted, RunsOn
  PROVE  Noted'
<1>1. DOMAIN original \subseteq DOMAIN original'
  BY NoteSteps
<1>2. ok' => {"timeout", "inverted"} \subseteq DOMAIN original'
  BY <1>1, VerdictSteps DEF Noted
<1>3. CASE part' = part /\ step' = step
  BY <1>1, <1>2, <1>3 DEF Noted
<1>4. CASE /\ ~Finished /\ Exchange
           /\ part' = part /\ step < Len(Part) /\ step' = step + 1
  <2>1. ASSUME part = 1, step \in {4, 5}
        PROVE  (IF step = 4 THEN "timeout" ELSE "inverted") \in DOMAIN original'
    <3>1. Line[1] = "note" /\ Line[2] = IF step = 4 THEN "timeout" ELSE "inverted"
      BY <2>1, OpeningLines
    <3>2. Note
      BY <1>4, <3>1 DEF Exchange, Answered, Command, Reading, Status, DriverStatus,
         IsDriverQuery, ClearIfFaulty, WaitIdle, TimedOut, Check, SkipIfRestored,
         RebootAndReopen
    <3> QED
      BY <3>1, <3>2 DEF Note
  <2>2. part \in 1..13 /\ step \in Nat \ {0}
    BY <1>4, PlaceRanges
  <2>3. part' = 1 /\ step' > 4 => "timeout" \in DOMAIN original'
    BY <1>1, <1>4, <2>1, <2>2 DEF Noted
  <2>4. part' = 1 /\ step' > 5 => "inverted" \in DOMAIN original'
    BY <1>1, <1>4, <2>1, <2>2 DEF Noted
  <2> QED
    BY <1>1, <1>2, <1>4, <2>3, <2>4 DEF Noted
<1>5. CASE /\ ~Finished /\ part' = part + 1 /\ step' = 1
           /\ part < 8 => Exchange /\ (step = Len(Part) \/ SkipIfRestored)
  <2>1. part \in 1..13 /\ step \in Nat
    BY <1>5, PlaceRanges
  <2>2. ASSUME part = 1
        PROVE  step > 5
    <3>1. step \in 1..7 /\ Len(Part) = 7
      BY <1>5, <2>2, PlaceRanges, OpeningLines
    <3>2. Line[1] # "skip_if_restored"
      BY <2>2, <3>1, OpeningLines
    <3> QED
      BY <1>5, <2>2, <3>1, <3>2 DEF SkipIfRestored
  <2>3. {"timeout", "inverted"} \subseteq DOMAIN original \/ part > 8
    BY <2>1, <2>2 DEF Noted
  <2> QED
    BY <1>1, <1>2, <1>5, <2>1, <2>3 DEF Noted
<1>6. CASE part' = 9
  BY <1>2, <1>6 DEF Noted
<1> QED
  BY <1>3, <1>4, <1>5, <1>6, PlaceMoves

(* Requests that start no motor and leave a driver that is off alone. *)
QuietLine ==
  \/ Line[1] \in {"ramp", "clear", "skip_if_restored", "stage", "apply", "save", "reboot",
                  "check", "final_status", "final_driver"}
  \/ Line[1] = "mode" /\ Line[2] = "DISABLED"

LEMMA QuietLines ==
  ASSUME PlaceOK, ~Finished, (part = 6 /\ step = 5) \/ part \in 7..13
  PROVE  QuietLine
<1>1. CASE part = 6 /\ step = 5
  BY <1>1, RestoreTimeoutLines DEF QuietLine
<1>2. CASE part = 7
  <2>1. step \in 1..6
    BY <1>2, PlaceRanges, RestoreDirectionLines
  <2> QED
    BY <1>2, <2>1, RestoreDirectionLines DEF QuietLine
<1>3. CASE part = 8
  <2>1. step \in 1..4
    BY <1>3, PlaceRanges, ClosingLines
  <2> QED
    BY <1>3, <2>1, ClosingLines DEF QuietLine
<1>4. CASE part \in {11, 12}
  <2>1. step \in 1..4
    BY <1>4, PlaceRanges, RepairLines
  <2> QED
    BY <1>4, <2>1, RepairLines DEF QuietLine
<1>5. CASE part \in {9, 10, 13}
  <2>1. step \in 1..1
    BY <1>5, PlaceRanges, OtherCleanupLines
  <2> QED
    BY <1>5, <2>1, OtherCleanupLines DEF QuietLine
<1> QED
  BY <1>1, <1>2, <1>3, <1>4, <1>5

LEMMA QuietOrders ==
  ASSUME AtRest, QuietLine, Ordered
  PROVE  AtRest'
<1>1. CASE StageField
  BY <1>1 DEF AtRest, StageField, InMotionState, Transition, plant, MotionStates
<1>2. CASE ApplyConfig
  BY <1>2 DEF AtRest, ApplyConfig, Transition, SettledState, MotionStates
<1>3. CASE SaveConfig
  BY <1>3 DEF AtRest, SaveConfig, Raise, Transition, plant, MotionStates
<1>4. CASE Reboot
  BY <1>4 DEF AtRest, Reboot, BootState, MotionStates
<1>5. CASE ClearFaults
  BY <1>5 DEF AtRest, ClearFaults, Transition, SettledState, plant, MotionStates
<1>6. CASE Disable
  BY <1>6 DEF AtRest, Disable, Transition, MotionStates
<1>7. CASE RampStop
  BY <1>7 DEF AtRest, RampStop, InMotionState
<1>8. CASE DriverUartFails
  BY <1>8 DEF AtRest, DriverUartFails, Raise, Transition, plant, MotionStates
<1>9. CASE AnswerOnly
  BY <1>9 DEF AtRest, AnswerOnly, plant
<1> QED
  BY <1>1, <1>2, <1>3, <1>4, <1>5, <1>6, <1>7, <1>8, <1>9 DEF Ordered, QuietLine

LEMMA RestKept ==
  ASSUME PlaceOK, NothingToRepair, RestsSinceReboot, RunsOn
  PROVE  RestsSinceReboot'
<1> SUFFICES ASSUME SinceReboot' PROVE AtRest'
  BY DEF RestsSinceReboot, SinceReboot
<1>1. CASE Meanwhile
  <2>1. SinceReboot
    BY <1>1, MeanwhileKeeps DEF SinceReboot
  <2> QED
    BY <1>1, <2>1, MeanwhileKeeps DEF RestsSinceReboot, SinceReboot, AtRest
<1>2. CASE ~Finished /\ SinceReboot
  <2>1. AtRest
    BY <1>2 DEF RestsSinceReboot, SinceReboot
  <2>2. (part = 6 /\ step = 5) \/ part \in 7..13
    BY <1>2, PlaceRanges, ScriptEnd DEF SinceReboot, NothingToRepair
  <2>3. QuietLine
    BY <1>2, <2>2, QuietLines
  <2>4. CASE UNCHANGED vars
    BY <2>1, <2>4 DEF AtRest, vars, plant
  <2>5. CASE Ordered
    BY <2>1, <2>3, <2>5, QuietOrders
  <2> QED
    BY <1>1, <2>4, <2>5, DeviceSteps, LinesAsMeant, Orders DEF LineFacts
<1>3. CASE ~Finished /\ ~SinceReboot
  <2>1. Exchange /\ part = 6 /\ step = 4
    <3>1. part' \in {7, 8} => part = 6 /\ step = 5
      <4>1. CASE part = 6
        <5>1. step \in 1..5 /\ Len(Part) = 5
          BY <1>3, <4>1, PlaceRanges, RestoreTimeoutLines
        <5>2. Line[1] # "skip_if_restored"
          BY <4>1, <5>1, RestoreTimeoutLines
        <5> QED
          BY <1>3, <4>1, <5>1, <5>2, PlaceMoves DEF SkipIfRestored
      <4> QED
        BY <1>3, <4>1, PlaceMoves, PlaceRanges DEF SinceReboot
    <3>2. ~ok'
      BY <1>3, VerdictSteps DEF SinceReboot
    <3> QED
      BY <1>3, <3>1, <3>2, PlaceMoves, PlaceRanges DEF SinceReboot
  <2>2. Line[1] = "reboot"
    BY <2>1, RestoreTimeoutLines
  <2>3. Reboot
    BY <2>1, <2>2 DEF Exchange, Answered, Command, Reading, Status, DriverStatus,
       IsDriverQuery, ClearIfFaulty, Note, WaitIdle, TimedOut, Check, SkipIfRestored,
       RebootAndReopen
  <2> QED
    BY <2>3 DEF AtRest, Reboot, BootState, MotionStates
<1> QED
  BY <1>1, <1>2, <1>3, DeviceSteps

LEMMA Readings ==
  ASSUME Exchange
  PROVE  /\ Line[1] = "check" => Check
         /\ Line[1] = "skip_if_restored" => SkipIfRestored
         /\ Line[1] = "reboot" => RebootAndReopen
         /\ Line[1] = "note" => Note
BY DEF Exchange, Answered, Command, Reading, Status, DriverStatus, IsDriverQuery,
       ClearIfFaulty, Note, WaitIdle, TimedOut, Check, SkipIfRestored, RebootAndReopen

LEMMA Acknowledged ==
  ASSUME Exchange, ~Raised(TRUE), Line[1] \notin Reading
  PROVE  Acked(Line)
BY Commands DEF Command

LEMMA SaveEffect ==
  ASSUME TypeOK, SaveConfig, generation' # generation
  PROVE  /\ stored' # NothingStored /\ stored'.config = active
         /\ UNCHANGED <<active, staged, configStaged>>
<1>1. stored' = [config |-> active,
                 generation |-> IF stored = NothingStored THEN 1 ELSE stored.generation + 1]
  BY DEF SaveConfig, Stores, NewRecord
<1>2. stored' \in [config : ValidConfigs, generation : Nat]
  BY <1>1 DEF TypeOK
<1> QED
  BY <1>1, <1>2, ConfigsAssumption DEF SaveConfig

LEMMA RebootEffect ==
  ASSUME TypeOK, Reboot, stored # NothingStored
  PROVE  active' = stored.config /\ stored' = stored /\ configStaged' = FALSE
BY BootTypes DEF Reboot, BootConfig, storage

(* Requests that leave the configurations alone. *)
LEMMA ConfigKept ==
  ASSUME Ordered,
         Line[1] \in {"ramp", "clear", "skip_if_restored", "check", "mode", "final_status",
                      "final_driver"}
  PROVE  UNCHANGED <<active, staged, configStaged, stored>>
BY DEF Ordered, RampStop, ClearFaults, Disable, Enable, EnableFails, DriverUartFails,
       AnswerOnly, configVars, storage

(* A part of the script is left to the next one from its last line, or from *)
(* its first when there is nothing to restore.                              *)
LEMMA ScriptMoves ==
  ASSUME PlaceOK, RunsOn, part' <= 8, ~Meanwhile
  PROVE  /\ Exchange /\ ~Raised(TRUE) /\ ~Finished
         /\ part \in 1..8 /\ step \in 1..Len(Part)
         /\ \/ part' = part /\ step' = step
            \/ part' = part /\ step' = step + 1
            \/ part' = part + 1 /\ step' = 1 /\ (step = Len(Part) \/ SkipIfRestored)
<1>1. part \in Nat
  BY DEF PlaceOK
<1>2. ~Raised(TRUE) /\ ~Raised(FALSE)
  BY <1>1, RaisedLeaves, PartCount DEF InScript
<1>3. Exchange /\ ~Finished
  BY <1>2 DEF RunsOn, Unanswered, ReopenFails, NotConnected, Exchange
<1>4. part \in 1..13 /\ step \in 1..Len(Part)
  BY <1>3, PlaceRanges
<1>5. \/ part' = part /\ step' = step
      \/ part' = part /\ step' = step + 1
      \/ part' = part + 1 /\ step' = 1 /\ (step = Len(Part) \/ SkipIfRestored)
  BY <1>4, PlaceMoves
<1>6. part \in 1..8
  BY <1>4, <1>5
<1> QED
  BY <1>2, <1>3, <1>4, <1>5, <1>6

LEMMA OrderedOrNot ==
  ASSUME PlaceOK, RunsOn, ~Meanwhile
  PROVE  ~Finished /\ (UNCHANGED vars \/ Ordered)
BY DeviceSteps, LinesAsMeant, Orders DEF LineFacts

(* The restoration of the timeout, from its save on. *)
LEMMA SavedInPart6 ==
  ASSUME TypeOK, PlaceOK, AppliedNext, SavedInOrder, RunsOn, ~Meanwhile,
         part = 6, part' <= 8, ~ok'
  PROVE  SavedInOrder'
<1>1. /\ Exchange /\ ~Raised(TRUE) /\ ~Finished
      /\ step \in 1..5 /\ Len(Part) = 5
      /\ \/ part' = 6 /\ step' = step
         \/ part' = 6 /\ step' = step + 1
         \/ part' = 7 /\ step' = 1 /\ step = 5
  <2>1. /\ Exchange /\ ~Raised(TRUE) /\ ~Finished
        /\ step \in 1..5 /\ Len(Part) = 5
    BY ScriptMoves, RestoreTimeoutLines
  <2>2. ~SkipIfRestored
    BY <2>1, RestoreTimeoutLines DEF SkipIfRestored
  <2>3. \/ part' = part /\ step' = step
        \/ part' = part /\ step' = step + 1
        \/ part' = part + 1 /\ step' = 1 /\ step = Len(Part)
    BY <2>2, ScriptMoves
  <2>4. step \in 1..5 /\ Len(Part) = 5
    BY <2>1
  <2>5. \/ part' = 6 /\ step' = step
        \/ part' = 6 /\ step' = step + 1
        \/ part' = 7 /\ step' = 1 /\ step = 5
    BY <2>3, <2>4
  <2> QED
    BY <2>1, <2>5
<1>2. original' = original
  BY NoteSteps
<1>3. CASE step \in {1, 2} \/ (step = 3 /\ step' = 3)
  BY <1>1, <1>3 DEF SavedInOrder
<1>4. CASE step = 3 /\ step' = 4
  <2>1. Line[1] = "save"
    BY <1>4, RestoreTimeoutLines
  <2>2. SaveConfig /\ generation' # generation
    BY <1>1, <2>1, Acknowledged DEF Acked, Reading
  <2> QED
    BY <1>1, <1>4, <2>2, SaveEffect DEF SavedInOrder, InFlash
<1>5. CASE step = 4
  <2>1. Reboot
    BY <1>1, <1>5, RestoreTimeoutLines, Readings DEF RebootAndReopen
  <2> QED
    BY <1>1, <1>5, <2>1, RebootEffect DEF SavedInOrder, InFlash
<1>6. CASE step = 5
  <2>1. /\ AnswerOnly /\ active.timeout = Value(Line)
        /\ Line[2] = "timeout" /\ Line[3] = "original"
    BY <1>1, <1>6, RestoreTimeoutLines, Readings DEF Check, Judged
  <2>2. active.timeout = original.timeout
    BY <2>1 DEF Value
  <2>3. ~configStaged
    BY <1>6, RestoreTimeoutLines, ScriptEnd DEF AppliedNext
  <2>4. UNCHANGED <<active, stored, configStaged>>
    BY <2>1 DEF AnswerOnly, configVars, storage
  <2> QED
    BY <1>1, <1>2, <1>6, <2>2, <2>3, <2>4 DEF SavedInOrder, InFlash
<1> QED
  BY <1>1, <1>3, <1>4, <1>5, <1>6

(* The restoration of the direction. *)
LEMMA SavedInPart7 ==
  ASSUME TypeOK, PlaceOK, AppliedNext, Noted, SavedInOrder, RunsOn, ~Meanwhile,
         part = 7, part' <= 8, ~ok'
  PROVE  SavedInOrder'
<1>1. /\ Exchange /\ ~Raised(TRUE) /\ ~Finished
      /\ step \in 1..6 /\ Len(Part) = 6
      /\ \/ part' = 7 /\ step' = step
         \/ part' = 7 /\ step' = step + 1
         \/ part' = 8 /\ step' = 1 /\ step \in {1, 6}
  <2>1. /\ Exchange /\ ~Raised(TRUE) /\ ~Finished
        /\ step \in 1..6 /\ Len(Part) = 6
    BY ScriptMoves, RestoreDirectionLines
  <2>2. SkipIfRestored => step = 1
    BY <2>1, RestoreDirectionLines DEF SkipIfRestored
  <2>3. \/ part' = part /\ step' = step
        \/ part' = part /\ step' = step + 1
        \/ part' = part + 1 /\ step' = 1 /\ (step = Len(Part) \/ step = 1)
    BY <2>2, ScriptMoves
  <2>4. step \in 1..6 /\ Len(Part) = 6
    BY <2>1
  <2>5. \/ part' = 7 /\ step' = step
        \/ part' = 7 /\ step' = step + 1
        \/ part' = 8 /\ step' = 1 /\ step \in {1, 6}
    BY <2>3, <2>4
  <2> QED
    BY <2>1, <2>5
<1>2. original' = original
  BY NoteSteps
<1>3. /\ InFlash("timeout") /\ active.timeout = original.timeout
      /\ step # 4 => InFlash("inverted")
      /\ configStaged => staged.timeout = active.timeout
  BY DEF SavedInOrder
<1>4. step # 3 => ~configStaged
  BY <1>1, RestoreDirectionLines, ScriptEnd DEF AppliedNext
<1>5. CASE step = 1
  <2>1. SkipIfRestored /\ Line[2] = "inverted"
    BY <1>1, <1>5, RestoreDirectionLines, Readings
  <2>2. "inverted" \in DOMAIN original
    BY DEF Noted
  <2>3. AnswerOnly /\ (active.inverted = original.inverted \/ Advance)
    BY <2>1, <2>2 DEF SkipIfRestored
  <2>4. UNCHANGED <<active, stored, configStaged>>
    BY <2>3 DEF AnswerOnly, configVars, storage
  <2>5. part' = 8 => active.inverted = original.inverted
    BY <1>1, <1>5, <2>3 DEF Advance
  <2> QED
    BY <1>1, <1>2, <1>3, <1>4, <1>5, <2>4, <2>5 DEF SavedInOrder, InFlash
<1>6. CASE step = 2
  <2>1. /\ Line[1] = "stage" /\ Line[2] = "inverted"
    BY <1>6, RestoreDirectionLines
  <2>2. StageField /\ staged' = [active EXCEPT !["inverted"] = Value(Line)]
    BY <1>1, <1>4, <1>6, <2>1, Acknowledged DEF Acked, Reading, Candidate
  <2>3. UNCHANGED <<active, stored>>
    BY <2>2 DEF StageField, storage
  <2>4. staged'.timeout = active.timeout
    BY <2>2, ConfigIsRecord DEF TypeOK, Configs
  <2> QED
    BY <1>1, <1>2, <1>3, <1>6, <2>3, <2>4 DEF SavedInOrder, InFlash
<1>7. CASE step = 3
  <2>1. Line[1] = "apply"
    BY <1>7, RestoreDirectionLines
  <2>2. ApplyConfig \/ (~configStaged /\ AnswerOnly)
    BY <1>1, <2>1, Acknowledged DEF Acked, Reading
  <2>3. Advance
    BY <1>1, <2>1, Commands DEF Command, Reading
  <2>4. step' = 4
    BY <1>1, <1>7, <2>3 DEF Advance
  <2>5. stored' = stored /\ ~configStaged' /\ active'.timeout = active.timeout
    <3>1. CASE ApplyConfig
      BY <1>3, <3>1 DEF ApplyConfig, storage
    <3>2. CASE ~configStaged /\ AnswerOnly
      BY <3>2 DEF AnswerOnly, configVars, storage
    <3> QED
      BY <2>2, <3>1, <3>2
  <2> QED
    BY <1>1, <1>2, <1>3, <1>7, <2>4, <2>5 DEF SavedInOrder, InFlash
<1>8. CASE step = 4
  <2>1. SaveConfig /\ generation' # generation
    BY <1>1, <1>8, RestoreDirectionLines, Acknowledged DEF Acked, Reading
  <2> QED
    BY <1>1, <1>2, <1>3, <1>4, <1>8, <2>1, SaveEffect DEF SavedInOrder, InFlash
<1>9. CASE step = 5
  <2>1. Reboot
    BY <1>1, <1>9, RestoreDirectionLines, Readings DEF RebootAndReopen
  <2> QED
    BY <1>1, <1>2, <1>3, <1>9, <2>1, RebootEffect DEF SavedInOrder, InFlash
<1>10. CASE step = 6
  <2>1. /\ AnswerOnly /\ active.inverted = Value(Line)
        /\ Line[2] = "inverted" /\ Line[3] = "original"
    BY <1>1, <1>10, RestoreDirectionLines, Readings DEF Check, Judged
  <2>2. active.inverted = original.inverted
    BY <2>1 DEF Value
  <2>3. UNCHANGED <<active, stored, configStaged>>
    BY <2>1 DEF AnswerOnly, configVars, storage
  <2> QED
    BY <1>1, <1>2, <1>3, <1>4, <1>10, <2>2, <2>3 DEF SavedInOrder, InFlash
<1> QED
  BY <1>1, <1>5, <1>6, <1>7, <1>8, <1>9, <1>10

(* From the last lines of the script on, and in the clean-up of a bench     *)
(* that passed, nothing touches the configurations.                         *)
LEMMA SavedForGood ==
  ASSUME PlaceOK, AppliedNext, NothingToRepair, RunsOn, ~Meanwhile, part = 8 \/ ok
  PROVE  /\ UNCHANGED <<active, staged, configStaged, stored, original>>
         /\ ~configStaged
<1>1. ~Finished /\ (UNCHANGED vars \/ Ordered)
  BY OrderedOrNot
<1>2. part \in 8..13
  BY <1>1, PlaceRanges, ScriptEnd DEF NothingToRepair
<1>3. Line[1] \in {"ramp", "clear", "skip_if_restored", "mode", "final_status",
                   "final_driver"}
  <2>1. CASE part = 8
    <3>1. step \in 1..4
      BY <1>1, <2>1, PlaceRanges, ClosingLines
    <3> QED
      BY <2>1, <3>1, ClosingLines
  <2>2. CASE part \in {11, 12}
    BY <2>2, RepairLines DEF NothingToRepair, InRepair
  <2>3. CASE part \in {9, 10, 13}
    <3>1. step \in 1..1
      BY <1>1, <2>3, PlaceRanges, OtherCleanupLines
    <3> QED
      BY <2>3, <3>1, OtherCleanupLines
  <2> QED
    BY <1>2, <2>1, <2>2, <2>3
<1>4. UNCHANGED <<active, staged, configStaged, stored>>
  BY <1>1, <1>3, ConfigKept DEF vars, configVars, storage
<1>5. ~configStaged
  BY <1>3, ScriptEnd DEF AppliedNext, NothingToRepair
<1> QED
  BY <1>2, <1>4, <1>5, NoteSteps

LEMMA SavedKept ==
  ASSUME TypeOK, PlaceOK, AppliedNext, Noted, SavedInOrder, NothingToRepair, RunsOn
  PROVE  SavedInOrder'
<1>1. CASE Meanwhile
  <2>1. UNCHANGED <<active, staged, configStaged, stored, part, step, original, ok>>
    BY <1>1, MeanwhileKeeps
  <2> QED
    BY <2>1 DEF SavedInOrder, InFlash
<1>2. CASE ~Meanwhile /\ (part = 8 \/ ok)
  <2>1. UNCHANGED <<active, staged, configStaged, stored, original>> /\ ~configStaged
    BY <1>2, SavedForGood
  <2>2. /\ InFlash("timeout") /\ InFlash("inverted")
        /\ active.timeout = original.timeout /\ active.inverted = original.inverted
    BY <1>2 DEF SavedInOrder
  <2> QED
    BY <2>1, <2>2 DEF SavedInOrder, InFlash
<1>3. CASE ~Meanwhile /\ part # 8 /\ ~ok
  <2>1. ~ok'
    BY <1>3, VerdictSteps
  <2>2. CASE part' > 8
    BY <2>1, <2>2 DEF SavedInOrder
  <2>3. CASE part' <= 8
    <3>1. /\ part \in 1..8
          /\ part' = part \/ (part' = part + 1 /\ step' = 1)
      BY <1>3, <2>3, ScriptMoves
    <3>2. CASE part = 6
      BY <1>3, <2>1, <2>3, <3>2, SavedInPart6
    <3>3. CASE part = 7
      BY <1>3, <2>1, <2>3, <3>3, SavedInPart7
    <3>4. CASE part < 6
      BY <2>1, <3>1, <3>4 DEF SavedInOrder
    <3> QED
      BY <1>3, <3>1, <3>2, <3>3, <3>4
  <2>4. part' \in Nat
    BY PlaceKept DEF PlaceOK
  <2> QED
    BY <2>2, <2>3, <2>4
<1> QED
  BY <1>1, <1>2, <1>3

LEMMA NothingLeftToRepair ==
  ASSUME PlaceOK, AppliedNext, SavedInOrder, NothingToRepair, RunsOn
  PROVE  NothingToRepair'
<1> SUFFICES ASSUME ok'
             PROVE  ~InScript' /\ ~configStaged' /\ (InRepair' => step' = 1)
  BY DEF NothingToRepair
<1>1. CASE Meanwhile
  <2>1. UNCHANGED <<configStaged, part, step, ok>>
    BY <1>1, MeanwhileKeeps
  <2> QED
    BY <2>1 DEF NothingToRepair, InRepair, InScript
<1>2. CASE ~Meanwhile /\ ~ok
  <2>1. part = 8 /\ part' = 9 /\ step' = 1
    BY <1>2, VerdictSteps
  <2>2. ~configStaged'
    BY <1>2, <2>1, SavedForGood
  <2> QED
    BY <2>1, <2>2, PartCount DEF InScript, InRepair
<1>3. CASE ~Meanwhile /\ ok
  <2>1. ~configStaged'
    BY <1>3, SavedForGood
  <2>2. ~Finished /\ part \in 9..13 /\ (InRepair => step = 1)
    BY <1>3, OrderedOrNot, PlaceRanges, ScriptEnd DEF NothingToRepair
  <2>3. ~(Exchange /\ step < Len(Part) /\ part' = part)
    <3>1. CASE InRepair
      <4>1. Exchange => SkipIfRestored /\ Line[2] = Repaired
        BY <2>2, <3>1, RepairLines, Readings DEF InRepair
      <4>2. active[Repaired] = original[Repaired]
        BY <1>3 DEF SavedInOrder, Repaired
      <4>3. Exchange => LeavePart
        BY <4>1, <4>2 DEF SkipIfRestored
      <4> QED
        BY <2>2, <4>3 DEF LeavePart
    <3>2. CASE ~InRepair
      <4>1. part \in {9, 10, 13}
        BY <2>2, <3>2 DEF InRepair
      <4>2. step \in 1..1 /\ Len(Part) = 1
        BY <2>2, <4>1, PlaceRanges, OtherCleanupLines
      <4>3. ~(step < Len(Part))
        BY <4>2
      <4> QED
        BY <4>3
    <3> QED
      BY <3>1, <3>2
  <2>4. (part' = part + 1 /\ step' = 1) \/ (part' = part /\ step' = step)
    BY <2>2, <2>3, PlaceMoves, ScriptEnd
  <2> QED
    BY <2>1, <2>2, <2>4, PartCount DEF InScript, InRepair
<1> QED
  BY <1>1, <1>2, <1>3

(* An answered step of the clean-up. *)
LEMMA CleanupSteps ==
  ASSUME PlaceOK, RunsOn, ~Meanwhile, ~InScript, allAnswered'
  PROVE  Exchange /\ ~Finished /\ part \in 9..13 /\ step \in 1..Len(Part) /\ allAnswered
<1>1. ~Raised(FALSE) /\ (Raised(TRUE) => allAnswered)
  BY DEF Raised
<1>2. ~Unanswered /\ ~NotConnected
  BY <1>1 DEF Unanswered, NotConnected
<1>3. ~Finished
  BY OrderedOrNot
<1>4. part \in 9..13 /\ step \in 1..Len(Part)
  BY <1>3, PlaceRanges, ScriptEnd
<1>5. Line[1] # "reboot"
  BY <1>3, <1>4, LinesAsMeant DEF LineFacts
<1>6. Exchange
  BY <1>2, <1>5 DEF RunsOn, ReopenFails
<1>7. allAnswered
  BY <1>1, PlaceSteps DEF Stay, Advance, LeavePart
<1> QED
  BY <1>3, <1>4, <1>6, <1>7

LEMMA RepairOrders ==
  ASSUME Ordered, Line[1] \in {"skip_if_restored", "stage", "apply", "save"},
         state \notin MotionStates
  PROVE  motion' = motion /\ state' \notin MotionStates
BY DEF Ordered, StageField, ApplyConfig, SaveConfig, IsDriverQuery, AnswerOnly, Raise,
       Transition, SettledState, plant, MotionStates

LEMMA StopsKept ==
  ASSUME PlaceOK, StopsInOrder, RunsOn
  PROVE  StopsInOrder'
<1> SUFFICES ASSUME allAnswered'
             PROVE  /\ part' > 9 => Stopped'
                    /\ part' > 10 => state' \notin MotionStates
                    /\ part' > 13 => ~outputs' /\ controlMode' = "DISABLED"
  BY DEF StopsInOrder
<1>1. CASE Meanwhile
  <2>1. part' = part /\ allAnswered' = allAnswered
    BY <1>1, MeanwhileKeeps
  <2>2. part \in 1..14
    BY DEF PlaceOK
  <2> QED
    BY <1>1, <2>1, <2>2, MeanwhileKeeps DEF StopsInOrder
<1>2. CASE ~Meanwhile /\ InScript
  BY <1>2, PlaceMoves, ScriptEnd DEF PlaceOK
<1>3. CASE ~Meanwhile /\ ~InScript
  <2>1. /\ Exchange /\ ~Finished /\ part \in 9..13 /\ step \in 1..Len(Part)
        /\ UNCHANGED vars \/ Ordered
    BY <1>3, CleanupSteps, OrderedOrNot
  <2>2. /\ part > 9 => Stopped
        /\ part > 10 => state \notin MotionStates
    BY <1>3, CleanupSteps DEF StopsInOrder
  <2>3. part' \in {part, part + 1}
    BY <1>3, PlaceMoves, PlaceRanges
  <2>4. CASE part = 9
    <3>1. step \in 1..1
      BY <2>1, <2>4, OtherCleanupLines
    <3>2. Line[1] = "ramp"
      BY <2>4, <3>1, OtherCleanupLines
    <3>3. RampStop \/ (motion = "still" /\ AnswerOnly)
      BY <2>1, <3>2, Commands DEF Command, Acked, Refused, Reading
    <3>4. motion' \in {"still", "stopping"}
      BY <3>3, BenchAssumption DEF RampStop, Outcome, Slowed, AnswerOnly, plant
    <3> QED
      BY <2>3, <2>4, <3>4 DEF Stopped
  <2>5. CASE part = 10
    <3>1. step \in 1..1
      BY <2>1, <2>5, OtherCleanupLines
    <3>2. Line[1] = "clear"
      BY <2>5, <3>1, OtherCleanupLines
    <3>3. ClearFaults
      BY <2>1, <3>2, Commands DEF Command, Acked, Refused, Reading
    <3>4. motion' = motion /\ state' \notin MotionStates
      BY <3>3 DEF ClearFaults, Transition, SettledState, plant, MotionStates
    <3> QED
      BY <2>2, <2>3, <2>5, <3>4 DEF Stopped
  <2>6. CASE part \in {11, 12}
    <3>1. Line[1] \in {"skip_if_restored", "stage", "apply", "save"}
      <4>1. step \in 1..4
        BY <2>1, <2>6, RepairLines
      <4> QED
        BY <2>6, <4>1, RepairLines
    <3>2. motion' = motion /\ state' \notin MotionStates
      BY <2>1, <2>2, <2>6, <3>1, RepairOrders DEF vars, plant
    <3> QED
      BY <2>2, <2>3, <2>6, <3>2 DEF Stopped
  <2>7. CASE part = 13
    <3>1. step \in 1..1
      BY <2>1, <2>7, OtherCleanupLines
    <3>2. Line[1] = "mode" /\ Line[2] = "DISABLED"
      BY <2>7, <3>1, OtherCleanupLines
    <3>3. state \notin MotionStates
      BY <2>2, <2>7
    <3>4. Disable
      BY <2>1, <3>2, <3>3, Commands
         DEF Command, Acked, Refused, Reading, InMotionState, EnableFails
    <3>5. /\ motion' = motion /\ state' \notin MotionStates
          /\ ~outputs' /\ controlMode' = "DISABLED"
      BY <3>4 DEF Disable, Transition, MotionStates
    <3> QED
      BY <2>2, <2>7, <3>5 DEF Stopped
  <2> QED
    BY <2>1, <2>4, <2>5, <2>6, <2>7
<1> QED
  BY <1>1, <1>2, <1>3

(* A repair, line by line. *)
LEMMA RepairSteps ==
  ASSUME TypeOK, PlaceOK, StopsInOrder, RepairsInOrder, RunsOn, ~Meanwhile, InRepair,
         allAnswered', ~excused
  PROVE  /\ original' = original
         /\ \/ /\ part' = part + 1 /\ step' = 1 /\ ~configStaged'
               /\ active' = active /\ Back(Repaired)
            \/ /\ part' = part /\ step' = 2 /\ ~configStaged' /\ active' = active
               /\ Repaired \in DOMAIN original
            \/ /\ part' = part /\ step' = 3 /\ configStaged' /\ active' = active
               /\ staged' = [active EXCEPT ![Repaired] = original[Repaired]]
               /\ Repaired \in DOMAIN original
            \/ /\ part' = part /\ step' = 4 /\ ~configStaged'
               /\ active' = [active EXCEPT ![Repaired] = original[Repaired]]
               /\ Repaired \in DOMAIN original
<1>0. part \in {11, 12} /\ ~InScript
  BY ScriptEnd DEF InRepair
<1>1. /\ Exchange /\ ~Finished /\ allAnswered /\ step \in 1..4 /\ Len(Part) = 4
      /\ original' = original
  <2>1. Exchange /\ ~Finished /\ allAnswered /\ step \in 1..Len(Part)
    BY <1>0, CleanupSteps
  <2>2. Len(Part) = 4
    BY <1>0, RepairLines
  <2>3. step \in 1..4
    BY <2>1, <2>2
  <2>4. part # 1
    BY <1>0
  <2>5. original' = original
    BY <2>4, NoteSteps
  <2> QED
    BY <2>1, <2>2, <2>3, <2>5
<1>2. state \notin MotionStates
  BY <1>0, <1>1 DEF StopsInOrder
<1>3. /\ configStaged => step = 3
      /\ step > 1 => Repaired \in DOMAIN original
      /\ step = 3 =>
           configStaged /\ staged = [active EXCEPT ![Repaired] = original[Repaired]]
      /\ step > 3 => Back(Repaired)
  BY <1>0, <1>1 DEF RepairsInOrder, InRepair
<1>4. CASE step = 1
  <2>1. SkipIfRestored /\ Line[2] = Repaired
    BY <1>0, <1>1, <1>4, RepairLines, Readings
  <2>2. UNCHANGED <<active, configStaged>>
    BY <2>1 DEF SkipIfRestored, AnswerOnly, vars, configVars
  <2>3. \/ LeavePart /\ Back(Repaired)
        \/ Advance /\ Repaired \in DOMAIN original
    BY <2>1 DEF SkipIfRestored, Back
  <2>4. CASE LeavePart /\ Back(Repaired)
    BY <1>1, <1>3, <1>4, <2>2, <2>4 DEF LeavePart
  <2>5. CASE Advance /\ Repaired \in DOMAIN original
    BY <1>1, <1>3, <1>4, <2>2, <2>5 DEF Advance
  <2> QED
    BY <2>3, <2>4, <2>5
<1>5. CASE step = 2
  <2>1. Line[1] = "stage" /\ Line[2] = Repaired /\ Line[3] = "original"
    BY <1>0, <1>5, RepairLines
  <2>2. /\ StageField /\ Advance
        /\ staged' = [Candidate EXCEPT ![Repaired] = Value(Line)]
    BY <1>1, <2>1, Commands DEF Command, Acked, Refused, Reading
  <2>3. staged' = [active EXCEPT ![Repaired] = original[Repaired]]
    BY <1>3, <1>5, <2>1, <2>2 DEF Candidate, Value
  <2>4. configStaged' /\ active' = active
    BY <2>2 DEF StageField
  <2>5. part' = part /\ step' = 3
    BY <1>1, <1>5, <2>2 DEF Advance
  <2>6. Repaired \in DOMAIN original
    BY <1>3, <1>5
  <2> QED
    BY <1>1, <2>3, <2>4, <2>5, <2>6
<1>6. CASE step = 3
  <2>1. Line[1] = "apply"
    BY <1>0, <1>6, RepairLines
  <2>2. configStaged /\ staged = [active EXCEPT ![Repaired] = original[Repaired]]
    BY <1>3, <1>6
  <2>3. ApplyConfig /\ Advance
    BY <1>1, <1>2, <2>1, <2>2, Commands
       DEF Command, Acked, Refused, Reading, InMotionState
  <2>4. ~configStaged' /\ active' = [active EXCEPT ![Repaired] = original[Repaired]]
    BY <2>2, <2>3 DEF ApplyConfig
  <2>5. part' = part /\ step' = 4
    BY <1>1, <1>6, <2>3 DEF Advance
  <2>6. Repaired \in DOMAIN original
    BY <1>3, <1>6
  <2> QED
    BY <1>1, <2>4, <2>5, <2>6
<1>7. CASE step = 4
  <2>1. Line[1] = "save"
    BY <1>0, <1>7, RepairLines
  <2>2. SaveConfig /\ (Advance \/ Raised(TRUE))
    BY <1>1, <2>1, Commands DEF Command, Acked, Refused, Reading
  <2>3. UNCHANGED <<active, configStaged>>
    BY <2>2 DEF SaveConfig
  <2>4. part' = part + 1 /\ step' = 1
    <3>1. ~(step < Len(Part))
      BY <1>1, <1>7
    <3> QED
      BY <1>0, <2>2, <3>1 DEF Advance, LeavePart, Raised
  <2>5. ~configStaged /\ Back(Repaired)
    BY <1>3, <1>7
  <2> QED
    BY <1>1, <2>3, <2>4, <2>5
<1> QED
  BY <1>1, <1>4, <1>5, <1>6, <1>7

LEMMA RepairsKept ==
  ASSUME TypeOK, PlaceOK, AppliedNext, StopsInOrder, RepairsInOrder, NothingToRepair,
         RunsOn
  PROVE  RepairsInOrder'
<1> SUFFICES ASSUME ~InScript', allAnswered', ~excused'
             PROVE  /\ configStaged' => InRepair' /\ step' = 3
                    /\ InRepair' /\ step' > 1 => Repaired' \in DOMAIN original'
                    /\ InRepair' /\ step' = 3 =>
                         /\ configStaged'
                         /\ staged' = [active' EXCEPT ![Repaired'] = original'[Repaired']]
                    /\ InRepair' /\ step' > 3 => Back(Repaired)'
                    /\ part' > 11 => Back("timeout")'
                    /\ part' > 12 => Back("inverted")'
  BY DEF RepairsInOrder
<1>1. CASE Meanwhile
  <2>1. UNCHANGED <<active, staged, configStaged, part, step, excused, allAnswered,
                    original>>
    BY <1>1, MeanwhileKeeps
  <2> QED
    BY <2>1 DEF RepairsInOrder, InScript, InRepair, Repaired, Back
<1>2. CASE ~Meanwhile /\ InScript
  <2>1. part' = 9
    BY <1>2, PlaceMoves, ScriptEnd, PartCount DEF InScript, PlaceOK
  <2>2. ~configStaged'
    <3>1. CASE part = 8
      BY <1>2, <3>1, SavedForGood
    <3>2. CASE part # 8
      <4>1. Raised(TRUE) \/ Raised(FALSE)
        <5>1. part \in 1..7
          BY <1>2, <3>2, ScriptEnd DEF PlaceOK
        <5>2. part' # part /\ part' # part + 1
          BY <2>1, <5>1
        <5>3. ~LeavePart
          BY <5>2 DEF LeavePart
        <5>4. ~Stay /\ ~Advance
          BY <5>2, <5>3 DEF Stay, Advance
        <5> QED
          BY <5>3, <5>4, PlaceSteps
      <4> QED
        BY <1>2, <4>1 DEF Raised
    <3> QED
      BY <3>1, <3>2
  <2> QED
    BY <2>1, <2>2 DEF InRepair
<1>3. CASE ~Meanwhile /\ ~InScript
  <2>1. Exchange /\ ~Finished /\ part \in 9..13 /\ step \in 1..Len(Part) /\ allAnswered
    BY <1>3, CleanupSteps
  <2>2. ~excused
    BY <1>3, PlaceSteps DEF Stay, Advance, LeavePart, Raised
  <2>3. /\ configStaged => InRepair /\ step = 3
        /\ part > 11 => Back("timeout")
        /\ part > 12 => Back("inverted")
    BY <1>3, <2>1, <2>2 DEF RepairsInOrder
  <2>4. CASE InRepair
    <3>1. part \in {11, 12}
      BY <2>4 DEF InRepair
    <3>2. part' = part => Repaired' = Repaired /\ InRepair'
      BY <3>1 DEF Repaired, InRepair
    <3>3. original' = original
      BY <1>3, <2>2, <2>4, RepairSteps
    <3>4. CASE part' = part + 1 /\ step' = 1 /\ ~configStaged' /\ active' = active
               /\ Back(Repaired)
      BY <2>3, <3>1, <3>3, <3>4 DEF InRepair, Back, Repaired
    <3>5. CASE part' = part /\ step' = 2 /\ ~configStaged' /\ active' = active
               /\ Repaired \in DOMAIN original
      BY <2>3, <3>1, <3>2, <3>3, <3>5 DEF Back
    <3>6. CASE part' = part /\ step' = 3 /\ configStaged' /\ active' = active
               /\ staged' = [active EXCEPT ![Repaired] = original[Repaired]]
               /\ Repaired \in DOMAIN original
      BY <2>3, <3>1, <3>2, <3>3, <3>6 DEF Back
    <3>7. CASE part' = part /\ step' = 4 /\ ~configStaged'
               /\ active' = [active EXCEPT ![Repaired] = original[Repaired]]
               /\ Repaired \in DOMAIN original
      <4>1. active'[Repaired] = original[Repaired]
        BY <3>7, ConfigIsRecord DEF TypeOK, Configs, Repaired
      <4>2. part = 12 => active'.timeout = active.timeout
        BY <3>7, ConfigIsRecord DEF TypeOK, Configs, Repaired
      <4> QED
        BY <2>3, <3>1, <3>2, <3>3, <3>7, <4>1, <4>2 DEF Back
    <3> QED
      BY <1>3, <2>2, <2>4, <3>4, <3>5, <3>6, <3>7, RepairSteps
  <2>5. CASE part \in {9, 10, 13}
    <3>1. step \in 1..1 /\ Len(Part) = 1
      BY <2>1, <2>5, OtherCleanupLines
    <3>2. Line[1] \in {"ramp", "clear", "mode"}
      BY <2>5, <3>1, OtherCleanupLines
    <3>3. UNCHANGED <<active, configStaged>>
      BY <1>3, <3>2, OrderedOrNot, ConfigKept DEF vars, configVars
    <3>4. original' = original
      BY <2>5, NoteSteps
    <3>5. (part' = part /\ step' = step) \/ (part' = part + 1 /\ step' = 1)
      BY <1>3, <3>1, PlaceMoves, PlaceRanges
    <3> QED
      BY <2>3, <2>5, <3>1, <3>3, <3>4, <3>5 DEF InRepair, Back
  <2> QED
    BY <2>1, <2>4, <2>5 DEF InRepair
<1> QED
  BY <1>1, <1>2, <1>3

(* A reset leaves the device at rest and with what is in flash, which is    *)
(* where each promise wants it, or excuses the clean-up.                    *)
LEMMA ResetKeeps ==
  ASSUME TypeOK, PlaceOK, Promises, ResetsItself
  PROVE  Promises'
<1>1. /\ UNCHANGED <<part, step, allAnswered, original, ok>>
      /\ excused' = (excused \/ ~InScript)
  BY DEF ResetsItself
<1>2. ~configStaged' /\ AtRest'
  BY DEF ResetsItself, Reboot, AtRest, BootState, MotionStates
<1>3. NotesOK' /\ AppliedNext' /\ RestsSinceReboot' /\ Noted'
  BY <1>1, <1>2 DEF Promises, NotesOK, AppliedNext, RestsSinceReboot, Noted
<1>4. StopsInOrder'
  BY <1>2 DEF StopsInOrder, AtRest, Stopped
<1>5. RepairsInOrder'
  BY <1>1 DEF RepairsInOrder, InScript
<1>6. NothingToRepair'
  BY <1>1, <1>2 DEF Promises, NothingToRepair, InScript, InRepair
<1>7. SavedInOrder'
  <2>1. CASE stored = NothingStored
    BY <1>1, <1>2, <2>1 DEF Promises, SavedInOrder, InFlash
  <2>2. CASE stored # NothingStored
    <3>1. active' = stored.config /\ stored' = stored
      BY <2>2, RebootEffect DEF ResetsItself
    <3> QED
      BY <1>1, <1>2, <2>2, <3>1 DEF Promises, SavedInOrder, InFlash
  <2> QED
    BY <2>1, <2>2
<1> QED
  BY <1>3, <1>4, <1>5, <1>6, <1>7 DEF Promises

-----------------------------------------------------------------------------
(* The theorems *)

LEMMA PromisesHold == BenchSpec => []Promises
<1>1. BenchInit => Promises
  <2> SUFFICES ASSUME BenchInit PROVE Promises
    OBVIOUS
  <2>1. part = 1 /\ step = 1 /\ ~ok /\ ~configStaged /\ DOMAIN original = {}
    BY DEF BenchInit, Init
  <2>2. InScript /\ ~InRepair
    BY <2>1, ScriptEnd DEF InRepair
  <2> QED
    BY <2>1, <2>2 DEF Promises, NotesOK, AppliedNext, StopsInOrder, RepairsInOrder,
       RestsSinceReboot, SinceReboot, Noted, SavedInOrder, NothingToRepair
<1>2. TypeOK /\ PlaceOK /\ Promises /\ [BenchNext]_<<vars, benchVars>> => Promises'
  <2>1. ASSUME TypeOK, PlaceOK, Promises, RunsOn PROVE Promises'
    <3>1. NotesOK' /\ AppliedNext' /\ StopsInOrder' /\ RestsSinceReboot' /\ Noted'
      BY <2>1, NotesKept, AppliedNextKept, StopsKept, RestKept, NotedKept DEF Promises
    <3>2. RepairsInOrder' /\ SavedInOrder' /\ NothingToRepair'
      BY <2>1, RepairsKept, SavedKept, NothingLeftToRepair DEF Promises
    <3> QED
      BY <3>1, <3>2 DEF Promises
  <2>2. ASSUME TypeOK, PlaceOK, Promises, ResetsItself PROVE Promises'
    BY <2>2, ResetKeeps
  <2>3. ASSUME Promises, UNCHANGED <<vars, benchVars>> PROVE Promises'
    BY <2>3 DEF Promises, NotesOK, AppliedNext, StopsInOrder, Stopped, RepairsInOrder,
       Back, InRepair, Repaired, RestsSinceReboot, SinceReboot, AtRest, Noted,
       SavedInOrder, InFlash,
       NothingToRepair, InScript, Line, Part, vars, benchVars, configVars, plant, storage
  <2> QED
    BY <2>1, <2>2, <2>3 DEF BenchNext
<1> QED
  BY <1>1, <1>2, BenchDrivesTheDevice, TypeCorrect, PTL DEF BenchSpec

(* A clean-up whose requests are all answered leaves the power stage off    *)
(* and no motor in velocity mode, wherever the script broke off.            *)
THEOREM CleanupIsSafe == BenchSpec => []CleanupLeavesSafe
<1>1. PlaceOK /\ Promises => CleanupLeavesSafe
  BY LastPart DEF PlaceOK, Promises, StopsInOrder, Stopped, CleanupLeavesSafe
<1> QED
  BY <1>1, BenchDrivesTheDevice, PromisesHold, PTL

(* It puts the noted values back into force, unless an edit was left staged *)
(* or a reset has made the device forget a repair.                          *)
THEOREM CleanupPutsBack == BenchSpec => []CleanupRestores
<1>1. PlaceOK /\ Promises => CleanupRestores
  <2> SUFFICES ASSUME PlaceOK, Promises, Finished, allAnswered, ~excused
               PROVE  AsNoted(active)
    BY DEF CleanupRestores
  <2>1. part = 14 /\ ~InScript
    BY LastPart, ScriptEnd DEF PlaceOK
  <2>2. Back("timeout") /\ Back("inverted")
    BY <2>1 DEF Promises, RepairsInOrder
  <2> QED
    BY <2>2 DEF Back, AsNoted, Promises, NotesOK
<1> QED
  BY <1>1, BenchDrivesTheDevice, PromisesHold, PTL

(* A report that says ok is true: off, nothing staged, both values back, in *)
(* force and in flash, whatever was lost on the way and whenever the device *)
(* reset itself.                                                            *)
THEOREM PassedIsRestored == BenchSpec => []PassedMeansRestored
<1>1. Promises => PassedMeansRestored
  <2> SUFFICES ASSUME Promises, Finished, ok
               PROVE  /\ ~outputs /\ controlMode = "DISABLED" /\ ~configStaged
                      /\ DOMAIN original = {"timeout", "inverted"} /\ AsNoted(active)
                      /\ stored # NothingStored /\ AsNoted(stored.config)
    BY DEF PassedMeansRestored
  <2>1. ~outputs /\ controlMode = "DISABLED" /\ ~configStaged
    BY DEF Promises, RestsSinceReboot, SinceReboot, AtRest, NothingToRepair
  <2>2. DOMAIN original = {"timeout", "inverted"}
    BY DEF Promises, NotesOK, Noted
  <2>3. /\ stored # NothingStored
        /\ stored.config["timeout"] = active["timeout"]
        /\ stored.config["inverted"] = active["inverted"]
        /\ active["timeout"] = original["timeout"]
        /\ active["inverted"] = original["inverted"]
    BY DEF Promises, SavedInOrder, InFlash
  <2>4. AsNoted(active) /\ AsNoted(stored.config)
    BY <2>2, <2>3 DEF AsNoted
  <2> QED
    BY <2>1, <2>2, <2>3, <2>4
<1> QED
  BY <1>1, PromisesHold, PTL

=============================================================================
