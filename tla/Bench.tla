------------------------------- MODULE Bench --------------------------------
(***************************************************************************)
(* The bench of the command line, run_bench of python/apps/cli.py, against *)
(* the firmware of Actuator: a script that moves the motor, edits, saves   *)
(* and reboots, and a clean-up that runs whatever happened.                *)
(*                                                                         *)
(* One step is one request.  It is answered, or lost on the way there, or  *)
(* carried out with its answer lost; the client repeats nothing, so either *)
(* loss is an exception, and so is an ERROR answer.  Meanwhile the clock,  *)
(* the pulse generator and update go on, and the device may reset itself.  *)
(***************************************************************************)
EXTENDS Actuator, Sequences

CONSTANTS
  TestTimeout,   (* the host timeout the bench tries out                    *)
  TestInterval,  (* the telemetry interval it asks for                      *)
  MaxFailures    (* bound of lost requests, frames and ports, and of resets *)

ASSUME BenchAssumption ==
  /\ [Defaults EXCEPT !.timeout = TestTimeout, !.inverted = TRUE] \in ValidConfigs
  /\ TestInterval \in Intervals
  /\ "ramp" \notin MayFail   (* stopMove has no result *)
  /\ MaxFailures \in Nat

VARIABLES
  part, step,  (* where the program is: the next line of one of its parts   *)
  direction,   (* the inversion the last save and reboot cycle leaves       *)
  original,    (* the two values noted at the start, once they are          *)
  clean,       (* the last status that is looked at again was clean         *)
  ok,          (* report["ok"]                                              *)
  connected,   (* the port is open                                          *)
  excused,     (* an edit was staged when the script broke off, or the      *)
               (* device has reset itself since                             *)
  allAnswered, (* no clean-up request went unanswered                       *)
  failures

benchVars == <<part, step, direction, original, clean, ok, connected, excused,
               allAnswered, failures>>

-----------------------------------------------------------------------------
(* The program, part by part: the script of the try block and the finally   *)
(* block.                                                                   *)

Opening ==
  << <<"status">>, <<"driver">>, <<"clear_if_faulty">>, <<"note", "timeout">>, <<"note", "inverted">>,
     <<"rate">>, <<"mode", "POSITION">> >>

Cycle ==
  << <<"rate">>, <<"stage", "inverted", "forward">>, <<"apply">>,
     <<"move">>, <<"wait">>, <<"move">>, <<"wait">> >>

VelocityRuns ==
  << <<"mode", "VELOCITY">>, <<"run">>, <<"ramp">>, <<"wait">>, <<"run">>, <<"ramp">>, <<"wait">> >>

SaveRebootCycle ==
  << <<"stage", "inverted", "direction">>, <<"apply">>, <<"save">>, <<"reboot">>,
     <<"check", "inverted", "direction">> >>

TimeoutTest ==
  << <<"stage", "timeout", "test">>, <<"apply">>, <<"save">>, <<"reboot">>,
     <<"check", "timeout", "test">>, <<"clear">>, <<"mode", "VELOCITY">>, <<"run">>,
     <<"timed_out">>, <<"ramp">>, <<"wait">>, <<"clear">> >>

RestoreTimeout ==
  << <<"stage", "timeout", "original">>, <<"apply">>, <<"save">>, <<"reboot">>,
     <<"check", "timeout", "original">> >>

(* Back to the old direction without saving it. *)
RestoreDirectionUnsaved ==
  << <<"skip_if_restored", "inverted">>, <<"stage", "inverted", "original">>, <<"apply">>,
     <<"check", "inverted", "original">> >>

RestoreDirection ==
  << <<"skip_if_restored", "inverted">>, <<"stage", "inverted", "original">>, <<"apply">>,
     <<"save">>, <<"reboot">>, <<"check", "inverted", "original">> >>

Closing == << <<"clear">>, <<"mode", "DISABLED">>, <<"final_status">>, <<"final_driver">> >>

Script ==
  << Opening, Cycle, VelocityRuns, SaveRebootCycle, TimeoutTest, RestoreTimeout,
     RestoreDirection, Closing >>

Repair(field) ==
  << <<"skip_if_restored", field>>, <<"stage", field, "original">>, <<"apply">>, <<"save">> >>

(* Faults cleared last of all. *)
CleanupClearsLast ==
  << << <<"ramp">> >>, Repair("timeout"), Repair("inverted"),
     << <<"mode", "DISABLED">> >>, << <<"clear">> >> >>

(* A direction that is not put back. *)
CleanupOfTimeout ==
  << << <<"ramp">> >>, << <<"clear">> >>, Repair("timeout"), << <<"mode", "DISABLED">> >> >>

(* Each part in a try block of its own. *)
Cleanup ==
  << << <<"ramp">> >>, << <<"clear">> >>, Repair("timeout"), Repair("inverted"),
     << <<"mode", "DISABLED">> >> >>

InScript == part <= Len(Script)

Finished == part > Len(Script) + Len(Cleanup)

Part == IF InScript THEN Script[part] ELSE Cleanup[part - Len(Script)]

Line == Part[step]

-----------------------------------------------------------------------------
(* The device's part in a request.                                          *)

Value(line) ==
  CASE line[3] = "forward" -> FALSE
    [] line[3] = "direction" -> direction
    [] line[3] = "test" -> TestTimeout
    [] line[3] = "original" -> original[line[2]]

(* A command it acknowledges, or a query it answers. *)
Acked(line) ==
  CASE line[1] = "stage" ->
         StageField /\ staged' = [Candidate EXCEPT ![line[2]] = Value(line)]
    [] line[1] = "apply" -> ApplyConfig \/ (~configStaged /\ AnswerOnly)
    [] line[1] = "save" -> SaveConfig /\ generation' # generation
    [] line[1] = "reboot" -> Reboot
    [] line[1] \in {"clear", "clear_if_faulty"} -> ClearFaults
    [] line[1] = "mode" -> IF line[2] = "DISABLED" THEN Disable ELSE Enable(line[2])
    [] line[1] = "move" -> Move /\ state' # "FAULTED"
    [] line[1] = "run" -> RunVelocity /\ state' # "FAULTED"
    [] line[1] = "ramp" ->
         RampStop \/ (~InMotionState /\ motion = "still" /\ AnswerOnly)
    [] line[1] = "rate" -> SetTelemRate(TestInterval)
    [] OTHER -> AnswerOnly

(* An ERROR: the device is not in a state for it, or its backend failed. *)
Refused(line) ==
  CASE line[1] = "apply" -> configStaged /\ InMotionState /\ AnswerOnly
    [] line[1] = "save" -> SaveConfig /\ generation' = generation
    [] line[1] = "mode" ->
         \/ /\ InMotionState \/ (line[2] # "DISABLED" /\ state = "FAULTED")
            /\ AnswerOnly
         \/ EnableFails(line[2])
    [] line[1] = "move" ->
         \/ ~MotionAllowed("POSITION") /\ AnswerOnly
         \/ Move /\ state' = "FAULTED"
    [] line[1] = "run" ->
         \/ ~MotionAllowed("VELOCITY") /\ AnswerOnly
         \/ RunVelocity /\ state' = "FAULTED"
    [] OTHER -> FALSE

IsDriverQuery(line) == line[1] \in {"driver", "final_driver"}

(* Whatever it does with the request. *)
Executed(line) ==
  \/ Acked(line)
  \/ Refused(line)
  \/ IsDriverQuery(line) /\ DriverUartFails

-----------------------------------------------------------------------------
(* The bench's part.                                                        *)

Stay == UNCHANGED <<part, step, excused, allAnswered>>

LeavePart == part' = part + 1 /\ step' = 1 /\ UNCHANGED <<excused, allAnswered>>

Advance ==
  IF step < Len(Part)
    THEN step' = step + 1 /\ UNCHANGED <<part, excused, allAnswered>>
    ELSE LeavePart

(* An exception ends the script, or one part of the clean-up. *)
Raised(answered) ==
  /\ part' = IF InScript THEN Len(Script) + 1 ELSE part + 1
  /\ step' = 1
  /\ excused' = IF InScript THEN configStaged' ELSE excused
  /\ allAnswered' = (allAnswered /\ (answered \/ InScript))

Judged(good) == IF good THEN Advance ELSE Raised(TRUE)

(* The lines that read an answer, or send nothing. *)
Reading ==
  {"status", "driver", "clear_if_faulty", "note", "wait", "check", "timed_out",
   "skip_if_restored", "final_status", "final_driver", "reboot"}

Command ==
  /\ Line[1] \notin Reading
  /\ (Acked(Line) /\ Advance) \/ (Refused(Line) /\ Raised(TRUE))
  /\ UNCHANGED <<direction, original, clean, ok, connected>>

Status ==
  /\ Line[1] \in {"status", "final_status"}
  /\ AnswerOnly
  /\ clean' = (faults = {} /\ (Line[1] = "final_status" => state = "DISABLED"))
  /\ Advance
  /\ UNCHANGED <<direction, original, ok, connected>>

(* The first one must find the chip configured and answering; the last one  *)
(* decides on the verdict: it answers, the status was clean, and a bench    *)
(* that came this far has restored everything.                              *)
DriverStatus ==
  /\ IsDriverQuery(Line)
  /\ \E answers \in Outcome("uart") :
       /\ IF answers \/ chip = Unconfigured THEN AnswerOnly ELSE DriverUartFails
       /\ IF Line[1] = "driver"
            THEN Judged(answers /\ chip # Unconfigured) /\ UNCHANGED ok
            ELSE Judged(clean) /\ ok' = (clean /\ answers)
  /\ UNCHANGED <<direction, original, clean, connected>>

ClearIfFaulty ==
  /\ Line[1] = "clear_if_faulty"
  /\ IF clean THEN UNCHANGED vars ELSE ClearFaults
  /\ Advance
  /\ UNCHANGED <<direction, original, clean, ok, connected>>

Note ==
  /\ Line[1] = "note"
  /\ AnswerOnly
  /\ original' = [field \in DOMAIN original \cup {Line[2]} |->
                    IF field = Line[2] THEN active[field] ELSE original[field]]
  /\ Advance
  /\ UNCHANGED <<direction, clean, ok, connected>>

(* _bench_wait_idle *)
WaitIdle ==
  /\ Line[1] = "wait"
  /\ AnswerOnly
  /\ IF state \in {"IDLE", "DISABLED", "FAULTED"} THEN Advance ELSE Stay
  /\ UNCHANGED <<direction, original, clean, ok, connected>>

(* The script sleeps until well after the timeout. *)
TimedOut ==
  /\ Line[1] = "timed_out"
  /\ hostAge > active.timeout /\ ~HostSilent
  /\ AnswerOnly
  /\ Judged("HOST_TIMEOUT" \in faults)
  /\ UNCHANGED <<direction, original, clean, ok, connected>>

Check ==
  /\ Line[1] = "check"
  /\ AnswerOnly
  /\ Judged(active[Line[2]] = Value(Line))
  /\ UNCHANGED <<direction, original, clean, ok, connected>>

(* The rest of the part is for a value that is not the old one; a value     *)
(* that was never noted is not asked for.                                   *)
SkipIfRestored ==
  /\ Line[1] = "skip_if_restored"
  /\ IF Line[2] \notin DOMAIN original
       THEN LeavePart /\ UNCHANGED vars
       ELSE /\ AnswerOnly
            /\ IF active[Line[2]] = original[Line[2]] THEN LeavePart ELSE Advance
  /\ UNCHANGED <<direction, original, clean, ok, connected>>

(* _bench_reopen *)
RebootAndReopen ==
  /\ Line[1] = "reboot"
  /\ Reboot
  /\ Advance
  /\ UNCHANGED <<direction, original, clean, ok, connected>>

Answered ==
  \/ Command
  \/ Status
  \/ DriverStatus
  \/ ClearIfFaulty
  \/ Note
  \/ WaitIdle
  \/ TimedOut
  \/ Check
  \/ SkipIfRestored
  \/ RebootAndReopen

Sends ==
  /\ Line[1] = "clear_if_faulty" => ~clean
  /\ Line[1] = "skip_if_restored" => Line[2] \in DOMAIN original

Exchange ==
  /\ ~Finished /\ connected
  /\ Answered
  /\ UNCHANGED failures

(* No answer comes, the wait for the motor to settle gives up, or the       *)
(* operator interrupts.                                                     *)
Unanswered ==
  /\ ~Finished /\ connected /\ Sends
  /\ failures < MaxFailures
  /\ failures' = failures + 1
  /\ UNCHANGED vars \/ Executed(Line)
  /\ Raised(FALSE)
  /\ UNCHANGED <<direction, original, clean, ok, connected>>

(* The port does not come back within ten seconds. *)
ReopenFails ==
  /\ ~Finished /\ connected /\ Line[1] = "reboot"
  /\ failures < MaxFailures
  /\ failures' = failures + 1
  /\ Reboot
  /\ connected' = FALSE
  /\ Raised(TRUE)
  /\ UNCHANGED <<direction, original, clean, ok>>

NotConnected ==
  /\ ~Finished /\ ~connected
  /\ UNCHANGED <<vars, direction, original, clean, ok, connected, failures>>
  /\ Raised(FALSE)

(* Between the requests; a broken frame counts as a failure. *)
Meanwhile ==
  /\ \/ (Update \/ MotionEnds \/ Tick) /\ UNCHANGED failures
     \/ /\ failures < MaxFailures
        /\ failures' = failures + 1
        /\ \E error \in FrameErrors : RecordFrameError(error)
  /\ Stay
  /\ UNCHANGED <<direction, original, clean, ok, connected>>

BenchInit ==
  /\ Init
  /\ part = 1 /\ step = 1
  /\ direction \in BOOLEAN
  /\ original = [field \in {} |-> 0]
  /\ clean = FALSE
  /\ ok = FALSE
  /\ connected = TRUE
  /\ excused = FALSE
  /\ allAnswered = TRUE
  /\ failures = 0

(* The device starts over between two requests, without REBOOT: the power   *)
(* dips.  The port may be gone with it.                                     *)
ResetsItself ==
  /\ failures < MaxFailures
  /\ failures' = failures + 1
  /\ Reboot
  /\ connected' \in {connected, FALSE}
  /\ excused' = (excused \/ ~InScript)
  /\ UNCHANGED <<part, step, allAnswered, direction, original, clean, ok>>

RunsOn == Exchange \/ Unanswered \/ ReopenFails \/ NotConnected \/ Meanwhile

BenchNext == RunsOn \/ ResetsItself

BenchSpec == BenchInit /\ [][BenchNext]_<<vars, benchVars>>

-----------------------------------------------------------------------------
(* Properties *)

AsNoted(config) == \A field \in DOMAIN original : config[field] = original[field]

(* A report that says ok: the driver is off, nothing is staged, and the     *)
(* host timeout and the direction are back, in force and in flash, so that  *)
(* the next power cycle keeps them; whatever was lost on the way, and       *)
(* whenever the device reset itself.                                        *)
PassedMeansRestored ==
  Finished /\ ok =>
    /\ ~outputs /\ controlMode = "DISABLED" /\ ~configStaged
    /\ DOMAIN original = {"timeout", "inverted"} /\ AsNoted(active)
    /\ stored # NothingStored /\ AsNoted(stored.config)

(* Wherever the script broke off, a clean-up whose requests are all         *)
(* answered leaves the power stage off and no motor in velocity mode.       *)
CleanupLeavesSafe ==
  Finished /\ allAnswered =>
    ~outputs /\ controlMode = "DISABLED" /\ motion \in {"still", "stopping"}

(* It also puts the two values back into force, unless an edit was left     *)
(* staged (the clean-up looks at the active values only, and its own apply  *)
(* then brings the forgotten edit in) or the device forgets a repair in a   *)
(* reset before it is saved.  Flash is not promised.                        *)
CleanupRestores ==
  Finished /\ allAnswered /\ ~excused => AsNoted(active)

=============================================================================
