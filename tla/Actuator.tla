------------------------------ MODULE Actuator ------------------------------
(***************************************************************************)
(* The actuator core, firmware/src/actuator.cpp: the command handlers of   *)
(* handle_packet, the periodic update, record_frame_error and begin, over  *)
(* the motion backend they call (firmware/include/daft/platform.hpp, as    *)
(* firmware/platforms/esp32_arduino/src/main.cpp fills it in).             *)
(*                                                                         *)
(* Everything runs in one loop, so a handler is one step.  What runs by    *)
(* itself is the pulse generator (a motion ends while the firmware is not  *)
(* looking), the clock, the host and the serial line: packets, broken      *)
(* frames, time, update() and resets come in any order.                    *)
(*                                                                         *)
(* Left out: counters, telemetry packets, the boot reason event and the    *)
(* response cache (RequestLink models the cache).  Numbers in motion       *)
(* commands are abstracted to their verdicts: in range, out of range,      *)
(* beyond a soft limit.                                                    *)
(***************************************************************************)
EXTENDS Integers

CONSTANTS
  DriverSettings,   (* values of the driver part of a configuration         *)
  Intervals,        (* telemetry intervals                                  *)
  ValidConfigs,     (* the configurations validate_config accepts           *)
  Defaults,         (* default_config()                                     *)
  Unconfigured,     (* the chip after a configure that did not answer       *)
  NothingStored,    (* the storage holds no usable configuration            *)
  FrameErrors,      (* decoder errors the serial line can produce           *)
  MayFail,          (* backend calls that may report failure                *)
  Mistakes,         (* host mistakes that raise a fault                     *)
  AgeCap,           (* hostAge saturates here                               *)
  MaxGeneration     (* bound of the configuration generation                *)

TimeoutActions == {"RAMP_STOP", "DISABLE"}

Configs == [driver : DriverSettings, interval : Intervals,
            timeout : Nat \ {0}, action : TimeoutActions, inverted : BOOLEAN]

BackendCalls == {"configure", "enable", "motion", "ramp", "save", "reset", "uart"}

(* validate_config does not look at the telemetry interval and insists on a *)
(* host timeout.                                                            *)
ASSUME ConfigsAssumption ==
  /\ ValidConfigs \subseteq Configs
  /\ Defaults \in ValidConfigs
  /\ \A c \in ValidConfigs, i \in Intervals : [c EXCEPT !.interval = i] \in ValidConfigs
  /\ Unconfigured \notin DriverSettings
  /\ NothingStored \notin [config : ValidConfigs, generation : Nat]

ASSUME EnvironmentAssumption ==
  /\ FrameErrors \subseteq {"BAD_CRC", "BAD_PAYLOAD", "RX_FRAME"}
  /\ MayFail \subseteq BackendCalls
  /\ Mistakes \subseteq {"SOFT_LIMIT", "UNSUPPORTED_COMMAND"}

ASSUME BoundsAssumption ==
  /\ AgeCap \in Nat
  /\ \A c \in ValidConfigs : c.timeout < AgeCap
  /\ MaxGeneration \in Nat

VARIABLES
  state, controlMode, faults, driverEnabled,
  active, staged, configStaged, generation,
  hostAge,           (* now - last_host_ms_: time since the last packet      *)
  announcedState,    (* the state and the fault mask that the EVENT packets  *)
  announcedFaults,   (* emitted so far add up to                             *)
  outputs,           (* power stage energised                                *)
  motion,            (* what the pulse generator is doing                    *)
  chip,              (* the settings the TMC2209 runs with                   *)
  stored,            (* the newest record, which config_store_load returns   *)
  older              (* the record in the other slot                         *)

announced  == <<announcedState, announcedFaults>>
configVars == <<active, staged, configStaged, generation>>
plant      == <<outputs, motion, chip>>
storage    == <<stored, older>>
vars == <<state, controlMode, faults, driverEnabled, configVars, hostAge,
          announced, plant, storage>>

Motor == INSTANCE MotorContract

-----------------------------------------------------------------------------

States == {"BOOTING", "DISABLED", "IDLE", "MOVING_POSITION", "RUNNING_VELOCITY",
           "STOPPING", "FAULTED", "CONFIG_STAGED", "COMMISSIONING"}

ControlModes == {"DISABLED", "POSITION", "VELOCITY", "COMMISSIONING"}

FaultFlags == {"RX_FRAME", "BAD_CRC", "BAD_PAYLOAD", "UNSUPPORTED_COMMAND",
               "INVALID_CONFIG", "CONFIG_STORAGE", "SOFT_LIMIT", "DRIVER",
               "DRIVER_UART", "HOST_TIMEOUT"}

MotionStates == {"MOVING_POSITION", "RUNNING_VELOCITY", "STOPPING"}

(* is_motion_state that leaves a velocity run out, and one that leaves a   *)
(* stop out.                                                               *)
InMotionStateButVelocity == state \in MotionStates \ {"RUNNING_VELOCITY"}

InMotionStateButStopping == state \in MotionStates \ {"STOPPING"}

InMotionState == state \in MotionStates

(* A backend call reports success, or failure where the instance lets it. *)
Outcome(call) == IF call \in MayFail THEN BOOLEAN ELSE {TRUE}

(* transition_to; heard says whether the caller passes an event writer. *)
Transition(next, heard) ==
  /\ state' = next
  /\ announcedState' = IF heard /\ next # state THEN next ELSE announcedState

(* The first part of set_fault; the FAULT_SET event carries the whole mask. *)
RecordFault(flag, heard) ==
  /\ faults' = faults \cup {flag}
  /\ announcedFaults' =
       IF heard /\ flag \notin faults THEN faults \cup {flag} ELSE announcedFaults

Latching(flag) == flag \notin {"HOST_TIMEOUT", "SOFT_LIMIT"}

(* set_fault that does not hand its writer on to transition_to. *)
RaiseQuietly(flag, heard) ==
  /\ RecordFault(flag, heard)
  /\ IF Latching(flag) THEN Transition("FAULTED", FALSE)
                       ELSE UNCHANGED <<state, announcedState>>

(* set_fault *)
Raise(flag, heard) ==
  /\ RecordFault(flag, heard)
  /\ IF Latching(flag) THEN Transition("FAULTED", heard)
                       ELSE UNCHANGED <<state, announcedState>>

SettledState == IF driverEnabled THEN "IDLE" ELSE "DISABLED"

(* validate_motion_allowed that trusts the state and not the driver. *)
MotionAllowedUnpowered(mode) ==
  /\ state \notin {"FAULTED", "STOPPING"}
  /\ ~configStaged
  /\ mode = "POSITION" => state # "RUNNING_VELOCITY"
  /\ mode = "VELOCITY" => state # "MOVING_POSITION"

(* validate_motion_allowed *)
MotionAllowed(mode) ==
  /\ state \notin {"FAULTED", "STOPPING"}
  /\ driverEnabled
  /\ ~configStaged
  /\ mode = "POSITION" => state # "RUNNING_VELOCITY"
  /\ mode = "VELOCITY" => state # "MOVING_POSITION"

(* stopMove on a generator at rest does nothing. *)
Slowed == IF motion = "still" THEN "still" ELSE "stopping"

OneFieldApart(c, d) == \E f \in DOMAIN c : d = [c EXCEPT ![f] = d[f]]

-----------------------------------------------------------------------------
(* begin: what load_config returns is checked again, then the driver is    *)
(* configured.  No event writer exists yet; the host is taken to read the  *)
(* status once after a boot.                                               *)

Loads == stored # NothingStored /\ stored.config \in ValidConfigs

BootConfig == IF Loads THEN stored.config ELSE Defaults

(* begin without config_generation_ = generation. *)
BootGenerationForgotten == 0

BootGeneration == IF Loads THEN stored.generation ELSE 0

BootFaults(configured) ==
  (IF stored = NothingStored \/ Loads THEN {} ELSE {"INVALID_CONFIG"})
    \cup (IF configured THEN {} ELSE {"DRIVER"})

BootState(configured) == IF configured THEN "DISABLED" ELSE "FAULTED"

Init ==
  /\ stored = NothingStored
  /\ older = NothingStored
  /\ active = Defaults
  /\ staged = Defaults
  /\ generation = 0
  /\ \E configured \in Outcome("configure") :
       /\ state = BootState(configured)
       /\ faults = BootFaults(configured)
       /\ chip = IF configured THEN Defaults.driver ELSE Unconfigured
  /\ controlMode = "DISABLED"
  /\ driverEnabled = FALSE
  /\ configStaged = FALSE
  /\ hostAge = 0
  /\ announcedState = state
  /\ announcedFaults = faults
  /\ outputs = FALSE
  /\ motion = "still"

(* REBOOT, a reset or a power cycle: setup() parks the pins and begin runs. *)
Reboot ==
  /\ active' = BootConfig
  /\ staged' = BootConfig
  /\ generation' = BootGeneration
  /\ \E configured \in Outcome("configure") :
       /\ state' = BootState(configured)
       /\ faults' = BootFaults(configured)
       /\ chip' = IF configured THEN BootConfig.driver ELSE Unconfigured
  /\ controlMode' = "DISABLED"
  /\ driverEnabled' = FALSE
  /\ configStaged' = FALSE
  /\ hostAge' = 0
  /\ announcedState' = state'
  /\ announcedFaults' = faults'
  /\ outputs' = FALSE
  /\ motion' = "still"
  /\ UNCHANGED storage

-----------------------------------------------------------------------------
(* handle_packet.  Every packet, whatever becomes of it, restarts the host *)
(* clock (Heard).                                                          *)

(* A packet stamped after the moment update compares it with. *)
HeardAhead == hostAge' = 0 - 1

Heard == hostAge' = 0

(* A query, a ping, a rejected command or a duplicate: an answer, no more. *)
AnswerOnly ==
  /\ Heard
  /\ UNCHANGED <<state, controlMode, faults, driverEnabled, configVars,
                 announced, plant, storage>>

(* SET_CONTROL_MODE(DISABLED), the one mode a faulted device accepts. *)
Disable ==
  /\ ~InMotionState
  /\ controlMode' = "DISABLED"
  /\ driverEnabled' = FALSE
  /\ outputs' = FALSE
  /\ Transition("DISABLED", TRUE)
  /\ Heard
  /\ UNCHANGED <<faults, announcedFaults, configVars, motion, chip, storage>>

(* Enabling without configuring first. *)
EnableAsIs(mode) ==
  /\ mode # "DISABLED"
  /\ state # "FAULTED"
  /\ ~InMotionState
  /\ TRUE \in Outcome("enable")
  /\ controlMode' = mode
  /\ outputs' = TRUE
  /\ driverEnabled' = TRUE
  /\ Transition(IF mode = "COMMISSIONING" THEN "COMMISSIONING" ELSE "IDLE", TRUE)
  /\ Heard
  /\ UNCHANGED <<faults, announcedFaults, configVars, motion, chip, storage>>

(* SET_CONTROL_MODE: the driver is configured, then enabled. *)
Enable(mode) ==
  /\ mode # "DISABLED"
  /\ state # "FAULTED"
  /\ ~InMotionState
  /\ TRUE \in Outcome("enable")
  /\ controlMode' = mode
  /\ chip' = active.driver
  /\ outputs' = TRUE
  /\ driverEnabled' = TRUE
  /\ Transition(IF mode = "COMMISSIONING" THEN "COMMISSIONING" ELSE "IDLE", TRUE)
  /\ Heard
  /\ UNCHANGED <<faults, announcedFaults, configVars, motion, storage>>

(* Its failures leave the new control mode and the old power stage. *)
EnableFails(mode) ==
  /\ mode # "DISABLED"
  /\ state # "FAULTED"
  /\ ~InMotionState
  /\ \/ FALSE \in Outcome("configure") /\ chip' = Unconfigured
     \/ FALSE \in Outcome("enable") /\ chip' = active.driver
  /\ controlMode' = mode
  /\ Raise("DRIVER", TRUE)
  /\ Heard
  /\ UNCHANGED <<driverEnabled, configVars, outputs, motion, storage>>

(* An emergency stop that leaves the power stage on. *)
EstopPowered ==
  /\ motion' = "still"
  /\ controlMode' = "DISABLED"
  /\ Transition("FAULTED", TRUE)
  /\ Heard
  /\ UNCHANGED <<faults, announcedFaults, driverEnabled, configVars, outputs, chip, storage>>

Estop ==
  /\ motion' = "still"
  /\ outputs' = FALSE
  /\ driverEnabled' = FALSE
  /\ controlMode' = "DISABLED"
  /\ Transition("FAULTED", TRUE)
  /\ Heard
  /\ UNCHANGED <<faults, announcedFaults, configVars, chip, storage>>

(* RAMP_STOP, when the firmware or the pulse generator is in motion. *)
RampStop ==
  /\ InMotionState \/ motion # "still"
  /\ \/ /\ TRUE \in Outcome("ramp")
        /\ motion' = Slowed
        /\ Transition("STOPPING", TRUE)
        /\ controlMode' = "POSITION"
        /\ UNCHANGED <<faults, announcedFaults>>
     \/ /\ FALSE \in Outcome("ramp")
        /\ Raise("DRIVER", TRUE)
        /\ UNCHANGED <<motion, controlMode>>
  /\ Heard
  /\ UNCHANGED <<driverEnabled, configVars, outputs, chip, storage>>

ClearFaults ==
  /\ faults' = {}
  /\ announcedFaults' = IF faults # {} THEN {} ELSE announcedFaults
  /\ Transition(SettledState, TRUE)
  /\ controlMode' = IF driverEnabled THEN controlMode ELSE "DISABLED"
  /\ Heard
  /\ UNCHANGED <<driverEnabled, configVars, plant, storage>>

(* MOVE_ABS and MOVE_REL in range: accepted, or refused by the backend. *)
Move ==
  /\ MotionAllowed("POSITION")
  /\ \/ /\ TRUE \in Outcome("motion")
        /\ motion' = "position"
        /\ Transition("MOVING_POSITION", TRUE)
        /\ controlMode' = "POSITION"
        /\ UNCHANGED <<faults, announcedFaults>>
     \/ /\ FALSE \in Outcome("motion")
        /\ Raise("DRIVER", TRUE)
        /\ UNCHANGED <<motion, controlMode>>
  /\ Heard
  /\ UNCHANGED <<driverEnabled, configVars, outputs, chip, storage>>

(* MOVE_ABS and MOVE_REL beyond a soft limit. *)
MoveBeyondLimit ==
  /\ MotionAllowed("POSITION")
  /\ "SOFT_LIMIT" \in Mistakes
  /\ Raise("SOFT_LIMIT", TRUE)
  /\ Heard
  /\ UNCHANGED <<controlMode, driverEnabled, configVars, plant, storage>>

RunVelocity ==
  /\ MotionAllowed("VELOCITY")
  /\ \/ /\ TRUE \in Outcome("motion")
        /\ motion' = "velocity"
        /\ Transition("RUNNING_VELOCITY", TRUE)
        /\ controlMode' = "VELOCITY"
        /\ UNCHANGED <<faults, announcedFaults>>
     \/ /\ FALSE \in Outcome("motion")
        /\ Raise("DRIVER", TRUE)
        /\ UNCHANGED <<motion, controlMode>>
  /\ Heard
  /\ UNCHANGED <<driverEnabled, configVars, outputs, chip, storage>>

UnsupportedCommand ==
  /\ "UNSUPPORTED_COMMAND" \in Mistakes
  /\ Raise("UNSUPPORTED_COMMAND", TRUE)
  /\ Heard
  /\ UNCHANGED <<controlMode, driverEnabled, configVars, plant, storage>>

(* GET_DRIVER_STATUS on a chip that was configured and no longer answers. *)
DriverUartFails ==
  /\ FALSE \in Outcome("uart")
  /\ chip # Unconfigured
  /\ Raise("DRIVER_UART", TRUE)
  /\ Heard
  /\ UNCHANGED <<controlMode, driverEnabled, configVars, plant, storage>>

-----------------------------------------------------------------------------
(* The configuration commands. *)

(* stage_field starting over with every field. *)
CandidateFromActive == active

Candidate == IF configStaged THEN staged ELSE active

(* CONFIG_STAGE_FIELD with a field and a value that keep the candidate valid. *)
StageField ==
  /\ staged' \in {c \in ValidConfigs : OneFieldApart(Candidate, c)}
  /\ configStaged' = TRUE
  /\ IF InMotionState THEN UNCHANGED <<state, announcedState>>
                      ELSE Transition("CONFIG_STAGED", TRUE)
  /\ Heard
  /\ UNCHANGED <<controlMode, faults, announcedFaults, driverEnabled, active,
                 generation, plant, storage>>

(* A setting that apply_staged_config does not compare. *)
DriverChangeMissed == FALSE

DriverChanged == staged.driver # active.driver

(* CONFIG_APPLY with something staged. *)
ApplyConfig ==
  /\ configStaged
  /\ ~InMotionState
  /\ staged \in ValidConfigs
  /\ DriverChanged => TRUE \in Outcome("configure")
  /\ active' = staged
  /\ configStaged' = FALSE
  /\ chip' = IF DriverChanged THEN staged.driver ELSE chip
  /\ Transition(SettledState, TRUE)
  /\ Heard
  /\ UNCHANGED <<controlMode, faults, announcedFaults, driverEnabled, staged,
                 generation, outputs, motion, storage>>

ApplyFails ==
  /\ configStaged
  /\ ~InMotionState
  /\ \E flag \in {"INVALID_CONFIG", "DRIVER"} :
       /\ IF flag = "INVALID_CONFIG"
            THEN staged \notin ValidConfigs /\ chip' = chip
            ELSE staged \in ValidConfigs /\ DriverChanged
                   /\ FALSE \in Outcome("configure") /\ chip' = Unconfigured
       /\ Raise(flag, TRUE)
  /\ Heard
  /\ UNCHANGED <<controlMode, driverEnabled, configVars, outputs, motion, storage>>

(* What config_store_save makes of the slots, and config_store_clear, which  *)
(* erases them key by key, where it stops half way.  ConfigStore has both    *)
(* write by write; every slot reads well here and nothing rots.              *)
NewRecord ==
  [config |-> active,
   generation |-> IF stored = NothingStored THEN 1 ELSE stored.generation + 1]

Stores == stored' = NewRecord /\ older' = stored

LosesOlder == stored' = stored /\ older' = NothingStored

ErasesNewest == stored' = older /\ older' = NothingStored

ErasesAll == stored' = NothingStored /\ older' = NothingStored

(* A save that failed has cost the older record at most, or was carried out *)
(* all the same: the last write went through and was reported as failed.    *)
SaveCutShort == UNCHANGED storage \/ LosesOlder \/ Stores

(* CONFIG_SAVE: the firmware counts its own generations and the store its   *)
(* own.                                                                     *)
SaveConfig ==
  /\ NewRecord.generation <= MaxGeneration
  /\ \/ /\ TRUE \in Outcome("save")
        /\ generation < MaxGeneration
        /\ generation' = generation + 1
        /\ Stores
        /\ UNCHANGED <<state, faults, announced>>
     \/ /\ FALSE \in Outcome("save")
        /\ SaveCutShort
        /\ Raise("CONFIG_STORAGE", TRUE)
        /\ UNCHANGED generation
  /\ Heard
  /\ UNCHANGED <<controlMode, driverEnabled, active, staged, configStaged, plant>>

(* CONFIG_RESET_DEFAULTS: the defaults are active before anything can fail. *)
ResetDefaults ==
  /\ ~InMotionState
  /\ active' = Defaults
  /\ staged' = Defaults
  /\ configStaged' = FALSE
  /\ \/ /\ FALSE \in Outcome("configure")
        /\ chip' = Unconfigured
        /\ Raise("DRIVER", TRUE)
        /\ UNCHANGED storage
     \/ /\ TRUE \in Outcome("configure")
        /\ chip' = Defaults.driver
        /\ \/ /\ FALSE \in Outcome("reset")
              /\ UNCHANGED storage \/ LosesOlder \/ ErasesNewest \/ ErasesAll
              /\ Raise("CONFIG_STORAGE", TRUE)
           \/ /\ TRUE \in Outcome("reset")
              /\ ErasesAll
              /\ UNCHANGED <<state, faults, announced>>
  /\ Heard
  /\ UNCHANGED <<controlMode, driverEnabled, generation, outputs, motion>>

(* SET_TELEM_RATE on the active configuration alone. *)
SetTelemRateUnsynced(interval) ==
  /\ active' = [active EXCEPT !.interval = interval]
  /\ Heard
  /\ UNCHANGED <<state, controlMode, faults, driverEnabled, staged, configStaged,
                 generation, announced, plant, storage>>

(* SET_TELEM_RATE takes effect at once, and on a staged edit too. *)
SetTelemRate(interval) ==
  /\ active' = [active EXCEPT !.interval = interval]
  /\ staged' = IF configStaged THEN [staged EXCEPT !.interval = interval] ELSE active'
  /\ Heard
  /\ UNCHANGED <<state, controlMode, faults, driverEnabled, configStaged,
                 generation, announced, plant, storage>>

-----------------------------------------------------------------------------
(* record_frame_error is the one caller of set_fault without a writer. *)
RecordFrameError(error) ==
  /\ Raise(error, FALSE)
  /\ UNCHANGED <<controlMode, driverEnabled, configVars, hostAge, plant, storage>>

(* update that looks at position moves only. *)
MotionFinishedMove ==
  /\ state = "MOVING_POSITION"
  /\ motion = "still"
  /\ Transition(SettledState, TRUE)
  /\ controlMode' = IF driverEnabled THEN "POSITION" ELSE "DISABLED"
  /\ UNCHANGED <<faults, announcedFaults, driverEnabled, configVars, hostAge,
                 plant, storage>>

(* update: a motion that came to an end. *)
MotionFinished ==
  /\ state \in {"MOVING_POSITION", "STOPPING"}
  /\ motion = "still"
  /\ Transition(SettledState, TRUE)
  /\ controlMode' = IF driverEnabled THEN "POSITION" ELSE "DISABLED"
  /\ UNCHANGED <<faults, announcedFaults, driverEnabled, configVars, hostAge,
                 plant, storage>>

(* The timeout noticed in the one millisecond it runs out in. *)
HostSilentJustNow ==
  /\ state = "RUNNING_VELOCITY"
  /\ hostAge = active.timeout

HostSilent ==
  /\ state = "RUNNING_VELOCITY"
  /\ hostAge > active.timeout

(* update: the velocity watchdog; whether ramp_stop failed is not looked at. *)
HostTimeoutRamp ==
  /\ HostSilent
  /\ active.action = "RAMP_STOP"
  /\ RecordFault("HOST_TIMEOUT", TRUE)
  /\ \E stopped \in Outcome("ramp") : motion' = IF stopped THEN Slowed ELSE motion
  /\ Transition("STOPPING", TRUE)
  /\ controlMode' = "POSITION"
  /\ UNCHANGED <<driverEnabled, configVars, hostAge, outputs, chip, storage>>

HostTimeoutDisable ==
  /\ HostSilent
  /\ active.action = "DISABLE"
  /\ RecordFault("HOST_TIMEOUT", TRUE)
  /\ motion' = "still"
  /\ outputs' = FALSE
  /\ driverEnabled' = FALSE
  /\ controlMode' = "DISABLED"
  /\ Transition("FAULTED", TRUE)
  /\ UNCHANGED <<configVars, hostAge, chip, storage>>

Update == MotionFinished \/ HostTimeoutRamp \/ HostTimeoutDisable

-----------------------------------------------------------------------------
(* Not the firmware: the pulse generator reaches its target or has slowed  *)
(* down, and time passes.                                                  *)

MotionEnds ==
  /\ motion \in {"position", "stopping"}
  /\ motion' = "still"
  /\ UNCHANGED <<state, controlMode, faults, driverEnabled, configVars, hostAge,
                 announced, outputs, chip, storage>>

Tick ==
  /\ hostAge < AgeCap
  /\ hostAge' = hostAge + 1
  /\ UNCHANGED <<state, controlMode, faults, driverEnabled, configVars,
                 announced, plant, storage>>

-----------------------------------------------------------------------------

MotionCommand ==
  \/ Estop
  \/ RampStop
  \/ Move
  \/ MoveBeyondLimit
  \/ RunVelocity

ModeCommand ==
  \/ Disable
  \/ \E mode \in ControlModes : Enable(mode) \/ EnableFails(mode)
  \/ ClearFaults
  \/ UnsupportedCommand
  \/ DriverUartFails

ConfigCommand ==
  \/ StageField
  \/ ApplyConfig
  \/ ApplyFails
  \/ SaveConfig
  \/ ResetDefaults
  \/ \E interval \in Intervals : SetTelemRate(interval)

Next ==
  \/ AnswerOnly
  \/ MotionCommand
  \/ ModeCommand
  \/ ConfigCommand
  \/ Reboot
  \/ \E error \in FrameErrors : RecordFrameError(error)
  \/ Update
  \/ MotionEnds
  \/ Tick

Spec == Init /\ [][Next]_vars

(* loop() keeps calling update, the pulse generator keeps its own time, and *)
(* so does the clock.  Nothing is assumed of the host or of the line.       *)
FairSpec == Spec /\ WF_vars(Update) /\ WF_vars(MotionEnds) /\ WF_vars(Tick)

-----------------------------------------------------------------------------
(* Properties *)

(* The variables keep their ranges, and what is held or stored as a         *)
(* configuration is one validate_config accepts: begin, stage_field,        *)
(* apply_staged_config, CONFIG_RESET_DEFAULTS and SET_TELEM_RATE together.  *)
TypeOK ==
  /\ state \in States
  /\ controlMode \in ControlModes
  /\ faults \subseteq FaultFlags
  /\ driverEnabled \in BOOLEAN
  /\ active \in ValidConfigs
  /\ staged \in ValidConfigs
  /\ configStaged \in BOOLEAN
  /\ generation \in Nat
  /\ hostAge \in 0..AgeCap
  /\ announcedState \in States
  /\ announcedFaults \subseteq FaultFlags
  /\ outputs \in BOOLEAN
  /\ motion \in Motor!Motions
  /\ chip \in DriverSettings \cup {Unconfigured}
  /\ stored \in [config : ValidConfigs, generation : Nat] \cup {NothingStored}
  /\ older \in [config : ValidConfigs, generation : Nat] \cup {NothingStored}
  /\ older # NothingStored =>
       stored # NothingStored /\ older.generation < stored.generation

(* The state the status packet reports is never ahead of the motor: in      *)
(* RUNNING_VELOCITY the generator runs on an energised stage, a position    *)
(* move is under way or just over, and STOPPING is a motor that slows down, *)
(* whatever was refused, timed out or failed on the way there.  A backend   *)
(* whose ramp_stop fails breaks the last part, because update ignores it.   *)
MotionStateFaithful ==
  /\ state = "RUNNING_VELOCITY" => motion = "velocity" /\ outputs
  /\ state = "MOVING_POSITION" => motion \in {"position", "still"} /\ outputs
  /\ state = "STOPPING" => motion \in {"stopping", "still"} \/ "ramp" \in MayFail

(* driver_enabled_, a copy the firmware keeps and gates motion with, agrees *)
(* with the pin through failed enables, emergency stops and timeouts.       *)
OutputsTracked == driverEnabled = outputs

(* Without staged edits the staged copy equals the active configuration, so *)
(* the next CONFIG_STAGE_FIELD starts from what is in force; and the fault  *)
(* for an invalid configuration is out of reach.                            *)
ConfigSync ==
  /\ ~configStaged => staged = active
  /\ "INVALID_CONFIG" \notin faults

(* What the EVENT packets add up to is the real state and fault mask.       *)
HostTold ==
  /\ announcedState = state
  /\ announcedFaults = faults

(* A motor that turns on its own account: a velocity run under a state the  *)
(* host timeout of update does not watch.                                   *)
Runaway == motion = "velocity" /\ state # "RUNNING_VELOCITY"

-----------------------------------------------------------------------------
(* What a step may never do. *)

(* The event stream goes wrong at a frame error and nowhere else: every     *)
(* handler that moves the state or the faults hands its writer on.          *)
EventsReported ==
  [][HostTold => HostTold' \/ \E error \in FrameErrors : RecordFrameError(error)]_vars

(* The watchdog loses a running motor only to a latched fault or to         *)
(* CLEAR_FAULTS: no accepted command, configuration change or finished      *)
(* motion takes the state away from a motor in velocity mode.               *)
RunawayOnlyByFault ==
  [][~Runaway /\ Runaway' => state' = "FAULTED" \/ ClearFaults]_vars

(* The power stage is switched on only on a chip that has just taken the    *)
(* active settings, whichever mode asks for it and whatever failed before.  *)
EnableOnlyConfigured ==
  [][~outputs /\ outputs' => chip' = active'.driver]_vars

(* How far the generation in STATUS and IDENTITY is behind the record a load *)
(* would return.                                                             *)
Behind ==
  IF stored = NothingStored \/ generation >= stored.generation THEN 0
  ELSE stored.generation - generation

(* The generation the firmware counts falls further behind the storage only *)
(* in a save that is reported as failed and was carried out all the same,   *)
(* and by one: not by a reboot, by a factory reset that stops half way and  *)
(* leaves either record, or by any save that succeeds later on.             *)
BehindOnlyByFailedSave ==
  [][Behind' > Behind =>
       /\ Behind' = Behind + 1
       /\ "CONFIG_STORAGE" \in faults' /\ state' = "FAULTED"
       /\ stored' = NewRecord]_vars

(* The chip never drifts from the active driver settings in silence: a step *)
(* after which it runs with others has raised the DRIVER fault.             *)
ChipFaultReported ==
  [][chip = active.driver /\ chip' # active'.driver => "DRIVER" \in faults']_vars

OnlyRateChanges ==
  /\ chip' = chip
  /\ active' = [active EXCEPT !.interval = active'.interval]

(* While the firmware says it is moving, only a reset changes the driver    *)
(* settings or any part of the active configuration but the telemetry rate. *)
ConfigFrozenInMotion ==
  [][(state \in MotionStates) => OnlyRateChanges \/ Reboot]_vars

(* Staged edits build on each other: as long as something is staged, a step *)
(* changes one field of it and never drops the others.                      *)
StagedEditsKept ==
  [][configStaged /\ configStaged' => OneFieldApart(staged, staged')]_vars

(* The firmware keeps the promise of MotorContract. *)
MotorPromise == Motor!MotorSpec

-----------------------------------------------------------------------------
(* What must happen. *)

(* A stop under way completes: update notices that the motor stands still.  *)
StopCompletes == state = "STOPPING" ~> state # "STOPPING"

(* Velocity mode trips the host timeout: when packets cease, a velocity run *)
(* comes to rest.                                                           *)
SilentHostStops == state = "RUNNING_VELOCITY" ~> (motion = "still" \/ hostAge = 0)

(* The same as far as the code keeps it: a fault that latches takes the run *)
(* out of the watchdog's sight.                                             *)
SilentHostStopsOrFaults ==
  state = "RUNNING_VELOCITY" ~> (motion = "still" \/ hostAge = 0 \/ state = "FAULTED")

=============================================================================
