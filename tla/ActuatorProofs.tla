--------------------------- MODULE ActuatorProofs ---------------------------
(***************************************************************************)
(* Theorems about Actuator, for every set of configurations, every way the *)
(* backend may fail and every kind of frame error.                         *)
(***************************************************************************)
EXTENDS Actuator, TLAPS

(* What the fault helpers leave: a fault mask and a state of the right kind. *)
LEMMA RaiseTypes ==
  ASSUME TypeOK, NEW flag \in FaultFlags, NEW heard \in BOOLEAN, Raise(flag, heard)
  PROVE  /\ faults' \subseteq FaultFlags
         /\ announcedFaults' \subseteq FaultFlags
         /\ state' \in States
         /\ announcedState' \in States
  BY DEF TypeOK, Raise, RecordFault, Transition, Latching, States

LEMMA TransitionTypes ==
  ASSUME TypeOK, NEW next \in States, NEW heard \in BOOLEAN, Transition(next, heard)
  PROVE  state' \in States /\ announcedState' \in States
  BY DEF TypeOK, Transition

LEMMA BootTypes ==
  ASSUME TypeOK
  PROVE  /\ BootConfig \in ValidConfigs
         /\ BootGeneration \in Nat
         /\ stored = NothingStored \/ Loads
  BY ConfigsAssumption DEF TypeOK, BootConfig, BootGeneration, Loads

LEMMA ConfigTypes ==
  ASSUME NEW c \in ValidConfigs
  PROVE  c.driver \in DriverSettings
  BY ConfigsAssumption DEF Configs

Records == [config : ValidConfigs, generation : Nat]

(* The two slots: records of the right kind, the other one the older one.   *)
TwoRecords ==
  /\ stored \in Records \cup {NothingStored}
  /\ older \in Records \cup {NothingStored}
  /\ older # NothingStored =>
       stored # NothingStored /\ older.generation < stored.generation

LEMMA NewRecordTypes ==
  ASSUME TypeOK
  PROVE  /\ NewRecord \in Records
         /\ NewRecord # NothingStored
         /\ stored # NothingStored => NewRecord.generation = stored.generation + 1
         /\ stored = NothingStored => NewRecord.generation = 1
<1>1. (IF stored = NothingStored THEN 1 ELSE stored.generation + 1) \in Nat
  BY DEF TypeOK
<1> QED
  BY <1>1, ConfigsAssumption DEF TypeOK, NewRecord, Records

(* However a save or a reset breaks off, the other slot is the older one.   *)
LEMMA StorageTypes ==
  ASSUME TypeOK,
         \/ UNCHANGED storage
         \/ Stores
         \/ LosesOlder
         \/ ErasesNewest
         \/ ErasesAll
  PROVE  TwoRecords'
<1>1. TwoRecords
  BY DEF TypeOK, TwoRecords, Records
<1>2. CASE Stores
  <2>1. stored' = NewRecord /\ older' = stored
    BY <1>2 DEF Stores
  <2>2. stored # NothingStored => stored.generation < NewRecord.generation
    BY <1>1, NewRecordTypes DEF TwoRecords, Records
  <2> QED
    BY <1>1, <2>1, <2>2, NewRecordTypes DEF TwoRecords
<1>3. CASE UNCHANGED storage
  BY <1>1, <1>3 DEF TwoRecords, storage
<1> QED
  BY <1>1, <1>2, <1>3 DEF TwoRecords, LosesOlder, ErasesNewest, ErasesAll

(* Type correctness: every configuration that is active, staged or stored   *)
(* is one validate_config accepts.                                          *)
THEOREM TypeCorrect == Spec => []TypeOK
<1>1. Init => TypeOK
  <2> SUFFICES ASSUME Init PROVE TypeOK
    OBVIOUS
  <2>1. PICK configured \in BOOLEAN :
          /\ state = BootState(configured)
          /\ faults = BootFaults(configured)
          /\ chip = IF configured THEN Defaults.driver ELSE Unconfigured
    BY DEF Init, Outcome
  <2>2. state \in States /\ faults \subseteq FaultFlags
    BY <2>1 DEF Init, BootState, BootFaults, States, FaultFlags
  <2>3. chip \in DriverSettings \cup {Unconfigured}
    BY <2>1, ConfigsAssumption, ConfigTypes
  <2>4. 0 \in 0..AgeCap
    BY BoundsAssumption
  <2> QED
    BY <2>2, <2>3, <2>4, ConfigsAssumption
    DEF Init, TypeOK, ControlModes, Motor!Motions
<1>2. TypeOK /\ [Next]_vars => TypeOK'
  <2> SUFFICES ASSUME TypeOK, [Next]_vars PROVE TypeOK'
    OBVIOUS
  <2> USE DEF TypeOK, configVars, announced, plant, storage
  <2>0. 0 \in 0..AgeCap
    BY BoundsAssumption
  <2>1. CASE AnswerOnly
    BY <2>0, <2>1 DEF AnswerOnly, Heard
  <2>2. CASE Estop
    BY <2>0, <2>2, TransitionTypes DEF Estop, Heard, States, ControlModes, Motor!Motions
  <2>3. CASE RampStop
    <3>1. /\ state' \in States
          /\ announcedState' \in States
          /\ faults' \subseteq FaultFlags
          /\ announcedFaults' \subseteq FaultFlags
      <4>1. CASE Transition("STOPPING", TRUE) /\ UNCHANGED <<faults, announcedFaults>>
        BY <4>1, TransitionTypes DEF States
      <4>2. CASE Raise("DRIVER", TRUE)
        BY <4>2, RaiseTypes DEF FaultFlags
      <4> QED
        BY <2>3, <4>1, <4>2 DEF RampStop
    <3>2. motion' \in Motor!Motions /\ controlMode' \in ControlModes
      BY <2>3 DEF RampStop, Slowed, ControlModes, Motor!Motions
    <3> QED
      BY <2>0, <2>3, <3>1, <3>2 DEF RampStop, Heard
  <2>4. CASE Move
    <3>1. /\ state' \in States
          /\ announcedState' \in States
          /\ faults' \subseteq FaultFlags
          /\ announcedFaults' \subseteq FaultFlags
      <4>1. CASE Transition("MOVING_POSITION", TRUE) /\ UNCHANGED <<faults, announcedFaults>>
        BY <4>1, TransitionTypes DEF States
      <4>2. CASE Raise("DRIVER", TRUE)
        BY <4>2, RaiseTypes DEF FaultFlags
      <4> QED
        BY <2>4, <4>1, <4>2 DEF Move
    <3>2. motion' \in Motor!Motions /\ controlMode' \in ControlModes
      BY <2>4 DEF Move, Slowed, ControlModes, Motor!Motions
    <3> QED
      BY <2>0, <2>4, <3>1, <3>2 DEF Move, Heard
  <2>5. CASE MoveBeyondLimit
    BY <2>0, <2>5, RaiseTypes DEF MoveBeyondLimit, Heard, FaultFlags
  <2>6. CASE RunVelocity
    <3>1. /\ state' \in States
          /\ announcedState' \in States
          /\ faults' \subseteq FaultFlags
          /\ announcedFaults' \subseteq FaultFlags
      <4>1. CASE Transition("RUNNING_VELOCITY", TRUE) /\ UNCHANGED <<faults, announcedFaults>>
        BY <4>1, TransitionTypes DEF States
      <4>2. CASE Raise("DRIVER", TRUE)
        BY <4>2, RaiseTypes DEF FaultFlags
      <4> QED
        BY <2>6, <4>1, <4>2 DEF RunVelocity
    <3>2. motion' \in Motor!Motions /\ controlMode' \in ControlModes
      BY <2>6 DEF RunVelocity, Slowed, ControlModes, Motor!Motions
    <3> QED
      BY <2>0, <2>6, <3>1, <3>2 DEF RunVelocity, Heard
  <2>7. CASE Disable
    BY <2>0, <2>7, TransitionTypes DEF Disable, Heard, States, ControlModes
  <2>8. ASSUME NEW mode \in ControlModes, Enable(mode) PROVE TypeOK'
    <3>1. (IF mode = "COMMISSIONING" THEN "COMMISSIONING" ELSE "IDLE") \in States
      BY DEF States
    <3> QED
      BY <2>0, <2>8, <3>1, TransitionTypes, ConfigTypes DEF Enable, Heard
  <2>9. ASSUME NEW mode \in ControlModes, EnableFails(mode) PROVE TypeOK'
    BY <2>0, <2>9, RaiseTypes, ConfigTypes DEF EnableFails, Heard, FaultFlags
  <2>10. CASE ClearFaults
    <3>1. SettledState \in States
      BY DEF SettledState, States
    <3> QED
      BY <2>0, <2>10, <3>1, TransitionTypes DEF ClearFaults, Heard, ControlModes
  <2>11. CASE UnsupportedCommand
    BY <2>0, <2>11, RaiseTypes DEF UnsupportedCommand, Heard, FaultFlags
  <2>12. CASE DriverUartFails
    BY <2>0, <2>12, RaiseTypes DEF DriverUartFails, Heard, FaultFlags
  <2>13. CASE StageField
    <3>1. state' \in States /\ announcedState' \in States
      BY <2>13, TransitionTypes DEF StageField, States
    <3>2. staged' \in ValidConfigs
      BY <2>13 DEF StageField
    <3> QED
      BY <2>0, <2>13, <3>1, <3>2 DEF StageField, Heard
  <2>14. CASE ApplyConfig
    <3>1. SettledState \in States
      BY DEF SettledState, States
    <3> QED
      BY <2>0, <2>14, <3>1, TransitionTypes, ConfigTypes DEF ApplyConfig, Heard
  <2>15. CASE ApplyFails
    BY <2>0, <2>15, RaiseTypes DEF ApplyFails, Heard, FaultFlags
  <2>16. CASE SaveConfig
    <3>1. TwoRecords'
      BY <2>16, StorageTypes DEF SaveConfig, SaveCutShort
    <3>2. CASE Raise("CONFIG_STORAGE", TRUE) /\ UNCHANGED generation
      BY <2>0, <2>16, <3>1, <3>2, RaiseTypes
      DEF SaveConfig, Heard, FaultFlags, TwoRecords, Records
    <3>3. CASE generation' = generation + 1 /\ UNCHANGED <<state, faults, announced>>
      BY <2>0, <2>16, <3>1, <3>3 DEF SaveConfig, Heard, TwoRecords, Records
    <3> QED
      BY <2>16, <3>2, <3>3 DEF SaveConfig
  <2>17. CASE ResetDefaults
    <3>1. TwoRecords'
      BY <2>17, StorageTypes DEF ResetDefaults
    <3>2. /\ state' \in States
          /\ announcedState' \in States
          /\ faults' \subseteq FaultFlags
          /\ announcedFaults' \subseteq FaultFlags
      <4>1. CASE Raise("DRIVER", TRUE) \/ Raise("CONFIG_STORAGE", TRUE)
        BY <4>1, RaiseTypes DEF FaultFlags
      <4> QED
        BY <2>17, <4>1 DEF ResetDefaults
    <3>3. chip' \in DriverSettings \cup {Unconfigured}
      BY <2>17, ConfigsAssumption, ConfigTypes DEF ResetDefaults
    <3> QED
      BY <2>0, <2>17, <3>1, <3>2, <3>3, ConfigsAssumption
      DEF ResetDefaults, Heard, TwoRecords, Records
  <2>18. ASSUME NEW interval \in Intervals, SetTelemRate(interval) PROVE TypeOK'
    BY <2>0, <2>18, ConfigsAssumption DEF SetTelemRate, Heard
  <2>19. CASE Reboot
    <3>1. PICK configured \in BOOLEAN :
            /\ state' = BootState(configured)
            /\ faults' = BootFaults(configured)
            /\ chip' = IF configured THEN BootConfig.driver ELSE Unconfigured
      BY <2>19 DEF Reboot, Outcome
    <3>2. state' \in States /\ faults' \subseteq FaultFlags
      BY <3>1 DEF BootState, BootFaults, States, FaultFlags
    <3>3. chip' \in DriverSettings \cup {Unconfigured}
      BY <3>1, BootTypes, ConfigTypes
    <3> QED
      BY <2>0, <2>19, <3>2, <3>3, BootTypes DEF Reboot, ControlModes, Motor!Motions
  <2>20. ASSUME NEW error \in FrameErrors, RecordFrameError(error) PROVE TypeOK'
    BY <2>20, RaiseTypes, EnvironmentAssumption DEF RecordFrameError, FaultFlags
  <2>21. CASE MotionFinished
    <3>1. SettledState \in States
      BY DEF SettledState, States
    <3> QED
      BY <2>21, <3>1, TransitionTypes DEF MotionFinished, ControlModes
  <2>22. CASE HostTimeoutRamp
    <3>1. state' \in States /\ announcedState' \in States
      BY <2>22, TransitionTypes DEF HostTimeoutRamp, States
    <3>2. faults' \subseteq FaultFlags /\ announcedFaults' \subseteq FaultFlags
      BY <2>22 DEF HostTimeoutRamp, RecordFault, FaultFlags
    <3>3. motion' \in Motor!Motions
      BY <2>22 DEF HostTimeoutRamp, Slowed, Motor!Motions
    <3> QED
      BY <2>22, <3>1, <3>2, <3>3 DEF HostTimeoutRamp, ControlModes
  <2>23. CASE HostTimeoutDisable
    BY <2>23, TransitionTypes
    DEF HostTimeoutDisable, RecordFault, States, ControlModes, FaultFlags, Motor!Motions
  <2>24. CASE MotionEnds
    BY <2>24 DEF MotionEnds, Motor!Motions
  <2>25. CASE Tick
    BY <2>25, BoundsAssumption DEF Tick
  <2>26. CASE UNCHANGED vars
    BY <2>26 DEF vars
  <2> QED
    BY <2>1, <2>2, <2>3, <2>4, <2>5, <2>6, <2>7, <2>8, <2>9, <2>10, <2>11, <2>12, <2>13,
       <2>14, <2>15, <2>16, <2>17, <2>18, <2>19, <2>20, <2>21, <2>22, <2>23, <2>24, <2>25,
       <2>26
    DEF Next, MotionCommand, ModeCommand, ConfigCommand, Update
<1> QED
  BY <1>1, <1>2, PTL DEF Spec

-----------------------------------------------------------------------------

(* driver_enabled_ and the power stage are only ever switched together.     *)
THEOREM OutputsAgree == Spec => []OutputsTracked
<1>1. Init => OutputsTracked
  BY DEF Init, OutputsTracked
<1>2. OutputsTracked /\ [Next]_vars => OutputsTracked'
  <2> SUFFICES ASSUME OutputsTracked, [Next]_vars PROVE OutputsTracked'
    OBVIOUS
  <2> USE DEF OutputsTracked, plant
  <2>1. CASE AnswerOnly
    BY <2>1 DEF AnswerOnly
  <2>2. CASE Estop
    BY <2>2 DEF Estop
  <2>3. CASE RampStop
    BY <2>3 DEF RampStop
  <2>4. CASE Move
    BY <2>4 DEF Move
  <2>5. CASE MoveBeyondLimit
    BY <2>5 DEF MoveBeyondLimit
  <2>6. CASE RunVelocity
    BY <2>6 DEF RunVelocity
  <2>7. CASE Disable
    BY <2>7 DEF Disable
  <2>8. ASSUME NEW mode \in ControlModes, Enable(mode) PROVE OutputsTracked'
    BY <2>8 DEF Enable
  <2>9. ASSUME NEW mode \in ControlModes, EnableFails(mode) PROVE OutputsTracked'
    BY <2>9 DEF EnableFails
  <2>10. CASE ClearFaults
    BY <2>10 DEF ClearFaults
  <2>11. CASE UnsupportedCommand
    BY <2>11 DEF UnsupportedCommand
  <2>12. CASE DriverUartFails
    BY <2>12 DEF DriverUartFails
  <2>13. CASE StageField
    BY <2>13 DEF StageField
  <2>14. CASE ApplyConfig
    BY <2>14 DEF ApplyConfig
  <2>15. CASE ApplyFails
    BY <2>15 DEF ApplyFails
  <2>16. CASE SaveConfig
    BY <2>16 DEF SaveConfig
  <2>17. CASE ResetDefaults
    BY <2>17 DEF ResetDefaults
  <2>18. ASSUME NEW interval \in Intervals, SetTelemRate(interval) PROVE OutputsTracked'
    BY <2>18 DEF SetTelemRate
  <2>19. CASE Reboot
    BY <2>19 DEF Reboot
  <2>20. ASSUME NEW error \in FrameErrors, RecordFrameError(error) PROVE OutputsTracked'
    BY <2>20 DEF RecordFrameError
  <2>21. CASE MotionFinished
    BY <2>21 DEF MotionFinished
  <2>22. CASE HostTimeoutRamp
    BY <2>22 DEF HostTimeoutRamp
  <2>23. CASE HostTimeoutDisable
    BY <2>23 DEF HostTimeoutDisable
  <2>24. CASE MotionEnds
    BY <2>24 DEF MotionEnds
  <2>25. CASE Tick
    BY <2>25 DEF Tick
  <2>26. CASE UNCHANGED vars
    BY <2>26 DEF vars
  <2> QED
    BY <2>1, <2>2, <2>3, <2>4, <2>5, <2>6, <2>7, <2>8, <2>9, <2>10, <2>11,
       <2>12, <2>13, <2>14, <2>15, <2>16, <2>17, <2>18, <2>19, <2>20, <2>21,
       <2>22, <2>23, <2>24, <2>25, <2>26
    DEF Next, MotionCommand, ModeCommand, ConfigCommand, Update
<1> QED
  BY <1>1, <1>2, PTL DEF Spec

-----------------------------------------------------------------------------

(* The state and the motor.  The invariant needs OutputsTracked: a motion   *)
(* is admitted by driver_enabled_, and it is the power stage that counts.   *)
THEOREM MotionFaithful == Spec => []MotionStateFaithful
<1>1. Init => MotionStateFaithful
  BY DEF Init, MotionStateFaithful, BootState
<1>2. OutputsTracked /\ MotionStateFaithful /\ [Next]_vars => MotionStateFaithful'
  <2> SUFFICES ASSUME OutputsTracked, MotionStateFaithful, [Next]_vars
               PROVE  MotionStateFaithful'
    OBVIOUS
  <2> USE DEF MotionStateFaithful, announced, plant
  <2>1. CASE AnswerOnly
    BY <2>1 DEF AnswerOnly
  <2>2. CASE Estop
    BY <2>2 DEF Estop, Raise, Latching, Transition
  <2>3. CASE RampStop
    BY <2>3 DEF RampStop, Raise, Latching, Transition, Slowed
  <2>4. CASE Move
    BY <2>4 DEF Move, Raise, Latching, Transition, MotionAllowed, OutputsTracked
  <2>5. CASE MoveBeyondLimit
    BY <2>5 DEF MoveBeyondLimit, Raise, Latching, Transition
  <2>6. CASE RunVelocity
    BY <2>6 DEF RunVelocity, Raise, Latching, Transition, MotionAllowed, OutputsTracked
  <2>7. CASE Disable
    BY <2>7 DEF Disable, Raise, Latching, Transition
  <2>8. ASSUME NEW mode \in ControlModes, Enable(mode) PROVE MotionStateFaithful'
    BY <2>8 DEF Enable, Raise, Latching, Transition
  <2>9. ASSUME NEW mode \in ControlModes, EnableFails(mode) PROVE MotionStateFaithful'
    BY <2>9 DEF EnableFails, Raise, Latching, Transition
  <2>10. CASE ClearFaults
    BY <2>10 DEF ClearFaults, Raise, Latching, Transition, SettledState
  <2>11. CASE UnsupportedCommand
    BY <2>11 DEF UnsupportedCommand, Raise, Latching, Transition
  <2>12. CASE DriverUartFails
    BY <2>12 DEF DriverUartFails, Raise, Latching, Transition
  <2>13. CASE StageField
    BY <2>13 DEF StageField, Raise, Latching, Transition, InMotionState, MotionStates
  <2>14. CASE ApplyConfig
    BY <2>14 DEF ApplyConfig, Raise, Latching, Transition, SettledState
  <2>15. CASE ApplyFails
    BY <2>15 DEF ApplyFails, Raise, Latching, Transition
  <2>16. CASE SaveConfig
    BY <2>16 DEF SaveConfig, Raise, Latching, Transition
  <2>17. CASE ResetDefaults
    BY <2>17 DEF ResetDefaults, Raise, Latching, Transition
  <2>18. ASSUME NEW interval \in Intervals, SetTelemRate(interval) PROVE MotionStateFaithful'
    BY <2>18 DEF SetTelemRate
  <2>19. CASE Reboot
    BY <2>19 DEF Reboot, BootState
  <2>20. ASSUME NEW error \in FrameErrors, RecordFrameError(error)
        PROVE  MotionStateFaithful'
    BY <2>20, EnvironmentAssumption DEF RecordFrameError, Raise, Latching, Transition
  <2>21. CASE MotionFinished
    BY <2>21 DEF MotionFinished, Raise, Latching, Transition, SettledState
  <2>22. CASE HostTimeoutRamp
    BY <2>22 DEF HostTimeoutRamp, Raise, Latching, Transition, Slowed, Outcome
  <2>23. CASE HostTimeoutDisable
    BY <2>23 DEF HostTimeoutDisable, Raise, Latching, Transition
  <2>24. CASE MotionEnds
    BY <2>24 DEF MotionEnds
  <2>25. CASE Tick
    BY <2>25 DEF Tick
  <2>26. CASE UNCHANGED vars
    BY <2>26 DEF vars
  <2> QED
    BY <2>1, <2>2, <2>3, <2>4, <2>5, <2>6, <2>7, <2>8, <2>9, <2>10, <2>11,
       <2>12, <2>13, <2>14, <2>15, <2>16, <2>17, <2>18, <2>19, <2>20, <2>21,
       <2>22, <2>23, <2>24, <2>25, <2>26
    DEF Next, MotionCommand, ModeCommand, ConfigCommand, Update
<1> QED
  BY <1>1, <1>2, OutputsAgree, PTL DEF Spec

-----------------------------------------------------------------------------

(* The staged copy without staged edits, and the fault that cannot happen:  *)
(* TypeOK is needed for the branches that would raise it.                   *)
THEOREM ConfigInSync == Spec => []ConfigSync
<1>1. Init => ConfigSync
  BY DEF Init, ConfigSync, BootFaults
<1>2. TypeOK /\ ConfigSync /\ [Next]_vars => ConfigSync'
  <2> SUFFICES ASSUME TypeOK, ConfigSync, [Next]_vars PROVE ConfigSync'
    OBVIOUS
  <2> USE DEF ConfigSync, configVars
  <2>1. CASE AnswerOnly
    BY <2>1 DEF AnswerOnly
  <2>2. CASE Estop
    BY <2>2 DEF Estop
  <2>3. CASE RampStop
    BY <2>3 DEF RampStop, Raise, RecordFault
  <2>4. CASE Move
    BY <2>4 DEF Move, Raise, RecordFault
  <2>5. CASE MoveBeyondLimit
    BY <2>5 DEF MoveBeyondLimit, Raise, RecordFault
  <2>6. CASE RunVelocity
    BY <2>6 DEF RunVelocity, Raise, RecordFault
  <2>7. CASE Disable
    BY <2>7 DEF Disable
  <2>8. ASSUME NEW mode \in ControlModes, Enable(mode) PROVE ConfigSync'
    BY <2>8 DEF Enable
  <2>9. ASSUME NEW mode \in ControlModes, EnableFails(mode) PROVE ConfigSync'
    BY <2>9 DEF EnableFails, Raise, RecordFault
  <2>10. CASE ClearFaults
    BY <2>10 DEF ClearFaults
  <2>11. CASE UnsupportedCommand
    BY <2>11 DEF UnsupportedCommand, Raise, RecordFault
  <2>12. CASE DriverUartFails
    BY <2>12 DEF DriverUartFails, Raise, RecordFault
  <2>13. CASE StageField
    BY <2>13 DEF StageField
  <2>14. CASE ApplyConfig
    BY <2>14 DEF ApplyConfig
  <2>15. CASE ApplyFails
    BY <2>15 DEF ApplyFails, Raise, RecordFault, TypeOK
  <2>16. CASE SaveConfig
    BY <2>16 DEF SaveConfig, Raise, RecordFault
  <2>17. CASE ResetDefaults
    BY <2>17 DEF ResetDefaults, Raise, RecordFault
  <2>18. ASSUME NEW interval \in Intervals, SetTelemRate(interval) PROVE ConfigSync'
    BY <2>18 DEF SetTelemRate
  <2>19. CASE Reboot
    BY <2>19, BootTypes DEF Reboot, BootFaults
  <2>20. ASSUME NEW error \in FrameErrors, RecordFrameError(error) PROVE ConfigSync'
    BY <2>20, EnvironmentAssumption DEF RecordFrameError, Raise, RecordFault
  <2>21. CASE MotionFinished
    BY <2>21 DEF MotionFinished
  <2>22. CASE HostTimeoutRamp
    BY <2>22 DEF HostTimeoutRamp, RecordFault
  <2>23. CASE HostTimeoutDisable
    BY <2>23 DEF HostTimeoutDisable, RecordFault
  <2>24. CASE MotionEnds
    BY <2>24 DEF MotionEnds
  <2>25. CASE Tick
    BY <2>25 DEF Tick
  <2>26. CASE UNCHANGED vars
    BY <2>26 DEF vars
  <2> QED
    BY <2>1, <2>2, <2>3, <2>4, <2>5, <2>6, <2>7, <2>8, <2>9, <2>10, <2>11,
       <2>12, <2>13, <2>14, <2>15, <2>16, <2>17, <2>18, <2>19, <2>20, <2>21,
       <2>22, <2>23, <2>24, <2>25, <2>26
    DEF Next, MotionCommand, ModeCommand, ConfigCommand, Update
<1> QED
  BY <1>1, <1>2, TypeCorrect, PTL DEF Spec

-----------------------------------------------------------------------------

(* The steps that touch neither the generation nor the newest record.       *)
LEMMA GenerationSteps ==
  ASSUME Next, ~SaveConfig, ~ResetDefaults, ~Reboot
  PROVE  UNCHANGED <<generation, stored>>
<1> USE DEF configVars, storage
<1>1. AnswerOnly => UNCHANGED <<generation, stored>>
  BY DEF AnswerOnly
<1>2. Estop => UNCHANGED <<generation, stored>>
  BY DEF Estop
<1>3. RampStop => UNCHANGED <<generation, stored>>
  BY DEF RampStop
<1>4. Move => UNCHANGED <<generation, stored>>
  BY DEF Move
<1>5. MoveBeyondLimit => UNCHANGED <<generation, stored>>
  BY DEF MoveBeyondLimit
<1>6. RunVelocity => UNCHANGED <<generation, stored>>
  BY DEF RunVelocity
<1>7. Disable => UNCHANGED <<generation, stored>>
  BY DEF Disable
<1>8. ASSUME NEW mode \in ControlModes, Enable(mode) PROVE UNCHANGED <<generation, stored>>
  BY <1>8 DEF Enable
<1>9. ASSUME NEW mode \in ControlModes, EnableFails(mode) PROVE UNCHANGED <<generation, stored>>
  BY <1>9 DEF EnableFails
<1>10. ClearFaults => UNCHANGED <<generation, stored>>
  BY DEF ClearFaults
<1>11. UnsupportedCommand => UNCHANGED <<generation, stored>>
  BY DEF UnsupportedCommand
<1>12. DriverUartFails => UNCHANGED <<generation, stored>>
  BY DEF DriverUartFails
<1>13. StageField => UNCHANGED <<generation, stored>>
  BY DEF StageField
<1>14. ApplyConfig => UNCHANGED <<generation, stored>>
  BY DEF ApplyConfig
<1>15. ApplyFails => UNCHANGED <<generation, stored>>
  BY DEF ApplyFails
<1>18. ASSUME NEW interval \in Intervals, SetTelemRate(interval) PROVE UNCHANGED <<generation, stored>>
  BY <1>18 DEF SetTelemRate
<1>20. ASSUME NEW error \in FrameErrors, RecordFrameError(error) PROVE UNCHANGED <<generation, stored>>
  BY <1>20 DEF RecordFrameError
<1>21. MotionFinished => UNCHANGED <<generation, stored>>
  BY DEF MotionFinished
<1>22. HostTimeoutRamp => UNCHANGED <<generation, stored>>
  BY DEF HostTimeoutRamp
<1>23. HostTimeoutDisable => UNCHANGED <<generation, stored>>
  BY DEF HostTimeoutDisable
<1>24. MotionEnds => UNCHANGED <<generation, stored>>
  BY DEF MotionEnds
<1>25. Tick => UNCHANGED <<generation, stored>>
  BY DEF Tick
<1> QED
  BY <1>1, <1>2, <1>3, <1>4, <1>5, <1>6, <1>7, <1>8, <1>9, <1>10, <1>11,
     <1>12, <1>13, <1>14, <1>15, <1>18, <1>20, <1>21, <1>22, <1>23, <1>24, <1>25
  DEF Next, MotionCommand, ModeCommand, ConfigCommand, Update

(* A save that succeeds counts in both places, and a reboot brings them     *)
(* together; what a reset that stops half way leaves is no newer than what  *)
(* was there, because the other slot is the older one (TypeOK).             *)
THEOREM BehindByFailedSave == Spec => BehindOnlyByFailedSave
<1> DEFINE SaveFailed == /\ Behind' = Behind + 1
                         /\ "CONFIG_STORAGE" \in faults' /\ state' = "FAULTED"
                         /\ stored' = NewRecord
<1>1. TypeOK /\ TypeOK' /\ [Next]_vars => [Behind' > Behind => SaveFailed]_vars
  <2> SUFFICES ASSUME TypeOK, TypeOK', Next, Behind' > Behind
               PROVE  SaveFailed
    OBVIOUS
  <2>0. /\ generation \in Nat /\ generation' \in Nat
        /\ stored # NothingStored => stored.generation \in Nat
        /\ stored' # NothingStored => stored'.generation \in Nat
    BY DEF TypeOK
  <2>1. CASE SaveConfig
    <3>1. CASE Stores /\ generation' = generation + 1
      <4>1. stored' = NewRecord
        BY <3>1 DEF Stores
      <4> QED
        BY <2>0, <3>1, <4>1, NewRecordTypes DEF Behind
    <3>2. CASE SaveCutShort /\ UNCHANGED generation /\ Raise("CONFIG_STORAGE", TRUE)
      <4>1. "CONFIG_STORAGE" \in faults' /\ state' = "FAULTED"
        BY <3>2 DEF Raise, RecordFault, Latching, Transition
      <4>2. CASE UNCHANGED stored
        BY <2>0, <3>2, <4>2 DEF Behind
      <4>3. CASE stored' = NewRecord
        <5>1. Behind' = Behind + 1
          BY <2>0, <3>2, <4>3, NewRecordTypes DEF Behind
        <5> QED
          BY <4>1, <4>3, <5>1
      <4> QED
        BY <3>2, <4>2, <4>3 DEF SaveCutShort, Stores, LosesOlder, storage
    <3> QED
      BY <2>1, <3>1, <3>2 DEF SaveConfig
  <2>2. CASE ResetDefaults
    <3>1. UNCHANGED generation
      BY <2>2 DEF ResetDefaults
    <3>2. CASE UNCHANGED stored
      BY <2>0, <3>1, <3>2 DEF Behind
    <3>3. CASE stored' = NothingStored
      BY <2>0, <3>1, <3>3 DEF Behind
    <3>4. CASE stored' = older /\ stored' # NothingStored
      <4>1. stored # NothingStored /\ stored'.generation < stored.generation
        BY <3>4 DEF TypeOK
      <4> QED
        BY <2>0, <3>1, <3>4, <4>1 DEF Behind
    <3> QED
      BY <2>2, <3>2, <3>3, <3>4
      DEF ResetDefaults, LosesOlder, ErasesNewest, ErasesAll, storage
  <2>3. CASE Reboot
    <3>1. stored' # NothingStored => generation' = stored'.generation
      BY <2>3, BootTypes DEF Reboot, BootGeneration, storage
    <3> QED
      BY <2>0, <3>1 DEF Behind
  <2>4. CASE UNCHANGED <<generation, stored>>
    BY <2>0, <2>4 DEF Behind
  <2> QED
    BY <2>1, <2>2, <2>3, <2>4, GenerationSteps
<1> QED
  BY <1>1, TypeCorrect, PTL DEF Spec, BehindOnlyByFailedSave

-----------------------------------------------------------------------------

(* The detailed firmware keeps the promise of MotorContract: what a step    *)
(* does to the power stage and the generator is a step of the contract.     *)
THEOREM KeepsMotorPromise == Spec => MotorPromise
<1>1. Init => Motor!MotorInit
  BY DEF Init, Motor!MotorInit
<1>2. OutputsTracked /\ MotionStateFaithful /\ TypeOK /\ [Next]_vars
        => [Motor!MotorNext]_(Motor!motorVars)
  <2> SUFFICES ASSUME OutputsTracked, MotionStateFaithful, TypeOK, [Next]_vars
               PROVE  Motor!MotorNext \/ UNCHANGED Motor!motorVars
    OBVIOUS
  <2> USE DEF Motor!MotorNext, Motor!motorVars, plant
  <2>1. CASE AnswerOnly
    BY <2>1 DEF AnswerOnly
  <2>2. CASE Estop
    BY <2>2 DEF Estop, Motor!CutOff
  <2>3. CASE RampStop
    BY <2>3 DEF RampStop, Slowed, Motor!Brake
  <2>4. CASE Move
    BY <2>4 DEF Move, MotionAllowed, OutputsTracked, Motor!Start
  <2>5. CASE MoveBeyondLimit
    BY <2>5 DEF MoveBeyondLimit
  <2>6. CASE RunVelocity
    BY <2>6 DEF RunVelocity, MotionAllowed, OutputsTracked, Motor!Start
  <2>7. CASE Disable
    BY <2>7 DEF Disable, Motor!DeEnergise
  <2>8. ASSUME NEW mode \in ControlModes, Enable(mode) PROVE Motor!MotorNext \/ UNCHANGED Motor!motorVars
    BY <2>8 DEF Enable, Motor!Energise
  <2>9. ASSUME NEW mode \in ControlModes, EnableFails(mode) PROVE Motor!MotorNext \/ UNCHANGED Motor!motorVars
    BY <2>9 DEF EnableFails
  <2>10. CASE ClearFaults
    BY <2>10 DEF ClearFaults
  <2>11. CASE UnsupportedCommand
    BY <2>11 DEF UnsupportedCommand
  <2>12. CASE DriverUartFails
    BY <2>12 DEF DriverUartFails
  <2>13. CASE StageField
    BY <2>13 DEF StageField
  <2>14. CASE ApplyConfig
    BY <2>14 DEF ApplyConfig
  <2>15. CASE ApplyFails
    BY <2>15 DEF ApplyFails
  <2>16. CASE SaveConfig
    BY <2>16 DEF SaveConfig
  <2>17. CASE ResetDefaults
    BY <2>17 DEF ResetDefaults
  <2>18. ASSUME NEW interval \in Intervals, SetTelemRate(interval) PROVE Motor!MotorNext \/ UNCHANGED Motor!motorVars
    BY <2>18 DEF SetTelemRate
  <2>19. CASE Reboot
    BY <2>19 DEF Reboot, Motor!CutOff
  <2>20. ASSUME NEW error \in FrameErrors, RecordFrameError(error) PROVE Motor!MotorNext \/ UNCHANGED Motor!motorVars
    BY <2>20 DEF RecordFrameError
  <2>21. CASE MotionFinished
    BY <2>21 DEF MotionFinished
  <2>22. CASE HostTimeoutRamp
    BY <2>22 DEF HostTimeoutRamp, Slowed, Motor!Brake
  <2>23. CASE HostTimeoutDisable
    BY <2>23 DEF HostTimeoutDisable, Motor!CutOff
  <2>24. CASE MotionEnds
    BY <2>24 DEF MotionEnds, Motor!Finish
  <2>25. CASE Tick
    BY <2>25 DEF Tick
  <2>26. CASE UNCHANGED vars
    BY <2>26 DEF vars
  <2> QED
    BY <2>1, <2>2, <2>3, <2>4, <2>5, <2>6, <2>7, <2>8, <2>9, <2>10, <2>11,
       <2>12, <2>13, <2>14, <2>15, <2>16, <2>17, <2>18, <2>19, <2>20, <2>21,
       <2>22, <2>23, <2>24, <2>25, <2>26
    DEF Next, MotionCommand, ModeCommand, ConfigCommand, Update
<1> QED
  BY <1>1, <1>2, OutputsAgree, MotionFaithful, TypeCorrect, PTL
  DEF Spec, MotorPromise, Motor!MotorSpec

-----------------------------------------------------------------------------
(* What no step of Actuator does. *)

LEMMA ConfigIsRecord ==
  ASSUME NEW c \in ValidConfigs
  PROVE  c \in Configs
  BY ConfigsAssumption

(* An update to the present value changes nothing. *)
LEMMA SameInterval ==
  ASSUME TypeOK
  PROVE  active = [active EXCEPT !.interval = active.interval]
  BY ConfigIsRecord DEF TypeOK, Configs

LEMMA SameField ==
  ASSUME TypeOK
  PROVE  OneFieldApart(staged, staged)
<1>1. staged \in Configs
  BY ConfigIsRecord DEF TypeOK
<1>2. "driver" \in DOMAIN staged /\ staged = [staged EXCEPT !["driver"] = staged["driver"]]
  BY <1>1 DEF Configs
<1> QED
  BY <1>2 DEF OneFieldApart

(* A fault raised with a writer is reported, and so is the transition. *)
LEMMA RecordTold ==
  ASSUME HostTold, NEW flag, RecordFault(flag, TRUE)
  PROVE  announcedFaults' = faults'
<1>1. CASE flag \in faults
  <2>1. faults \cup {flag} = faults
    BY <1>1
  <2> QED
    BY <1>1, <2>1 DEF HostTold, RecordFault
<1>2. CASE flag \notin faults
  BY <1>2 DEF RecordFault
<1> QED
  BY <1>1, <1>2

LEMMA RaiseTold ==
  ASSUME HostTold, NEW flag, Raise(flag, TRUE)
  PROVE  HostTold'
<1>1. announcedFaults' = faults'
  BY RecordTold DEF Raise
<1>2. announcedState' = state'
  BY DEF HostTold, Raise, Transition
<1> QED
  BY <1>1, <1>2 DEF HostTold

(* A new telemetry interval is one field of the record. *)
LEMMA IntervalIsField ==
  ASSUME NEW c \in Configs, NEW interval \in Intervals,
         NEW d, d = [c EXCEPT !.interval = interval]
  PROVE  OneFieldApart(c, d)
<1>1. "interval" \in DOMAIN c
  BY DEF Configs
<1>2. d["interval"] = interval
  BY DEF Configs
<1>3. d = [c EXCEPT !["interval"] = d["interval"]]
  BY <1>2
<1> QED
  BY <1>1, <1>3 DEF OneFieldApart

(* The event stream is complete but for frame errors: set_fault and         *)
(* transition_to report what they change, and nothing changes without them.  *)
THEOREM EventsOnlyMissFrames == Spec => EventsReported
<1>1. [Next]_vars => [HostTold => (HostTold' \/ \E error \in FrameErrors : RecordFrameError(error))]_vars
  <2> SUFFICES ASSUME Next, HostTold
               PROVE  HostTold' \/ \E error \in FrameErrors : RecordFrameError(error)
    OBVIOUS
  <2>1. CASE AnswerOnly
    BY <2>1 DEF AnswerOnly, Transition, HostTold, announced
  <2>2. CASE Estop
    BY <2>2 DEF Estop, Transition, HostTold, announced
  <2>3. CASE RampStop
    <3>1. CASE Raise("DRIVER", TRUE)
      BY <3>1, RaiseTold
    <3>2. CASE ~Raise("DRIVER", TRUE)
      BY <2>3, <3>2 DEF RampStop, Transition, HostTold, announced
    <3> QED
      BY <3>1, <3>2
  <2>4. CASE Move
    <3>1. CASE Raise("DRIVER", TRUE)
      BY <3>1, RaiseTold
    <3>2. CASE ~Raise("DRIVER", TRUE)
      BY <2>4, <3>2 DEF Move, Transition, HostTold, announced
    <3> QED
      BY <3>1, <3>2
  <2>5. CASE MoveBeyondLimit
    BY <2>5, RaiseTold DEF MoveBeyondLimit
  <2>6. CASE RunVelocity
    <3>1. CASE Raise("DRIVER", TRUE)
      BY <3>1, RaiseTold
    <3>2. CASE ~Raise("DRIVER", TRUE)
      BY <2>6, <3>2 DEF RunVelocity, Transition, HostTold, announced
    <3> QED
      BY <3>1, <3>2
  <2>7. CASE Disable
    BY <2>7 DEF Disable, Transition, HostTold, announced
  <2>8. ASSUME NEW mode \in ControlModes, Enable(mode) PROVE HostTold'
    BY <2>8 DEF Enable, Transition, HostTold, announced
  <2>9. ASSUME NEW mode \in ControlModes, EnableFails(mode) PROVE HostTold'
    BY <2>9, RaiseTold DEF EnableFails
  <2>10. CASE ClearFaults
    BY <2>10 DEF ClearFaults, Transition, HostTold, announced
  <2>11. CASE UnsupportedCommand
    BY <2>11, RaiseTold DEF UnsupportedCommand
  <2>12. CASE DriverUartFails
    BY <2>12, RaiseTold DEF DriverUartFails
  <2>13. CASE StageField
    BY <2>13 DEF StageField, Transition, HostTold, announced
  <2>14. CASE ApplyConfig
    BY <2>14 DEF ApplyConfig, Transition, HostTold, announced
  <2>15. CASE ApplyFails
    BY <2>15, RaiseTold DEF ApplyFails
  <2>16. CASE SaveConfig
    <3>1. CASE Raise("CONFIG_STORAGE", TRUE)
      BY <3>1, RaiseTold
    <3>2. CASE ~Raise("CONFIG_STORAGE", TRUE)
      BY <2>16, <3>2 DEF SaveConfig, Transition, HostTold, announced
    <3> QED
      BY <3>1, <3>2
  <2>17. CASE ResetDefaults
    <3>1. CASE Raise("DRIVER", TRUE) \/ Raise("CONFIG_STORAGE", TRUE)
      BY <3>1, RaiseTold
    <3>2. CASE ~(Raise("DRIVER", TRUE) \/ Raise("CONFIG_STORAGE", TRUE))
      BY <2>17, <3>2 DEF ResetDefaults, HostTold, announced
    <3> QED
      BY <3>1, <3>2
  <2>18. ASSUME NEW interval \in Intervals, SetTelemRate(interval) PROVE HostTold'
    BY <2>18 DEF SetTelemRate, Transition, HostTold, announced
  <2>19. CASE Reboot
    BY <2>19 DEF Reboot, Transition, HostTold, announced
  <2>20. CASE \E error \in FrameErrors : RecordFrameError(error)
    BY <2>20
  <2>21. CASE MotionFinished
    BY <2>21 DEF MotionFinished, Transition, HostTold, announced
  <2>22. CASE HostTimeoutRamp
    BY <2>22, RecordTold DEF HostTimeoutRamp, Transition, HostTold
  <2>23. CASE HostTimeoutDisable
    BY <2>23, RecordTold DEF HostTimeoutDisable, Transition, HostTold
  <2>24. CASE MotionEnds
    BY <2>24 DEF MotionEnds, Transition, HostTold, announced
  <2>25. CASE Tick
    BY <2>25 DEF Tick, Transition, HostTold, announced
  <2> QED
    BY <2>1, <2>2, <2>3, <2>4, <2>5, <2>6, <2>7, <2>8, <2>9, <2>10, <2>11,
       <2>12, <2>13, <2>14, <2>15, <2>16, <2>17, <2>18, <2>19, <2>20, <2>21,
       <2>22, <2>23, <2>24, <2>25
    DEF Next, MotionCommand, ModeCommand, ConfigCommand, Update
<1> QED
  BY <1>1, PTL DEF Spec, EventsReported

-----------------------------------------------------------------------------

(* The watchdog loses a velocity run only to a fault or to CLEAR_FAULTS,    *)
(* on a backend whose ramp_stop does not fail.                              *)
THEOREM RunawayNeedsFault ==
  ASSUME "ramp" \notin MayFail
  PROVE  Spec => RunawayOnlyByFault
<1>1. [Next]_vars => [~Runaway /\ Runaway' => (state' = "FAULTED" \/ ClearFaults)]_vars
  <2> SUFFICES ASSUME Next, ~Runaway, Runaway'
               PROVE  state' = "FAULTED" \/ ClearFaults
    OBVIOUS
  <2> USE DEF Runaway, plant
  <2>1. CASE AnswerOnly
    BY <2>1 DEF AnswerOnly
  <2>2. CASE Estop
    BY <2>2 DEF Estop, Transition, InMotionState, MotionStates
  <2>3. CASE RampStop
    BY <2>3 DEF RampStop, Raise, Latching, Transition, RecordFault, Slowed, InMotionState, MotionStates
  <2>4. CASE Move
    BY <2>4 DEF Move, Raise, Latching, Transition, RecordFault, Slowed, InMotionState, MotionStates
  <2>5. CASE MoveBeyondLimit
    BY <2>5 DEF MoveBeyondLimit, Raise, Latching
  <2>6. CASE RunVelocity
    BY <2>6 DEF RunVelocity, Raise, Latching, Transition, RecordFault, Slowed, InMotionState, MotionStates
  <2>7. CASE Disable
    BY <2>7 DEF Disable, Transition, InMotionState, MotionStates
  <2>8. ASSUME NEW mode \in ControlModes, Enable(mode) PROVE state' = "FAULTED" \/ ClearFaults
    BY <2>8 DEF Enable, Transition, InMotionState, MotionStates
  <2>9. ASSUME NEW mode \in ControlModes, EnableFails(mode) PROVE state' = "FAULTED" \/ ClearFaults
    BY <2>9 DEF EnableFails, Raise, Latching, Transition, RecordFault, Slowed, InMotionState, MotionStates
  <2>10. CASE ClearFaults
    BY <2>10
  <2>11. CASE UnsupportedCommand
    BY <2>11 DEF UnsupportedCommand, Raise, Latching, Transition, RecordFault, Slowed, InMotionState, MotionStates
  <2>12. CASE DriverUartFails
    BY <2>12 DEF DriverUartFails, Raise, Latching, Transition, RecordFault, Slowed, InMotionState, MotionStates
  <2>13. CASE StageField
    BY <2>13 DEF StageField, Transition, InMotionState, MotionStates
  <2>14. CASE ApplyConfig
    BY <2>14 DEF ApplyConfig, Transition, InMotionState, MotionStates
  <2>15. CASE ApplyFails
    BY <2>15 DEF ApplyFails, Raise, Latching, Transition, RecordFault, Slowed, InMotionState, MotionStates
  <2>16. CASE SaveConfig
    BY <2>16 DEF SaveConfig, Raise, Latching, Transition, RecordFault, Slowed, InMotionState, MotionStates
  <2>17. CASE ResetDefaults
    BY <2>17 DEF ResetDefaults, Raise, Latching, Transition, RecordFault, Slowed, InMotionState, MotionStates
  <2>18. ASSUME NEW interval \in Intervals, SetTelemRate(interval) PROVE state' = "FAULTED" \/ ClearFaults
    BY <2>18 DEF SetTelemRate
  <2>19. CASE Reboot
    BY <2>19 DEF Reboot
  <2>20. ASSUME NEW error \in FrameErrors, RecordFrameError(error)
        PROVE  state' = "FAULTED" \/ ClearFaults
    BY <2>20, EnvironmentAssumption DEF RecordFrameError, Raise, Latching, Transition
  <2>21. CASE MotionFinished
    BY <2>21 DEF MotionFinished, Transition, InMotionState, MotionStates
  <2>22. CASE HostTimeoutRamp
    BY <2>22 DEF HostTimeoutRamp, Transition, Slowed, Outcome
  <2>23. CASE HostTimeoutDisable
    BY <2>23 DEF HostTimeoutDisable
  <2>24. CASE MotionEnds
    BY <2>24 DEF MotionEnds
  <2>25. CASE Tick
    BY <2>25 DEF Tick
  <2> QED
    BY <2>1, <2>2, <2>3, <2>4, <2>5, <2>6, <2>7, <2>8, <2>9, <2>10, <2>11,
       <2>12, <2>13, <2>14, <2>15, <2>16, <2>17, <2>18, <2>19, <2>20, <2>21,
       <2>22, <2>23, <2>24, <2>25
    DEF Next, MotionCommand, ModeCommand, ConfigCommand, Update
<1> QED
  BY <1>1, PTL DEF Spec, RunawayOnlyByFault

-----------------------------------------------------------------------------

(* SET_CONTROL_MODE is the one way to switch the power stage on.            *)
THEOREM EnableNeedsConfigure == Spec => EnableOnlyConfigured
<1>1. [Next]_vars => [~outputs /\ outputs' => chip' = active'.driver]_vars
  <2> SUFFICES ASSUME Next, ~outputs, outputs'
               PROVE  chip' = active'.driver
    OBVIOUS
  <2> USE DEF configVars, plant
  <2>1. CASE AnswerOnly
    BY <2>1 DEF AnswerOnly
  <2>2. CASE Estop
    BY <2>2 DEF Estop
  <2>3. CASE RampStop
    BY <2>3 DEF RampStop
  <2>4. CASE Move
    BY <2>4 DEF Move
  <2>5. CASE MoveBeyondLimit
    BY <2>5 DEF MoveBeyondLimit
  <2>6. CASE RunVelocity
    BY <2>6 DEF RunVelocity
  <2>7. CASE Disable
    BY <2>7 DEF Disable
  <2>8. ASSUME NEW mode \in ControlModes, Enable(mode) PROVE chip' = active'.driver
    BY <2>8 DEF Enable
  <2>9. ASSUME NEW mode \in ControlModes, EnableFails(mode) PROVE chip' = active'.driver
    BY <2>9 DEF EnableFails
  <2>10. CASE ClearFaults
    BY <2>10 DEF ClearFaults
  <2>11. CASE UnsupportedCommand
    BY <2>11 DEF UnsupportedCommand
  <2>12. CASE DriverUartFails
    BY <2>12 DEF DriverUartFails
  <2>13. CASE StageField
    BY <2>13 DEF StageField
  <2>14. CASE ApplyConfig
    BY <2>14 DEF ApplyConfig
  <2>15. CASE ApplyFails
    BY <2>15 DEF ApplyFails
  <2>16. CASE SaveConfig
    BY <2>16 DEF SaveConfig
  <2>17. CASE ResetDefaults
    BY <2>17 DEF ResetDefaults
  <2>18. ASSUME NEW interval \in Intervals, SetTelemRate(interval) PROVE chip' = active'.driver
    BY <2>18 DEF SetTelemRate
  <2>19. CASE Reboot
    BY <2>19 DEF Reboot
  <2>20. ASSUME NEW error \in FrameErrors, RecordFrameError(error) PROVE chip' = active'.driver
    BY <2>20 DEF RecordFrameError
  <2>21. CASE MotionFinished
    BY <2>21 DEF MotionFinished
  <2>22. CASE HostTimeoutRamp
    BY <2>22 DEF HostTimeoutRamp
  <2>23. CASE HostTimeoutDisable
    BY <2>23 DEF HostTimeoutDisable
  <2>24. CASE MotionEnds
    BY <2>24 DEF MotionEnds
  <2>25. CASE Tick
    BY <2>25 DEF Tick
  <2> QED
    BY <2>1, <2>2, <2>3, <2>4, <2>5, <2>6, <2>7, <2>8, <2>9, <2>10, <2>11,
       <2>12, <2>13, <2>14, <2>15, <2>16, <2>17, <2>18, <2>19, <2>20, <2>21,
       <2>22, <2>23, <2>24, <2>25
    DEF Next, MotionCommand, ModeCommand, ConfigCommand, Update
<1> QED
  BY <1>1, PTL DEF Spec, EnableOnlyConfigured

-----------------------------------------------------------------------------

(* Every handler that changes the chip or the active driver settings makes  *)
(* them agree or raises DRIVER.                                             *)
THEOREM ChipFollowsConfig == Spec => ChipFaultReported
<1>1. TypeOK /\ [Next]_vars => [chip = active.driver /\ chip' # active'.driver => "DRIVER" \in faults']_vars
  <2> SUFFICES ASSUME TypeOK, Next, chip = active.driver, chip' # active'.driver
               PROVE  "DRIVER" \in faults'
    OBVIOUS
  <2> USE DEF configVars, plant
  <2>1. CASE AnswerOnly
    BY <2>1 DEF AnswerOnly
  <2>2. CASE Estop
    BY <2>2 DEF Estop
  <2>3. CASE RampStop
    BY <2>3 DEF RampStop
  <2>4. CASE Move
    BY <2>4 DEF Move
  <2>5. CASE MoveBeyondLimit
    BY <2>5 DEF MoveBeyondLimit
  <2>6. CASE RunVelocity
    BY <2>6 DEF RunVelocity
  <2>7. CASE Disable
    BY <2>7 DEF Disable
  <2>8. ASSUME NEW mode \in ControlModes, Enable(mode) PROVE "DRIVER" \in faults'
    BY <2>8 DEF Enable
  <2>9. ASSUME NEW mode \in ControlModes, EnableFails(mode) PROVE "DRIVER" \in faults'
    BY <2>9 DEF EnableFails, Raise, RecordFault
  <2>10. CASE ClearFaults
    BY <2>10 DEF ClearFaults
  <2>11. CASE UnsupportedCommand
    BY <2>11 DEF UnsupportedCommand
  <2>12. CASE DriverUartFails
    BY <2>12 DEF DriverUartFails
  <2>13. CASE StageField
    BY <2>13 DEF StageField
  <2>14. CASE ApplyConfig
    BY <2>14 DEF ApplyConfig, DriverChanged
  <2>15. CASE ApplyFails
    BY <2>15 DEF ApplyFails, Raise, RecordFault
  <2>16. CASE SaveConfig
    BY <2>16 DEF SaveConfig
  <2>17. CASE ResetDefaults
    BY <2>17 DEF ResetDefaults, Raise, RecordFault
  <2>18. ASSUME NEW interval \in Intervals, SetTelemRate(interval) PROVE "DRIVER" \in faults'
    BY <2>18, ConfigsAssumption, ConfigTypes DEF SetTelemRate, TypeOK
  <2>19. CASE Reboot
    BY <2>19 DEF Reboot, BootFaults, Outcome
  <2>20. ASSUME NEW error \in FrameErrors, RecordFrameError(error) PROVE "DRIVER" \in faults'
    BY <2>20 DEF RecordFrameError
  <2>21. CASE MotionFinished
    BY <2>21 DEF MotionFinished
  <2>22. CASE HostTimeoutRamp
    BY <2>22 DEF HostTimeoutRamp
  <2>23. CASE HostTimeoutDisable
    BY <2>23 DEF HostTimeoutDisable
  <2>24. CASE MotionEnds
    BY <2>24 DEF MotionEnds
  <2>25. CASE Tick
    BY <2>25 DEF Tick
  <2> QED
    BY <2>1, <2>2, <2>3, <2>4, <2>5, <2>6, <2>7, <2>8, <2>9, <2>10, <2>11,
       <2>12, <2>13, <2>14, <2>15, <2>16, <2>17, <2>18, <2>19, <2>20, <2>21,
       <2>22, <2>23, <2>24, <2>25
    DEF Next, MotionCommand, ModeCommand, ConfigCommand, Update
<1> QED
  BY <1>1, TypeCorrect, PTL DEF Spec, ChipFaultReported

-----------------------------------------------------------------------------

(* In motion the driver settings and the active configuration stay.         *)
THEOREM ConfigFrozen == Spec => ConfigFrozenInMotion
<1>1. TypeOK /\ [Next]_vars => [(state \in MotionStates) => (OnlyRateChanges \/ Reboot)]_vars
  <2> SUFFICES ASSUME TypeOK, Next, (state \in MotionStates)
               PROVE  OnlyRateChanges \/ Reboot
    OBVIOUS
  <2> USE DEF configVars, plant, OnlyRateChanges
  <2>1. CASE AnswerOnly
    BY <2>1, SameInterval DEF AnswerOnly
  <2>2. CASE Estop
    BY <2>2, SameInterval DEF Estop
  <2>3. CASE RampStop
    BY <2>3, SameInterval DEF RampStop
  <2>4. CASE Move
    BY <2>4, SameInterval DEF Move
  <2>5. CASE MoveBeyondLimit
    BY <2>5, SameInterval DEF MoveBeyondLimit
  <2>6. CASE RunVelocity
    BY <2>6, SameInterval DEF RunVelocity
  <2>7. CASE Disable
    BY <2>7 DEF Disable, InMotionState
  <2>8. ASSUME NEW mode \in ControlModes, Enable(mode) PROVE OnlyRateChanges \/ Reboot
    BY <2>8 DEF Enable, InMotionState
  <2>9. ASSUME NEW mode \in ControlModes, EnableFails(mode) PROVE OnlyRateChanges \/ Reboot
    BY <2>9 DEF EnableFails, InMotionState
  <2>10. CASE ClearFaults
    BY <2>10, SameInterval DEF ClearFaults
  <2>11. CASE UnsupportedCommand
    BY <2>11, SameInterval DEF UnsupportedCommand
  <2>12. CASE DriverUartFails
    BY <2>12, SameInterval DEF DriverUartFails
  <2>13. CASE StageField
    BY <2>13, SameInterval DEF StageField
  <2>14. CASE ApplyConfig
    BY <2>14 DEF ApplyConfig, InMotionState
  <2>15. CASE ApplyFails
    BY <2>15 DEF ApplyFails, InMotionState
  <2>16. CASE SaveConfig
    BY <2>16, SameInterval DEF SaveConfig
  <2>17. CASE ResetDefaults
    BY <2>17 DEF ResetDefaults, InMotionState
  <2>18. ASSUME NEW interval \in Intervals, SetTelemRate(interval) PROVE OnlyRateChanges \/ Reboot
    BY <2>18 DEF SetTelemRate, TypeOK, Configs
  <2>19. CASE Reboot
    BY <2>19 DEF Reboot
  <2>20. ASSUME NEW error \in FrameErrors, RecordFrameError(error) PROVE OnlyRateChanges \/ Reboot
    BY <2>20, SameInterval DEF RecordFrameError
  <2>21. CASE MotionFinished
    BY <2>21, SameInterval DEF MotionFinished
  <2>22. CASE HostTimeoutRamp
    BY <2>22, SameInterval DEF HostTimeoutRamp
  <2>23. CASE HostTimeoutDisable
    BY <2>23, SameInterval DEF HostTimeoutDisable
  <2>24. CASE MotionEnds
    BY <2>24, SameInterval DEF MotionEnds
  <2>25. CASE Tick
    BY <2>25, SameInterval DEF Tick
  <2> QED
    BY <2>1, <2>2, <2>3, <2>4, <2>5, <2>6, <2>7, <2>8, <2>9, <2>10, <2>11,
       <2>12, <2>13, <2>14, <2>15, <2>16, <2>17, <2>18, <2>19, <2>20, <2>21,
       <2>22, <2>23, <2>24, <2>25
    DEF Next, MotionCommand, ModeCommand, ConfigCommand, Update
<1> QED
  BY <1>1, TypeCorrect, PTL DEF Spec, ConfigFrozenInMotion

-----------------------------------------------------------------------------

(* A later edit starts from the earlier ones.                               *)
THEOREM StagedEditsBuild == Spec => StagedEditsKept
<1>1. TypeOK /\ [Next]_vars => [configStaged /\ configStaged' => OneFieldApart(staged, staged')]_vars
  <2> SUFFICES ASSUME TypeOK, Next, configStaged, configStaged'
               PROVE  OneFieldApart(staged, staged')
    OBVIOUS
  <2> USE DEF configVars
  <2>1. CASE AnswerOnly
    BY <2>1, SameField DEF AnswerOnly
  <2>2. CASE Estop
    BY <2>2, SameField DEF Estop
  <2>3. CASE RampStop
    BY <2>3, SameField DEF RampStop
  <2>4. CASE Move
    BY <2>4, SameField DEF Move
  <2>5. CASE MoveBeyondLimit
    BY <2>5, SameField DEF MoveBeyondLimit
  <2>6. CASE RunVelocity
    BY <2>6, SameField DEF RunVelocity
  <2>7. CASE Disable
    BY <2>7, SameField DEF Disable
  <2>8. ASSUME NEW mode \in ControlModes, Enable(mode) PROVE OneFieldApart(staged, staged')
    BY <2>8, SameField DEF Enable
  <2>9. ASSUME NEW mode \in ControlModes, EnableFails(mode) PROVE OneFieldApart(staged, staged')
    BY <2>9, SameField DEF EnableFails
  <2>10. CASE ClearFaults
    BY <2>10, SameField DEF ClearFaults
  <2>11. CASE UnsupportedCommand
    BY <2>11, SameField DEF UnsupportedCommand
  <2>12. CASE DriverUartFails
    BY <2>12, SameField DEF DriverUartFails
  <2>13. CASE StageField
    BY <2>13 DEF StageField, Candidate
  <2>14. CASE ApplyConfig
    BY <2>14 DEF ApplyConfig
  <2>15. CASE ApplyFails
    BY <2>15, SameField DEF ApplyFails
  <2>16. CASE SaveConfig
    BY <2>16, SameField DEF SaveConfig
  <2>17. CASE ResetDefaults
    BY <2>17 DEF ResetDefaults
  <2>18. ASSUME NEW interval \in Intervals, SetTelemRate(interval) PROVE OneFieldApart(staged, staged')
    BY <2>18, ConfigIsRecord, IntervalIsField DEF SetTelemRate, TypeOK
  <2>19. CASE Reboot
    BY <2>19 DEF Reboot
  <2>20. ASSUME NEW error \in FrameErrors, RecordFrameError(error) PROVE OneFieldApart(staged, staged')
    BY <2>20, SameField DEF RecordFrameError
  <2>21. CASE MotionFinished
    BY <2>21, SameField DEF MotionFinished
  <2>22. CASE HostTimeoutRamp
    BY <2>22, SameField DEF HostTimeoutRamp
  <2>23. CASE HostTimeoutDisable
    BY <2>23, SameField DEF HostTimeoutDisable
  <2>24. CASE MotionEnds
    BY <2>24, SameField DEF MotionEnds
  <2>25. CASE Tick
    BY <2>25, SameField DEF Tick
  <2> QED
    BY <2>1, <2>2, <2>3, <2>4, <2>5, <2>6, <2>7, <2>8, <2>9, <2>10, <2>11,
       <2>12, <2>13, <2>14, <2>15, <2>16, <2>17, <2>18, <2>19, <2>20, <2>21,
       <2>22, <2>23, <2>24, <2>25
    DEF Next, MotionCommand, ModeCommand, ConfigCommand, Update
<1> QED
  BY <1>1, TypeCorrect, PTL DEF Spec, StagedEditsKept

=============================================================================
