---------------------------- MODULE ConfigStore -----------------------------
(***************************************************************************)
(* The two-slot configuration storage, firmware/src/config_store.cpp, over *)
(* the NVS keys of firmware/platforms/esp32_arduino/src/main.cpp.          *)
(*                                                                         *)
(* A save writes one slot key by key; a key write is atomic, may fail, and *)
(* may have been carried out although it failed; the power may fail        *)
(* between any two of them.  A payload is named by the configuration it    *)
(* encodes and a checksum by the payload it was taken of, so two different *)
(* payloads never collide under the CRC.                                   *)
(***************************************************************************)
EXTENDS Integers

CONSTANTS
  Configs,        (* the configurations the actuator saves                 *)
  Nothing,        (* an absent key, or no configuration                    *)
  Garbage,        (* a payload that rotted                                 *)
  GenModulus,     (* generations are counted modulo this; 2^32 in the code *)
  ReadFailures,   (* sets of slots that can be unreadable at a save        *)
  UnmarkMayFail,  (* taking the valid marker away can fail, unnoticed      *)
  MaxDamage       (* bound: how often a slot rots                          *)

ASSUME StoreAssumption ==
  /\ GenModulus \in Nat
  /\ GenModulus >= 4
  /\ GenModulus % 2 = 0
  /\ Nothing \notin Configs
  /\ Garbage \notin Configs \cup {Nothing}
  /\ ReadFailures \subseteq SUBSET {0, 1}
  /\ {} \in ReadFailures
  /\ UnmarkMayFail \in BOOLEAN
  /\ MaxDamage \in Nat

VARIABLES
  nvs,       (* the keys of each slot: valid marker, meta, payload         *)
  call,      (* the operation under way                                    *)
  step,      (* the key the save writes next                               *)
  target,    (* the slot it writes                                         *)
  reply,     (* how the last operation was reported                        *)
  damage,    (* how often a slot has rotted                                *)
  streak,    (* saves done in a row since the last mishap, at most two     *)
  promise    (* what still holds of the contents (ConfigRegister)          *)

progress == <<call, step, target>>
vars == <<nvs, progress, reply, damage, streak, promise>>

Slots == {0, 1}
Generations == 0..GenModulus - 1
Headers == [generation : Generations, sum : Configs]

(* No record is taken for an absent key or an empty storage. *)
ASSUME NothingAssumption ==
  Nothing \notin Headers \cup [config : Configs, generation : Generations]

NoCall == [op |-> "none"]

-----------------------------------------------------------------------------

(* decode_slot *)
Decodes(slot) ==
  /\ nvs[slot].valid
  /\ nvs[slot].meta # Nothing
  /\ nvs[slot].meta.sum = nvs[slot].payload

(* config_store_generation_newer: a signed look at the wrapped difference. *)
Newer(candidate, current) ==
  (candidate - current) % GenModulus \in 1..(GenModulus \div 2) - 1

Generation(slot) == nvs[slot].meta.generation

(* The scan both config_store_load and config_store_save make. *)
NewestOf(valid) ==
  CASE valid = {} -> Nothing
    [] valid = {0} -> 0
    [] valid = {1} -> 1
    [] OTHER -> IF Newer(Generation(1), Generation(0)) THEN 1 ELSE 0

ValidSlots == {slot \in Slots : Decodes(slot)}

(* config_store_load *)
Load ==
  IF ValidSlots = {} THEN Nothing
  ELSE LET newest == NewestOf(ValidSlots)
       IN  [config |-> nvs[newest].payload, generation |-> Generation(newest)]

(* Always the first slot; and the slot in use instead of the other one. *)
TargetSlotFirst(valid) == 0

TargetSlotInUse(valid) ==
  CASE 0 \notin valid -> 0
    [] 0 \in valid /\ 1 \notin valid -> 1
    [] OTHER -> NewestOf(valid)

TargetSlot(valid) ==
  CASE 0 \notin valid -> 0
    [] 0 \in valid /\ 1 \notin valid -> 1
    [] OTHER -> 1 - NewestOf(valid)

(* Counting without the wrap; and counting on from slot 0 whenever it is   *)
(* valid.                                                                  *)
NextGenerationUnwrapped(valid) ==
  IF valid = {} THEN 1 ELSE Generation(NewestOf(valid)) + 1

NextGenerationOfFirst(valid) ==
  CASE valid = {} -> 1
    [] 0 \in valid -> (Generation(0) + 1) % GenModulus
    [] OTHER -> (Generation(1) + 1) % GenModulus

NextGeneration(valid) ==
  IF valid = {} THEN 1 ELSE (Generation(NewestOf(valid)) + 1) % GenModulus

-----------------------------------------------------------------------------

EmptySlot == [valid |-> FALSE, meta |-> Nothing, payload |-> Nothing]

Init ==
  /\ nvs = [slot \in Slots |-> EmptySlot]
  /\ call = NoCall
  /\ step = "none"
  /\ target = 0
  /\ reply = "none"
  /\ damage = 0
  /\ streak = 0
  /\ promise = "register"

Idle == call = NoCall

Mishap == streak' = 0

(* config_store_save up to the write: scan, choose the slot, number it. *)
StartSave(config) ==
  /\ Idle
  /\ \E unreadable \in ReadFailures :
       LET valid == ValidSlots \ unreadable
       IN  /\ call' = [op |-> "save", config |-> config,
                       generation |-> NextGeneration(valid)]
           /\ target' = TargetSlot(valid)
           /\ promise' = IF valid = ValidSlots THEN promise ELSE "nothing"
  /\ step' = "unmark"
  /\ reply' = "none"
  /\ UNCHANGED <<nvs, damage, streak>>

Return(answer) ==
  /\ call' = NoCall
  /\ step' = "none"
  /\ reply' = answer
  /\ UNCHANGED <<target, damage, promise>>

Put(key, value) == nvs' = [nvs EXCEPT ![target][key] = value]

(* putUInt(valid, 0): its result is not looked at.  A marker that stays on *)
(* a header whose payload is gone lets that header count again as soon as   *)
(* the payload it was made for is written.                                  *)
Unmark ==
  /\ step = "unmark"
  /\ \/ Put("valid", FALSE) /\ UNCHANGED promise
     \/ /\ UnmarkMayFail
        /\ promise' = IF promise = "register" /\ nvs[target].valid /\ ~Decodes(target)
                        THEN "contents" ELSE promise
        /\ UNCHANGED nvs
  /\ step' = "payload"
  /\ UNCHANGED <<call, target, reply, damage, streak>>

(* One of the writes whose failure ends the save. *)
WriteKey(key, value, next) ==
  \/ /\ Put(key, value)
     /\ step' = next
     /\ UNCHANGED <<call, target, reply, damage, streak, promise>>
  \/ /\ Put(key, value) \/ UNCHANGED nvs
     /\ Return("failed")
     /\ Mishap

WritePayload ==
  /\ step = "payload"
  /\ WriteKey("payload", call.config, "meta")

WriteMeta ==
  /\ step = "meta"
  /\ WriteKey("meta", [generation |-> call.generation, sum |-> call.config], "mark")

(* The last write taken for done whatever putUInt says. *)
WriteMarkerUnchecked ==
  /\ step = "mark"
  /\ Put("valid", TRUE) \/ UNCHANGED nvs
  /\ step' = "done"
  /\ UNCHANGED <<call, target, reply, damage, streak, promise>>

WriteMarker ==
  /\ step = "mark"
  /\ WriteKey("valid", TRUE, "done")

SaveDone ==
  /\ step = "done"
  /\ Return("ok")
  /\ streak' = IF streak < 2 THEN streak + 1 ELSE 2
  /\ UNCHANGED nvs

(* The namespace cannot be opened: a save or a clear fails at once. *)
OpenFails ==
  /\ Idle
  /\ reply' = "failed"
  /\ UNCHANGED <<nvs, progress, damage, streak, promise>>

(* config_store_clear: Preferences.clear erases the keys one by one. *)
StartClear ==
  /\ Idle
  /\ call' = [op |-> "clear"]
  /\ reply' = "none"
  /\ Mishap
  /\ UNCHANGED <<nvs, step, target, damage, promise>>

EraseKey(slot, key) ==
  /\ call.op = "clear"
  /\ nvs[slot][key] # EmptySlot[key]
  /\ nvs' = [nvs EXCEPT ![slot][key] = EmptySlot[key]]
  /\ UNCHANGED <<progress, reply, damage, streak, promise>>

ClearDone ==
  /\ call.op = "clear"
  /\ \/ nvs = [slot \in Slots |-> EmptySlot] /\ Return("ok")
     \/ Return("failed")
  /\ UNCHANGED <<nvs, streak>>

(* A reset wherever the operation stands; what is in the keys stays. *)
PowerFails ==
  /\ ~Idle
  /\ call' = NoCall
  /\ step' = "none"
  /\ reply' = "none"
  /\ Mishap
  /\ UNCHANGED <<nvs, target, damage, promise>>

SlotRots(slot) ==
  /\ Idle
  /\ damage < MaxDamage
  /\ damage' = damage + 1
  /\ nvs' = [nvs EXCEPT ![slot].payload = Garbage]
  /\ Mishap
  /\ UNCHANGED <<progress, reply, promise>>

Next ==
  \/ \E config \in Configs : StartSave(config)
  \/ Unmark
  \/ WritePayload
  \/ WriteMeta
  \/ WriteMarker
  \/ SaveDone
  \/ OpenFails
  \/ StartClear
  \/ \E slot \in Slots, key \in DOMAIN EmptySlot : EraseKey(slot, key)
  \/ ClearDone
  \/ PowerFails
  \/ \E slot \in Slots : SlotRots(slot)

Spec == Init /\ [][Next]_vars

-----------------------------------------------------------------------------
(* Properties *)

(* Every key holds a value of its kind. *)
TypeOK ==
  /\ nvs \in [Slots -> [valid : BOOLEAN,
                        meta : Headers \cup {Nothing},
                        payload : Configs \cup {Nothing, Garbage}]]
  /\ call \in {NoCall, [op |-> "clear"]}
              \cup [op : {"save"}, config : Configs, generation : Generations]
  /\ step \in {"none", "unmark", "payload", "meta", "mark", "done"}
  /\ target \in Slots
  /\ reply \in {"none", "ok", "failed"}
  /\ damage \in 0..MaxDamage
  /\ streak \in 0..2
  /\ promise \in {"register", "contents", "nothing"}

(* Two usable slots are one generation apart, across the wrap and after     *)
(* every interrupted write, so that the signed comparison of                *)
(* config_store_generation_newer never has to choose between far ones.      *)
GenerationsAdjacent ==
  promise = "register" /\ ValidSlots = Slots =>
    \/ (Generation(0) + 1) % GenModulus = Generation(1)
    \/ (Generation(1) + 1) % GenModulus = Generation(0)

(* Two saves in a row with nothing going wrong leave two usable copies, so  *)
(* one corrupt or partly written slot can be recovered from.                *)
TwoCopies ==
  promise # "nothing" /\ Idle /\ streak = 2 => ValidSlots = Slots

(* A save reported as done has left its slot complete, even when it could   *)
(* not read the slots it chose from.                                        *)
OkMeansWritten == Idle /\ reply = "ok" /\ streak > 0 => Decodes(target)

(* The storage is a register (ConfigRegister).                              *)
Register == INSTANCE ConfigRegister WITH saved <- Load

StoreIsRegister == Register!RegisterSpec

=============================================================================
