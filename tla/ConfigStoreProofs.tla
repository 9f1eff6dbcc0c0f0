------------------------- MODULE ConfigStoreProofs --------------------------
(***************************************************************************)
(* Theorems about ConfigStore: the storage is the register of              *)
(* ConfigRegister, keeps two copies and numbers them next to each other,   *)
(* for every set of configurations, every even modulus of the generations, *)
(* every set of slots that can be unreadable and any amount of damage.     *)
(*                                                                         *)
(* Everything rests on the choice of the slot: a save never writes the one *)
(* a load returns, and numbers its own as the successor of that one.       *)
(***************************************************************************)
EXTENDS ConfigStore, TLAPS

-----------------------------------------------------------------------------
(* A storage s as a value: what a load returns of it *)

SlotRecords ==
  [valid : BOOLEAN, meta : Headers \cup {Nothing}, payload : Configs \cup {Nothing, Garbage}]

Storages == [Slots -> SlotRecords]

Good(k) == k.valid /\ k.meta # Nothing /\ k.meta.sum = k.payload

Held(k) == [config |-> k.payload, generation |-> k.meta.generation]

Follows(h, g) == (g + 1) % GenModulus = h

ContentsOf(s) ==
  CASE ~Good(s[0]) /\ ~Good(s[1]) -> Nothing
    [] Good(s[0]) /\ ~Good(s[1]) -> Held(s[0])
    [] ~Good(s[0]) /\ Good(s[1]) -> Held(s[1])
    [] OTHER -> IF Newer(s[1].meta.generation, s[0].meta.generation)
                  THEN Held(s[1]) ELSE Held(s[0])

-----------------------------------------------------------------------------
(* The inductive invariant *)

Kept == nvs[target]
Other == nvs[1 - target]

SaveSteps == (call.op = "save") <=> (step # "none")

(* The slot a save does not write is the one in use; its own is next, and   *)
(* counts for nothing before its payload is written.                        *)
SparesSlotInUse ==
  call.op = "save" /\ promise # "nothing" =>
    /\ Good(Other) => call.generation = (Other.meta.generation + 1) % GenModulus
    /\ step \in {"unmark", "payload"} /\ Good(Kept) =>
         Good(Other) /\ ContentsOf(nvs) = Held(Other)
    /\ promise = "register" /\ step = "payload" => ~Kept.valid \/ Good(Kept)

(* What the save has written so far. *)
WrittenSoFar ==
  /\ step \in {"meta", "mark", "done"} => Kept.payload = call.config
  /\ step \in {"mark", "done"} =>
       Kept.meta = [generation |-> call.generation, sum |-> call.config]
  /\ step = "done" => Kept.valid

NeighboursIn(s) ==
  Good(s[0]) /\ Good(s[1]) =>
    \/ Follows(s[1].meta.generation, s[0].meta.generation)
    \/ Follows(s[0].meta.generation, s[1].meta.generation)

Neighbours == promise = "register" => NeighboursIn(nvs)

(* What a streak has left behind. *)
StreakKept ==
  /\ Idle /\ streak > 0 => Good(Kept)
  /\ promise # "nothing" /\ streak > 0 =>
       /\ Idle /\ streak = 2 => Good(Other)
       /\ call.op = "save" => Good(Other)
  /\ call.op = "clear" => streak = 0

StoreInv ==
  /\ SaveSteps
  /\ SparesSlotInUse
  /\ WrittenSoFar
  /\ Neighbours
  /\ StreakKept

-----------------------------------------------------------------------------
(* Generations *)

LEMMA ModulusFacts ==
  /\ GenModulus \in Int /\ GenModulus >= 4
  /\ GenModulus \div 2 \in Int /\ GenModulus \div 2 >= 2 /\ 2 * (GenModulus \div 2) = GenModulus
BY StoreAssumption

LEMMA Successor ==
  ASSUME NEW g \in Generations
  PROVE  /\ (g + 1) % GenModulus \in Generations
         /\ (g + 1) % GenModulus = IF g = GenModulus - 1 THEN 0 ELSE g + 1
<1>1. CASE g = GenModulus - 1
  BY <1>1, ModulusFacts DEF Generations
<1>2. CASE g # GenModulus - 1
  BY <1>2, ModulusFacts DEF Generations
<1> QED BY <1>1, <1>2

(* Every generation has one before it. *)
LEMMA Predecessor ==
  ASSUME NEW h \in Generations
  PROVE  \E g \in Generations : Follows(h, g)
<1> DEFINE g == IF h = 0 THEN GenModulus - 1 ELSE h - 1
<1>1. g \in Generations
  BY ModulusFacts DEF Generations
<1>2. (g + 1) % GenModulus = h
  BY <1>1, Successor, ModulusFacts DEF Generations
<1> QED BY <1>1, <1>2 DEF Follows

(* The signed comparison tells neighbours apart. *)
LEMMA NeighboursOrdered ==
  ASSUME NEW g \in Generations, NEW h \in Generations, Follows(h, g)
  PROVE  Newer(h, g) /\ ~Newer(g, h)
<1>1. CASE g = GenModulus - 1
  <2>1. h = 0
    BY <1>1, Successor DEF Follows
  <2>2. (h - g) % GenModulus = 1
    BY <1>1, <2>1, ModulusFacts
  <2>3. (g - h) % GenModulus = GenModulus - 1
    BY <1>1, <2>1, ModulusFacts
  <2> QED BY <2>2, <2>3, ModulusFacts DEF Newer
<1>2. CASE g # GenModulus - 1
  <2>1. h = g + 1 /\ h - g = 1 /\ g - h = -1
    BY <1>2, Successor DEF Follows, Generations
  <2>2. (h - g) % GenModulus = 1
    BY <2>1, ModulusFacts
  <2>3. (g - h) % GenModulus = GenModulus - 1
    BY <2>1, ModulusFacts
  <2> QED BY <2>2, <2>3, ModulusFacts DEF Newer
<1> QED BY <1>1, <1>2

-----------------------------------------------------------------------------
(* The contents of a storage *)

LEMMA GoodParts ==
  ASSUME NEW k \in SlotRecords, Good(k)
  PROVE  /\ k.payload \in Configs /\ k.meta \in Headers
         /\ k.meta.generation \in Generations /\ k.meta.sum = k.payload
         /\ Held(k) \in [config : Configs, generation : Generations]
         /\ Held(k) # Nothing
         /\ Held(k).config = k.payload /\ Held(k).generation = k.meta.generation
<1>1. k.meta \in Headers /\ k.meta.sum = k.payload
  BY DEF SlotRecords, Good
<1>2. k.payload \in Configs /\ k.meta.generation \in Generations
  BY <1>1 DEF Headers
<1>3. Held(k) \in [config : Configs, generation : Generations]
  BY <1>2 DEF Held
<1> QED BY <1>1, <1>2, <1>3, NothingAssumption DEF Held

LEMMA ContentsCases ==
  ASSUME NEW s \in Storages, NEW t \in Slots
  PROVE  /\ ~Good(s[t]) => ContentsOf(s) = IF Good(s[1 - t]) THEN Held(s[1 - t]) ELSE Nothing
         /\ Good(s[t]) /\ ~Good(s[1 - t]) => ContentsOf(s) = Held(s[t])
         /\ Good(s[t]) /\ Good(s[1 - t]) => ContentsOf(s) \in {Held(s[t]), Held(s[1 - t])}
         /\ Good(s[t]) /\ Good(s[1 - t])
            /\ Follows(s[t].meta.generation, s[1 - t].meta.generation)
              => ContentsOf(s) = Held(s[t])
<1>1. s[0] \in SlotRecords /\ s[1] \in SlotRecords
  BY DEF Storages, Slots
<1>2. CASE t = 0
  <2>1. 1 - t = 1
    BY <1>2
  <2>2. ASSUME Good(s[t]), Good(s[1 - t]),
               Follows(s[t].meta.generation, s[1 - t].meta.generation)
        PROVE  ~Newer(s[1].meta.generation, s[0].meta.generation)
    BY <1>1, <1>2, <2>1, <2>2, GoodParts, NeighboursOrdered
  <2> QED BY <1>2, <2>1, <2>2 DEF ContentsOf
<1>3. CASE t = 1
  <2>1. 1 - t = 0
    BY <1>3
  <2>2. ASSUME Good(s[t]), Good(s[1 - t]),
               Follows(s[t].meta.generation, s[1 - t].meta.generation)
        PROVE  Newer(s[1].meta.generation, s[0].meta.generation)
    BY <1>1, <1>3, <2>1, <2>2, GoodParts, NeighboursOrdered
  <2> QED BY <1>3, <2>1, <2>2 DEF ContentsOf
<1> QED BY <1>2, <1>3 DEF Slots

LEMMA ValidIsGood ==
  /\ \A slot : Decodes(slot) <=> Good(nvs[slot])
  /\ \A slot \in Slots : slot \in ValidSlots <=> Good(nvs[slot])
  /\ ValidSlots \subseteq Slots
  /\ ValidSlots = Slots <=> Good(nvs[0]) /\ Good(nvs[1])
BY DEF Decodes, Good, ValidSlots, Slots

(* The scan of config_store_load and of an undisturbed config_store_save.   *)
LEMMA NewestIs ==
  /\ ValidSlots = {} => NewestOf(ValidSlots) = Nothing
  /\ ValidSlots # {} =>
       /\ NewestOf(ValidSlots) \in ValidSlots
       /\ ContentsOf(nvs) = Held(nvs[NewestOf(ValidSlots)])
<1>1. CASE ~Good(nvs[0]) /\ ~Good(nvs[1])
  <2>1. ValidSlots = {}
    BY <1>1, ValidIsGood DEF Slots
  <2> QED BY <2>1 DEF NewestOf
<1>2. CASE Good(nvs[0]) /\ ~Good(nvs[1])
  <2>1. ValidSlots = {0}
    BY <1>2, ValidIsGood DEF Slots
  <2> QED BY <1>2, <2>1 DEF NewestOf, ContentsOf
<1>3. CASE ~Good(nvs[0]) /\ Good(nvs[1])
  <2>1. ValidSlots = {1}
    BY <1>3, ValidIsGood DEF Slots
  <2> QED BY <1>3, <2>1 DEF NewestOf, ContentsOf
<1>4. CASE Good(nvs[0]) /\ Good(nvs[1])
  <2>1. ValidSlots = {0, 1}
    BY <1>4, ValidIsGood DEF Slots
  <2> QED BY <1>4, <2>1 DEF NewestOf, ContentsOf, Generation
<1> QED BY <1>1, <1>2, <1>3, <1>4

LEMMA NothingIsEmpty ==
  ASSUME TypeOK
  PROVE  ContentsOf(nvs) = Nothing <=> ValidSlots = {}
<1>1. \A slot \in Slots : nvs[slot] \in SlotRecords
  BY DEF TypeOK, SlotRecords
<1>2. CASE ValidSlots = {}
  BY <1>2, ValidIsGood DEF ContentsOf, Slots
<1>3. CASE ValidSlots # {}
  <2>1. PICK slot \in Slots : ContentsOf(nvs) = Held(nvs[slot]) /\ Good(nvs[slot])
    BY <1>3, NewestIs, ValidIsGood
  <2> QED BY <1>1, <1>3, <2>1, GoodParts
<1> QED BY <1>2, <1>3

LEMMA LoadIs == Load = ContentsOf(nvs) /\ Load' = ContentsOf(nvs')
<1>1. Load = ContentsOf(nvs)
  <2>1. CASE ValidSlots = {}
    BY <2>1, ValidIsGood DEF Load, ContentsOf, Slots
  <2>2. CASE ValidSlots # {}
    BY <2>2, NewestIs DEF Load, Held, Generation
  <2> QED BY <2>1, <2>2
<1>2. (Load = ContentsOf(nvs))'
  BY <1>1, PTL
<1> QED BY <1>1, <1>2

-----------------------------------------------------------------------------
(* Type correctness *)

LEMMA SlotsOf ==
  ASSUME TypeOK
  PROVE  /\ nvs \in Storages
         /\ target \in Slots /\ 1 - target \in Slots
         /\ Kept \in SlotRecords /\ Other \in SlotRecords
         /\ \A slot \in Slots : nvs[slot] \in SlotRecords
BY DEF TypeOK, Storages, SlotRecords, Slots, Kept, Other

(* The choice a save makes, whatever it could read. *)
LEMMA ChoiceType ==
  ASSUME TypeOK, NEW valid, valid \subseteq ValidSlots
  PROVE  NextGeneration(valid) \in Generations /\ TargetSlot(valid) \in Slots
<1>0. valid \subseteq {0, 1} /\ \A slot \in valid : Good(nvs[slot])
  BY ValidIsGood DEF Slots
<1>1. valid # {} => NewestOf(valid) \in valid
  <2>1. CASE valid = {0}
    BY <2>1 DEF NewestOf
  <2>2. CASE valid = {1}
    BY <2>2 DEF NewestOf
  <2>3. CASE valid = {0, 1}
    BY <2>3 DEF NewestOf
  <2> QED BY <1>0, <2>1, <2>2, <2>3
<1>2. NextGeneration(valid) \in Generations
  <2>1. CASE valid = {}
    BY <2>1, ModulusFacts DEF NextGeneration, Generations
  <2>2. CASE valid # {}
    <3>1. Generation(NewestOf(valid)) \in Generations
      BY <1>0, <1>1, <2>2, SlotsOf, GoodParts DEF Generation, Slots
    <3> QED BY <2>2, <3>1, Successor DEF NextGeneration
  <2> QED BY <2>1, <2>2
<1>3. TargetSlot(valid) \in Slots
  <2>1. CASE 0 \notin valid
    BY <2>1 DEF TargetSlot, Slots
  <2>2. CASE 0 \in valid /\ 1 \notin valid
    BY <2>2 DEF TargetSlot, Slots
  <2>3. CASE 0 \in valid /\ 1 \in valid
    <3>1. NewestOf(valid) \in {0, 1}
      BY <1>0, <1>1, <2>3
    <3>2. TargetSlot(valid) = 1 - NewestOf(valid)
      BY <2>3 DEF TargetSlot
    <3> QED BY <3>1, <3>2 DEF Slots
  <2> QED BY <2>1, <2>2, <2>3
<1> QED BY <1>2, <1>3

(* One key of one slot written. *)
LEMMA PutType ==
  ASSUME TypeOK, NEW key, NEW value, Put(key, value),
         \/ key = "valid" /\ value \in BOOLEAN
         \/ key = "meta" /\ value \in Headers \cup {Nothing}
         \/ key = "payload" /\ value \in Configs \cup {Nothing, Garbage}
  PROVE  /\ nvs' \in Storages
         /\ nvs'[target] = [nvs[target] EXCEPT ![key] = value]
         /\ nvs'[1 - target] = nvs[1 - target]
<1>1. [nvs[target] EXCEPT ![key] = value] \in SlotRecords
  BY SlotsOf DEF Kept, SlotRecords
<1> QED BY <1>1, SlotsOf DEF Put, Storages, Slots

(* What a write that ends the save on failure does. *)
LEMMA WriteKeyCases ==
  ASSUME NEW key, NEW value, NEW next, WriteKey(key, value, next)
  PROVE  /\ Put(key, value) \/ nvs' = nvs
         /\ target' = target /\ promise' = promise
         /\ \/ /\ Put(key, value) /\ step' = next
               /\ call' = call /\ reply' = reply /\ streak' = streak
            \/ /\ call' = NoCall /\ step' = "none" /\ reply' = "failed" /\ streak' = 0
BY DEF WriteKey, Return, Mishap

(* One key of one slot erased: the slot counts no more, and the other one   *)
(* is as it was.                                                            *)
LEMMA EraseFacts ==
  ASSUME TypeOK, NEW slot \in Slots, NEW key \in DOMAIN EmptySlot, EraseKey(slot, key)
  PROVE  nvs' \in Storages /\ nvs'[1 - slot] = nvs[1 - slot] /\ ~Good(nvs'[slot])
<1> DEFINE k == nvs[slot]  e == [k EXCEPT ![key] = EmptySlot[key]]
<1>1. k \in SlotRecords
  BY SlotsOf
<1>2. key \in {"valid", "meta", "payload"}
  BY DEF EmptySlot
<1>3. e \in SlotRecords /\ ~Good(e)
  <2>1. CASE key = "valid"
    <3>1. e = [k EXCEPT !.valid = FALSE]
      BY <2>1 DEF EmptySlot
    <3> QED BY <1>1, <3>1 DEF SlotRecords, Good
  <2>2. CASE key = "meta"
    <3>1. e = [k EXCEPT !.meta = Nothing]
      BY <2>2 DEF EmptySlot
    <3> QED BY <1>1, <3>1 DEF SlotRecords, Good
  <2>3. CASE key = "payload"
    <3>1. e = [k EXCEPT !.payload = Nothing]
      BY <2>3 DEF EmptySlot
    <3>2. e \in SlotRecords /\ e.payload = Nothing
      BY <1>1, <3>1 DEF SlotRecords
    <3> QED BY <3>2, GoodParts, StoreAssumption
  <2> QED BY <1>2, <2>1, <2>2, <2>3
<1>4. nvs' = [nvs EXCEPT ![slot] = e]
  BY DEF EraseKey
<1>5. 1 - slot \in Slots /\ 1 - slot # slot
  BY DEF Slots
<1> HIDE DEF e, k
<1> QED BY <1>3, <1>4, <1>5, SlotsOf DEF Storages

(* And so does one that rots. *)
LEMMA RotFacts ==
  ASSUME TypeOK, NEW slot \in Slots, SlotRots(slot)
  PROVE  nvs' \in Storages /\ nvs'[1 - slot] = nvs[1 - slot] /\ ~Good(nvs'[slot])
<1> DEFINE k == nvs[slot]  e == [k EXCEPT !.payload = Garbage]
<1>1. k \in SlotRecords
  BY SlotsOf
<1>2. e \in SlotRecords /\ e.payload = Garbage
  BY <1>1 DEF SlotRecords
<1>3. ~Good(e)
  BY <1>2, GoodParts, StoreAssumption
<1>4. nvs' = [nvs EXCEPT ![slot] = e]
  BY DEF SlotRots
<1>5. 1 - slot \in Slots /\ 1 - slot # slot
  BY DEF Slots
<1> HIDE DEF e, k
<1> QED BY <1>2, <1>3, <1>4, <1>5, SlotsOf DEF Storages

LEMMA WriteKeyType ==
  ASSUME TypeOK, NEW key, NEW value, NEW next, WriteKey(key, value, next),
         next \in {"none", "unmark", "payload", "meta", "mark", "done"},
         \/ key = "valid" /\ value \in BOOLEAN
         \/ key = "meta" /\ value \in Headers \cup {Nothing}
         \/ key = "payload" /\ value \in Configs \cup {Nothing, Garbage}
  PROVE  TypeOK'
<1>1. nvs' \in Storages
  BY PutType, SlotsOf, WriteKeyCases
<1>2. damage' = damage
  BY DEF WriteKey, Return
<1> QED BY <1>1, <1>2, WriteKeyCases DEF TypeOK, Storages, SlotRecords

(* What a save is about to write is a configuration under a generation. *)
LEMMA CallParts ==
  ASSUME TypeOK
  PROVE  /\ call.op = "save" => call.config \in Configs /\ call.generation \in Generations
         /\ call.op \in {"none", "save", "clear"}
         /\ Idle <=> call.op = "none"
BY DEF TypeOK, NoCall, Idle

(* Every key and every variable keeps its kind of value; a save is under    *)
(* way exactly as long as there is a key left to write.                     *)
THEOREM TypeCorrect == Spec => []TypeOK
<1>1. Init => TypeOK /\ SaveSteps
  BY StoreAssumption DEF Init, TypeOK, EmptySlot, NoCall, Slots, SaveSteps
<1>2. TypeOK /\ SaveSteps /\ [Next]_vars => TypeOK' /\ SaveSteps'
  <2> SUFFICES ASSUME TypeOK, SaveSteps, [Next]_vars
               PROVE  TypeOK' /\ SaveSteps'
    OBVIOUS
  <2>1. ASSUME NEW config \in Configs, StartSave(config)
        PROVE  TypeOK' /\ SaveSteps'
    <3>1. PICK unreadable \in ReadFailures :
            /\ call' = [op |-> "save", config |-> config,
                        generation |-> NextGeneration(ValidSlots \ unreadable)]
            /\ target' = TargetSlot(ValidSlots \ unreadable)
            /\ promise' \in {promise, "nothing"}
      BY <2>1 DEF StartSave
    <3>2. /\ NextGeneration(ValidSlots \ unreadable) \in Generations
          /\ TargetSlot(ValidSlots \ unreadable) \in Slots
      BY ChoiceType
    <3>3. call' \in [op : {"save"}, config : Configs, generation : Generations]
      BY <3>1, <3>2
    <3>4. step' = "unmark" /\ reply' = "none" /\ UNCHANGED <<nvs, damage, streak>>
      BY <2>1 DEF StartSave
    <3> HIDE DEF NextGeneration, TargetSlot
    <3> QED BY <3>1, <3>2, <3>3, <3>4 DEF TypeOK, SaveSteps
  <2>2. CASE Unmark
    <3>1. nvs' \in Storages
      BY <2>2, PutType, SlotsOf DEF Unmark
    <3> QED BY <2>2, <3>1 DEF Unmark, TypeOK, Storages, SlotRecords, SaveSteps
  <2>3. CASE WritePayload
    <3>1. call.config \in Configs
      BY <2>3, CallParts DEF WritePayload, SaveSteps
    <3> QED
      BY <2>3, <3>1, WriteKeyType, WriteKeyCases DEF WritePayload, SaveSteps, NoCall
  <2>4. CASE WriteMeta
    <3>1. [generation |-> call.generation, sum |-> call.config] \in Headers
      BY <2>4, CallParts DEF WriteMeta, SaveSteps, Headers
    <3> QED
      BY <2>4, <3>1, WriteKeyType, WriteKeyCases DEF WriteMeta, SaveSteps, NoCall
  <2>5. CASE WriteMarker
    <3>1. step = "mark" /\ WriteKey("valid", TRUE, "done")
      BY <2>5 DEF WriteMarker
    <3>2. TypeOK'
      BY <3>1, WriteKeyType
    <3>3. (call' = call /\ step' = "done") \/ (call' = NoCall /\ step' = "none")
      BY <3>1, WriteKeyCases, Zenon
    <3>4. step = "mark"
      BY <3>1
    <3>5. SaveSteps'
      BY <3>3, <3>4 DEF SaveSteps, NoCall
    <3> QED BY <3>2, <3>5
  <2>6. CASE SaveDone
    BY <2>6 DEF SaveDone, Return, TypeOK, SaveSteps, NoCall
  <2>7. CASE OpenFails
    BY <2>7 DEF OpenFails, progress, TypeOK, SaveSteps
  <2>8. CASE StartClear
    BY <2>8 DEF StartClear, Mishap, Idle, NoCall, TypeOK, SaveSteps
  <2>9. ASSUME NEW slot \in Slots, NEW key \in DOMAIN EmptySlot, EraseKey(slot, key)
        PROVE  TypeOK' /\ SaveSteps'
    <3>1. nvs' \in Storages
      BY <2>9, EraseFacts
    <3> QED
      BY <2>9, <3>1 DEF EraseKey, progress, TypeOK, Storages, SlotRecords, SaveSteps
  <2>10. CASE ClearDone
    BY <2>10 DEF ClearDone, Return, NoCall, TypeOK, SaveSteps
  <2>11. CASE PowerFails
    BY <2>11 DEF PowerFails, Mishap, NoCall, TypeOK, SaveSteps
  <2>12. ASSUME NEW slot \in Slots, SlotRots(slot)
         PROVE  TypeOK' /\ SaveSteps'
    <3>1. nvs' \in Storages
      BY <2>12, RotFacts
    <3>2. damage' \in 0..MaxDamage
      BY <2>12, StoreAssumption DEF SlotRots, TypeOK
    <3> QED
      BY <2>12, <3>1, <3>2
      DEF SlotRots, Mishap, progress, TypeOK, Storages, SlotRecords, SaveSteps
  <2>13. CASE UNCHANGED vars
    BY <2>13 DEF vars, progress, TypeOK, SaveSteps
  <2> QED
    BY <2>1, <2>2, <2>3, <2>4, <2>5, <2>6, <2>7, <2>8, <2>9, <2>10, <2>11, <2>12, <2>13
    DEF Next
<1> QED BY <1>1, <1>2, PTL DEF Spec

-----------------------------------------------------------------------------
(* The invariant is kept *)

(* An undisturbed scan: the slot to write is not the one a load returns,    *)
(* and the generation is the next after that one's.                         *)
LEMMA Choice ==
  ASSUME TypeOK, NEW t, t = TargetSlot(ValidSlots)
  PROVE  /\ NextGeneration(ValidSlots) =
              IF ContentsOf(nvs) = Nothing THEN 1
              ELSE (ContentsOf(nvs).generation + 1) % GenModulus
         /\ Good(nvs[t]) => Good(nvs[1 - t])
         /\ Good(nvs[1 - t]) =>
              /\ ContentsOf(nvs) = Held(nvs[1 - t])
              /\ NextGeneration(ValidSlots) = (nvs[1 - t].meta.generation + 1) % GenModulus
         /\ ValidSlots # {} => Good(nvs[1 - t])
<1>0. t \in Slots /\ nvs \in Storages /\ \A slot \in Slots : nvs[slot] \in SlotRecords
  BY ChoiceType, SlotsOf
<1>1. NextGeneration(ValidSlots) =
        IF ContentsOf(nvs) = Nothing THEN 1
        ELSE (ContentsOf(nvs).generation + 1) % GenModulus
  <2>1. CASE ValidSlots = {}
    BY <2>1, NothingIsEmpty DEF NextGeneration
  <2>2. CASE ValidSlots # {}
    <3> DEFINE n == NewestOf(ValidSlots)
    <3>1. n \in ValidSlots /\ ContentsOf(nvs) = Held(nvs[n]) /\ ContentsOf(nvs) # Nothing
      BY <2>2, NewestIs, NothingIsEmpty
    <3>2. NextGeneration(ValidSlots) = (nvs[n].meta.generation + 1) % GenModulus
      BY <2>2 DEF NextGeneration, Generation
    <3> QED BY <3>1, <3>2 DEF Held
  <2> QED BY <2>1, <2>2
<1>2. /\ Good(nvs[t]) => Good(nvs[1 - t])
      /\ Good(nvs[1 - t]) => ContentsOf(nvs) = Held(nvs[1 - t])
      /\ ValidSlots # {} => Good(nvs[1 - t])
  <2>1. CASE 0 \notin ValidSlots
    <3>1. t = 0 /\ 1 - t = 1
      BY <2>1 DEF TargetSlot
    <3>2. ~Good(nvs[t])
      BY <2>1, <3>1, ValidIsGood DEF Slots
    <3>3. ValidSlots # {} => Good(nvs[1 - t])
      BY <2>1, <3>1, ValidIsGood DEF Slots
    <3> QED BY <1>0, <3>2, <3>3, ContentsCases
  <2>2. CASE 0 \in ValidSlots /\ 1 \notin ValidSlots
    <3>1. t = 1 /\ 1 - t = 0
      BY <2>2 DEF TargetSlot
    <3>2. ~Good(nvs[t]) /\ Good(nvs[1 - t])
      BY <2>2, <3>1, ValidIsGood DEF Slots
    <3> QED BY <1>0, <3>2, ContentsCases
  <2>3. CASE 0 \in ValidSlots /\ 1 \in ValidSlots
    <3>1. t = 1 - NewestOf(ValidSlots)
      BY <2>3 DEF TargetSlot
    <3>2. NewestOf(ValidSlots) \in ValidSlots /\ ContentsOf(nvs) = Held(nvs[NewestOf(ValidSlots)])
      BY <2>3, NewestIs
    <3>3. NewestOf(ValidSlots) \in {0, 1}
      BY <3>2, ValidIsGood DEF Slots
    <3>4. 1 - t = NewestOf(ValidSlots)
      BY <3>1, <3>3
    <3> QED BY <3>2, <3>4, ValidIsGood
  <2> QED BY <2>1, <2>2, <2>3
<1>3. Good(nvs[1 - t]) => /\ ContentsOf(nvs) # Nothing
                         /\ ContentsOf(nvs).generation = nvs[1 - t].meta.generation
  <2>1. 1 - t \in Slots
    BY <1>0 DEF Slots
  <2> QED BY <1>0, <1>2, <2>1, GoodParts
<1> QED BY <1>1, <1>2, <1>3

LEMMA NeighboursOf ==
  ASSUME NEW s, NEW t \in Slots
  PROVE  NeighboursIn(s) <=>
           (Good(s[t]) /\ Good(s[1 - t]) =>
              \/ Follows(s[t].meta.generation, s[1 - t].meta.generation)
              \/ Follows(s[1 - t].meta.generation, s[t].meta.generation))
<1>1. CASE t = 0
  BY <1>1 DEF NeighboursIn
<1>2. CASE t = 1
  BY <1>2 DEF NeighboursIn
<1> QED BY <1>1, <1>2 DEF Slots

(* The slot a save writes after one of its writes. *)
LEMMA PayloadPut ==
  ASSUME TypeOK, Put("payload", call.config), call.config \in Configs
  PROVE  /\ nvs' \in Storages /\ nvs'[1 - target] = Other
         /\ nvs'[target].valid = Kept.valid /\ nvs'[target].meta = Kept.meta
         /\ nvs'[target].payload = call.config
         /\ Good(Kept) /\ Good(nvs'[target]) => nvs' = nvs
<1>1. /\ nvs' \in Storages
      /\ nvs'[target] = [nvs[target] EXCEPT !["payload"] = call.config]
      /\ nvs'[1 - target] = nvs[1 - target]
  BY PutType
<1>2. /\ nvs'[target].valid = Kept.valid /\ nvs'[target].meta = Kept.meta
      /\ nvs'[target].payload = call.config
  BY <1>1, SlotsOf DEF Kept, SlotRecords
<1>3. ASSUME Good(Kept), Good(nvs'[target])
      PROVE  nvs' = nvs
  <2>1. Kept.payload = call.config
    BY <1>2, <1>3 DEF Good
  <2>2. nvs'[target] = nvs[target]
    BY <1>1, <2>1, SlotsOf DEF Kept, SlotRecords
  <2> QED BY <2>2, SlotsOf DEF Put, Storages
<1> QED BY <1>1, <1>2, <1>3 DEF Other

LEMMA MetaPut ==
  ASSUME TypeOK, NEW header \in Headers, Put("meta", header)
  PROVE  /\ nvs' \in Storages /\ nvs'[1 - target] = Other
         /\ nvs'[target].valid = Kept.valid /\ nvs'[target].meta = header
         /\ nvs'[target].payload = Kept.payload
<1>1. /\ nvs' \in Storages
      /\ nvs'[target] = [nvs[target] EXCEPT !["meta"] = header]
      /\ nvs'[1 - target] = nvs[1 - target]
  BY PutType
<1> QED BY <1>1, SlotsOf DEF Kept, Other, SlotRecords

LEMMA MarkerPut ==
  ASSUME TypeOK, NEW marker \in BOOLEAN, Put("valid", marker)
  PROVE  /\ nvs' \in Storages /\ nvs'[1 - target] = Other
         /\ nvs'[target].valid = marker /\ nvs'[target].meta = Kept.meta
         /\ nvs'[target].payload = Kept.payload
<1>1. /\ nvs' \in Storages
      /\ nvs'[target] = [nvs[target] EXCEPT !["valid"] = marker]
      /\ nvs'[1 - target] = nvs[1 - target]
  BY PutType
<1> QED BY <1>1, SlotsOf DEF Kept, Other, SlotRecords

(* A save that is over leaves no more to keep than that the copies count.   *)
LEMMA OverAfterMishap ==
  ASSUME call' = NoCall, step' = "none", streak' = 0
  PROVE  SaveSteps' /\ SparesSlotInUse' /\ WrittenSoFar' /\ StreakKept'
BY DEF SaveSteps, SparesSlotInUse, WrittenSoFar, StreakKept, NoCall, Idle

LEMMA InvHolds == Spec => []StoreInv
<1>1. Init => StoreInv
  <2> SUFFICES ASSUME Init
               PROVE  StoreInv
    OBVIOUS
  <2>1. \A slot \in Slots : ~Good(nvs[slot])
    BY DEF Init, EmptySlot, Good
  <2>2. call.op = "none" /\ step = "none" /\ streak = 0
    BY DEF Init, NoCall
  <2> QED
    BY <2>1, <2>2
    DEF StoreInv, SaveSteps, SparesSlotInUse, WrittenSoFar, Neighbours, NeighboursIn,
        StreakKept, Slots
<1>2. TypeOK /\ StoreInv /\ [Next]_vars => StoreInv'
  <2> SUFFICES ASSUME TypeOK, StoreInv, [Next]_vars
               PROVE  StoreInv'
    OBVIOUS
  <2>0. /\ SaveSteps /\ SparesSlotInUse /\ WrittenSoFar /\ Neighbours /\ StreakKept
        /\ target \in Slots /\ 1 - target \in Slots /\ nvs \in Storages
        /\ promise = "register" =>
             (Good(Kept) /\ Good(Other) =>
                \/ Follows(Kept.meta.generation, Other.meta.generation)
                \/ Follows(Other.meta.generation, Kept.meta.generation))
    BY SlotsOf, NeighboursOf DEF StoreInv, Neighbours, Kept, Other
  <2>1. ASSUME NEW config \in Configs, StartSave(config)
        PROVE  StoreInv'
    <3> DEFINE valid(unreadable) == ValidSlots \ unreadable
    <3>1. PICK unreadable \in ReadFailures :
            /\ call' = [op |-> "save", config |-> config,
                        generation |-> NextGeneration(valid(unreadable))]
            /\ target' = TargetSlot(valid(unreadable))
            /\ promise' = IF valid(unreadable) = ValidSlots THEN promise ELSE "nothing"
      BY <2>1 DEF StartSave
    <3>2. step' = "unmark" /\ nvs' = nvs /\ streak' = streak /\ call = NoCall
      BY <2>1 DEF StartSave, Idle
    <3>3. call'.op = "save" /\ call' # NoCall
      BY <3>1 DEF NoCall
    <3>4. SaveSteps' /\ WrittenSoFar'
      BY <3>2, <3>3 DEF SaveSteps, WrittenSoFar
    <3>5. Neighbours'
      BY <2>0, <3>1, <3>2 DEF Neighbours
    <3>6. ASSUME promise' # "nothing"
          PROVE  /\ call'.generation = NextGeneration(ValidSlots)
                 /\ target' = TargetSlot(ValidSlots)
                 /\ promise' = promise
      BY <3>1, <3>6
    <3>7. SparesSlotInUse'
      <4> SUFFICES ASSUME promise' # "nothing"
                   PROVE  /\ Good(nvs[1 - target']) =>
                               call'.generation =
                                 (nvs[1 - target'].meta.generation + 1) % GenModulus
                          /\ Good(nvs[target']) =>
                               Good(nvs[1 - target']) /\ ContentsOf(nvs) = Held(nvs[1 - target'])
        BY <3>2 DEF SparesSlotInUse, Kept, Other
      <4> QED BY <3>6, Choice
    <3>8. StreakKept'
      <4> SUFFICES ASSUME promise' # "nothing", streak > 0
                   PROVE  Good(nvs[1 - target'])
        BY <3>2, <3>3 DEF StreakKept, Other, Idle
      <4>1. Good(nvs[target])
        BY <2>0, <3>2 DEF StreakKept, Idle, Kept
      <4>2. ValidSlots # {}
        BY <2>0, <4>1, ValidIsGood
      <4> QED BY <3>6, <4>2, Choice
    <3> QED BY <3>4, <3>5, <3>7, <3>8 DEF StoreInv
  <2>2. CASE Unmark
    <3>1. /\ step = "unmark" /\ step' = "payload" /\ call.op = "save"
          /\ call' = call /\ target' = target /\ streak' = streak
      BY <2>0, <2>2 DEF Unmark, SaveSteps
    <3>2. /\ nvs'[1 - target] = Other
          /\ nvs' = nvs \/ (~nvs'[target].valid /\ ~Good(nvs'[target]))
          /\ promise' # "nothing" => promise # "nothing"
          /\ promise' = "register" =>
               promise = "register" /\ (~nvs'[target].valid \/ Good(nvs'[target]))
      <4>1. CASE Put("valid", FALSE) /\ UNCHANGED promise
        BY <4>1, MarkerPut DEF Good
      <4>2. CASE /\ promise' = IF promise = "register" /\ nvs[target].valid /\ ~Decodes(target)
                                 THEN "contents" ELSE promise
                 /\ UNCHANGED nvs
        BY <4>2, ValidIsGood DEF Other
      <4> QED BY <2>2, <4>1, <4>2 DEF Unmark
    <3>3. SaveSteps' /\ WrittenSoFar' /\ StreakKept'
      BY <2>0, <3>1, <3>2
      DEF SaveSteps, WrittenSoFar, StreakKept, Kept, Other, Idle, NoCall
    <3>4. SparesSlotInUse'
      BY <2>0, <3>1, <3>2 DEF SparesSlotInUse, Kept, Other
    <3>5. Neighbours'
      BY <2>0, <3>2, NeighboursOf DEF Neighbours, Kept, Other
    <3> QED BY <3>3, <3>4, <3>5 DEF StoreInv
  <2>3. CASE WritePayload
    <3>1. /\ step = "payload" /\ call.op = "save" /\ call.config \in Configs
          /\ WriteKey("payload", call.config, "meta")
      BY <2>0, <2>3, CallParts DEF WritePayload, SaveSteps
    <3>2. /\ Put("payload", call.config) \/ nvs' = nvs
          /\ target' = target /\ promise' = promise
          /\ \/ /\ Put("payload", call.config) /\ step' = "meta"
                /\ call' = call /\ streak' = streak
             \/ call' = NoCall /\ step' = "none" /\ streak' = 0
      BY <3>1, WriteKeyCases
    <3>3. /\ nvs'[1 - target] = Other
          /\ nvs'[target].meta = Kept.meta /\ nvs'[target].valid = Kept.valid
      BY <3>1, <3>2, PayloadPut DEF Kept, Other
    <3>4. Neighbours'
      <4> SUFFICES ASSUME promise = "register", Good(nvs'[target]), Good(Other)
                   PROVE  \/ Follows(Kept.meta.generation, Other.meta.generation)
                          \/ Follows(Other.meta.generation, Kept.meta.generation)
        BY <2>0, <3>2, <3>3, NeighboursOf DEF Neighbours
      <4>1. Good(Kept)
        BY <2>0, <3>1, <3>3 DEF SparesSlotInUse, Good
      <4> QED BY <2>0, <4>1
    <3>5. CASE call' = NoCall /\ step' = "none" /\ streak' = 0
      BY <3>4, <3>5, OverAfterMishap DEF StoreInv
    <3>6. CASE /\ Put("payload", call.config) /\ step' = "meta"
               /\ call' = call /\ streak' = streak
      <4>1. nvs'[target].payload = call.config
        BY <3>1, <3>6, PayloadPut
      <4>2. SaveSteps' /\ WrittenSoFar' /\ StreakKept'
        BY <2>0, <3>1, <3>2, <3>3, <3>6, <4>1
        DEF SaveSteps, WrittenSoFar, StreakKept, Kept, Other, Idle, NoCall
      <4>3. SparesSlotInUse'
        BY <2>0, <3>1, <3>2, <3>3, <3>6 DEF SparesSlotInUse, Kept, Other
      <4> QED BY <3>4, <4>2, <4>3 DEF StoreInv
    <3> QED BY <3>2, <3>5, <3>6
  <2>4. CASE WriteMeta
    <3> DEFINE header == [generation |-> call.generation, sum |-> call.config]
    <3>1. /\ step = "meta" /\ call.op = "save" /\ header \in Headers
          /\ WriteKey("meta", header, "mark")
      BY <2>0, <2>4, CallParts DEF WriteMeta, SaveSteps, Headers
    <3>2. /\ Put("meta", header) \/ nvs' = nvs
          /\ target' = target /\ promise' = promise
          /\ \/ /\ Put("meta", header) /\ step' = "mark"
                /\ call' = call /\ streak' = streak
             \/ call' = NoCall /\ step' = "none" /\ streak' = 0
      BY <3>1, WriteKeyCases
    <3>3. ASSUME Put("meta", header)
          PROVE  /\ nvs'[1 - target] = Other
                 /\ nvs'[target].meta = header /\ nvs'[target].payload = Kept.payload
      BY <3>1, <3>3, MetaPut
    <3>4. Neighbours'
      <4>1. CASE nvs' = nvs
        BY <2>0, <3>2, <4>1 DEF Neighbours
      <4>2. CASE Put("meta", header)
        <5> SUFFICES ASSUME promise = "register", Good(nvs'[target]), Good(Other)
                     PROVE  Follows(nvs'[target].meta.generation, Other.meta.generation)
          BY <2>0, <3>2, <3>3, <4>2, NeighboursOf DEF Neighbours
        <5> QED BY <2>0, <3>1, <3>3, <4>2 DEF SparesSlotInUse, Follows
      <4> QED BY <3>2, <4>1, <4>2
    <3>5. CASE call' = NoCall /\ step' = "none" /\ streak' = 0
      BY <3>4, <3>5, OverAfterMishap DEF StoreInv
    <3>6. CASE /\ Put("meta", header) /\ step' = "mark"
               /\ call' = call /\ streak' = streak
      <4>1. SaveSteps' /\ WrittenSoFar' /\ StreakKept'
        BY <2>0, <3>1, <3>2, <3>3, <3>6
        DEF SaveSteps, WrittenSoFar, StreakKept, Kept, Other, Idle, NoCall
      <4>2. SparesSlotInUse'
        BY <2>0, <3>1, <3>2, <3>3, <3>6 DEF SparesSlotInUse, Kept, Other
      <4> QED BY <3>4, <4>1, <4>2 DEF StoreInv
    <3> QED BY <3>2, <3>5, <3>6
  <2>5. CASE WriteMarker
    <3>1. step = "mark" /\ call.op = "save" /\ WriteKey("valid", TRUE, "done")
      BY <2>0, <2>5 DEF WriteMarker, SaveSteps
    <3>2. /\ Put("valid", TRUE) \/ nvs' = nvs
          /\ target' = target /\ promise' = promise
          /\ \/ /\ Put("valid", TRUE) /\ step' = "done"
                /\ call' = call /\ streak' = streak
             \/ call' = NoCall /\ step' = "none" /\ streak' = 0
      BY <3>1, WriteKeyCases, Zenon
    <3>3. /\ nvs'[1 - target] = Other
          /\ nvs'[target].meta = Kept.meta /\ nvs'[target].payload = Kept.payload
          /\ Put("valid", TRUE) => nvs'[target].valid
      BY <3>2, MarkerPut DEF Kept, Other
    <3>4. Kept.meta = [generation |-> call.generation, sum |-> call.config]
      BY <2>0, <3>1 DEF WrittenSoFar
    <3>5. Neighbours'
      <4> SUFFICES ASSUME promise = "register", Good(nvs'[target]), Good(Other)
                   PROVE  Follows(Kept.meta.generation, Other.meta.generation)
        BY <2>0, <3>2, <3>3, NeighboursOf DEF Neighbours
      <4> QED BY <2>0, <3>1, <3>4 DEF SparesSlotInUse, Follows
    <3>6. CASE call' = NoCall /\ step' = "none" /\ streak' = 0
      BY <3>5, <3>6, OverAfterMishap DEF StoreInv
    <3>7. CASE /\ Put("valid", TRUE) /\ step' = "done"
               /\ call' = call /\ streak' = streak
      <4>0. nvs'[target].valid
        BY <3>3, <3>7
      <4>1. SaveSteps' /\ StreakKept'
        BY <2>0, <3>1, <3>2, <3>3, <3>7
        DEF SaveSteps, StreakKept, Kept, Other, Idle, NoCall
      <4>2. WrittenSoFar'
        BY <2>0, <3>1, <3>2, <3>3, <3>7, <4>0 DEF WrittenSoFar, Kept
      <4>3. SparesSlotInUse'
        BY <2>0, <3>1, <3>2, <3>3, <3>7 DEF SparesSlotInUse, Kept, Other
      <4> QED BY <3>5, <4>1, <4>2, <4>3 DEF StoreInv
    <3> QED BY <3>2, <3>6, <3>7
  <2>6. CASE SaveDone
    <3>1. /\ step = "done" /\ call.op = "save" /\ nvs' = nvs /\ target' = target
          /\ promise' = promise /\ call' = NoCall /\ step' = "none"
          /\ streak' = IF streak < 2 THEN streak + 1 ELSE 2
      BY <2>0, <2>6 DEF SaveDone, Return, SaveSteps
    <3>2. Good(Kept)
      <4>1. call.config \in Configs /\ call.generation \in Generations
        BY <3>1, CallParts
      <4>2. [generation |-> call.generation, sum |-> call.config] \in Headers
        BY <4>1 DEF Headers
      <4> QED BY <2>0, <3>1, <4>2, NothingAssumption DEF WrittenSoFar, Good
    <3>3. promise # "nothing" /\ streak > 0 => Good(Other)
      BY <2>0, <3>1 DEF StreakKept
    <3>4. streak' = 2 => streak > 0
      BY <3>1 DEF TypeOK
    <3>5. StreakKept'
      BY <3>1, <3>2, <3>3, <3>4 DEF StreakKept, Kept, Other, NoCall
    <3> QED
      BY <2>0, <3>1, <3>5
      DEF StoreInv, SaveSteps, SparesSlotInUse, WrittenSoFar, Neighbours, NoCall
  <2>7. CASE OpenFails
    BY <2>0, <2>7
    DEF OpenFails, progress, StoreInv, SaveSteps, SparesSlotInUse, WrittenSoFar, Neighbours,
        StreakKept, Kept, Other, Idle
  <2>8. CASE StartClear
    <3>1. /\ call'.op = "clear" /\ call' # NoCall /\ streak' = 0 /\ step' = "none"
          /\ nvs' = nvs /\ promise' = promise
      BY <2>0, <2>8 DEF StartClear, Mishap, Idle, NoCall, SaveSteps
    <3> QED
      BY <2>0, <3>1
      DEF StoreInv, SaveSteps, SparesSlotInUse, WrittenSoFar, Neighbours, StreakKept, Idle
  <2>9. ASSUME NEW slot \in Slots, NEW key \in DOMAIN EmptySlot, EraseKey(slot, key)
        PROVE  StoreInv'
    <3>1. /\ call.op = "clear" /\ call' = call /\ step' = step /\ streak' = streak
          /\ target' = target /\ promise' = promise
      BY <2>9 DEF EraseKey, progress
    <3>2. ~Good(nvs'[slot])
      BY <2>9, EraseFacts
    <3>3. NeighboursIn(nvs')
      BY <3>2, NeighboursOf
    <3> QED
      BY <2>0, <3>1, <3>3
      DEF StoreInv, SaveSteps, SparesSlotInUse, WrittenSoFar, Neighbours, StreakKept, Idle,
          NoCall
  <2>10. CASE ClearDone
    <3>1. /\ call.op = "clear" /\ call' = NoCall /\ step' = "none" /\ streak' = streak
          /\ nvs' = nvs /\ promise' = promise
      BY <2>10 DEF ClearDone, Return
    <3>2. streak' = 0
      BY <2>0, <3>1 DEF StreakKept
    <3> QED BY <2>0, <3>1, <3>2, OverAfterMishap DEF StoreInv, Neighbours
  <2>11. CASE PowerFails
    <3>1. /\ call' = NoCall /\ step' = "none" /\ streak' = 0
          /\ nvs' = nvs /\ promise' = promise
      BY <2>11 DEF PowerFails, Mishap
    <3> QED BY <2>0, <3>1, OverAfterMishap DEF StoreInv, Neighbours
  <2>12. ASSUME NEW slot \in Slots, SlotRots(slot)
         PROVE  StoreInv'
    <3>1. /\ call' = NoCall /\ step' = "none" /\ streak' = 0 /\ promise' = promise
      BY <2>0, <2>12 DEF SlotRots, Mishap, Idle, progress, NoCall, SaveSteps
    <3>2. ~Good(nvs'[slot])
      BY <2>12, RotFacts
    <3>3. NeighboursIn(nvs')
      BY <3>2, NeighboursOf
    <3> QED BY <3>1, <3>3, OverAfterMishap DEF StoreInv, Neighbours
  <2>13. CASE UNCHANGED vars
    BY <2>0, <2>13
    DEF vars, progress, StoreInv, SaveSteps, SparesSlotInUse, WrittenSoFar, Neighbours,
        StreakKept, Kept, Other, Idle
  <2> QED
    BY <2>1, <2>2, <2>3, <2>4, <2>5, <2>6, <2>7, <2>8, <2>9, <2>10, <2>11, <2>12, <2>13
    DEF Next
<1> QED BY <1>1, <1>2, TypeCorrect, PTL DEF Spec

-----------------------------------------------------------------------------
(* What the storage keeps *)

(* config_store_generation_newer never has to choose between far            *)
(* generations, as long as every slot could be read and unmarked.           *)
THEOREM AdjacentGenerations == Spec => []GenerationsAdjacent
<1>1. StoreInv => GenerationsAdjacent
  BY ValidIsGood
  DEF StoreInv, Neighbours, NeighboursIn, Follows, GenerationsAdjacent, Generation
<1> QED BY <1>1, InvHolds, PTL

(* config_store_save writes the two slots in turn: two undisturbed saves    *)
(* leave two usable copies.                                                 *)
THEOREM CopiesKept == Spec => []TwoCopies
<1>1. TypeOK /\ StoreInv => TwoCopies
  <2> SUFFICES ASSUME TypeOK, StoreInv, promise # "nothing", Idle, streak = 2
               PROVE  ValidSlots = Slots
    BY DEF TwoCopies
  <2>1. Good(nvs[target]) /\ Good(nvs[1 - target])
    BY DEF StoreInv, StreakKept, Kept, Other
  <2> QED BY <2>1, SlotsOf, ValidIsGood DEF Slots
<1> QED BY <1>1, InvHolds, TypeCorrect, PTL

(* A save reported as done has left its slot complete, whatever it could    *)
(* read.                                                                    *)
THEOREM DoneIsWritten == Spec => []OkMeansWritten
<1>1. StoreInv => OkMeansWritten
  BY ValidIsGood DEF StoreInv, StreakKept, Kept, OkMeansWritten
<1> QED BY <1>1, InvHolds, PTL

-----------------------------------------------------------------------------
(* The storage is a register *)

(* A slot that counts no more leaves the one before it, or nothing.         *)
LEMMA LosesOne ==
  ASSUME TypeOK, StoreInv, NEW slot \in Slots, nvs' \in Storages,
         nvs'[1 - slot] = nvs[1 - slot], ~Good(nvs'[slot]),
         promise' = promise, call' = call, reply' = reply,
         call = NoCall \/ call.op = "clear"
  PROVE  \/ Load' = Load
         \/ Register!FallsBack
<1> DEFINE other == nvs[1 - slot]
<1>1. Load = ContentsOf(nvs) /\ Load' = ContentsOf(nvs')
  BY LoadIs
<1>2. 1 - slot \in Slots /\ other \in SlotRecords /\ nvs[slot] \in SlotRecords /\ nvs \in Storages
  BY SlotsOf DEF Slots
<1>3. Load' = IF Good(other) THEN Held(other) ELSE Nothing
  BY <1>1, ContentsCases
<1>4. CASE ~Good(other)
  BY <1>3, <1>4 DEF Register!FallsBack, Register!NoCall, NoCall
<1>5. CASE Good(other) /\ ~Good(nvs[slot])
  BY <1>1, <1>2, <1>3, <1>5, ContentsCases
<1>6. CASE Good(other) /\ Good(nvs[slot]) /\ Load # Held(other)
  <2>1. Load = Held(nvs[slot])
    BY <1>1, <1>2, <1>6, ContentsCases
  <2>2. /\ Load # Nothing /\ Load.generation = nvs[slot].meta.generation
        /\ Load.generation \in Generations
    BY <1>2, <1>6, <2>1, GoodParts
  <2>3. /\ Load' # Nothing /\ Load'.config \in Configs
        /\ Load'.generation = other.meta.generation /\ Load'.generation \in Generations
    BY <1>2, <1>3, <1>6, GoodParts
  <2>4. promise = "register" => Follows(Load.generation, Load'.generation)
    <3> SUFFICES ASSUME promise = "register", Follows(Load'.generation, Load.generation)
                 PROVE  FALSE
      BY <1>2, <1>6, <2>2, <2>3, NeighboursOf DEF StoreInv, Neighbours
    <3>1. 1 - (1 - slot) = slot
      BY DEF Slots
    <3> QED BY <1>1, <1>2, <1>6, <2>2, <2>3, <3>1, ContentsCases
  <2>5. PICK g \in Generations :
          /\ Follows(Load.generation, g)
          /\ promise = "register" => Load'.generation = g
    BY <2>2, <2>3, <2>4, Predecessor
  <2>6. Register!Becomes(Load'.config, g)
    BY <2>3, <2>5 DEF Register!Becomes
  <2>7. g \in 0..GenModulus - 1 /\ (g + 1) % GenModulus = Load.generation
    BY <2>5 DEF Generations, Follows
  <2> QED
    BY <2>2, <2>3, <2>6, <2>7 DEF Register!FallsBack, Register!NoCall, NoCall
<1> QED BY <1>3, <1>4, <1>5, <1>6

(* A write of the slot a save spares for itself: the contents stay as they  *)
(* were or become what the save was asked for.                              *)
Commits == Register!Becomes(call.config, call.generation)

LEMMA WriteCommits ==
  ASSUME TypeOK, StoreInv, promise # "nothing", promise' = promise,
         WritePayload \/ WriteMeta \/ WriteMarker
  PROVE  Load' = Load \/ Commits
<1>0. /\ SaveSteps /\ SparesSlotInUse /\ WrittenSoFar
      /\ target \in Slots /\ 1 - target \in Slots /\ nvs \in Storages
      /\ Kept \in SlotRecords /\ Other \in SlotRecords
  BY SlotsOf DEF StoreInv
<1>1. Load = ContentsOf(nvs) /\ Load' = ContentsOf(nvs')
  BY LoadIs
<1>2. /\ call.op = "save" /\ step # "none"
      /\ call.config \in Configs /\ call.generation \in Generations
  BY <1>0, CallParts DEF SaveSteps, WritePayload, WriteMeta, WriteMarker
<1>3. ASSUME nvs' \in Storages, nvs'[1 - target] = Other,
             ~Good(Kept), ~Good(nvs'[target])
      PROVE  Load' = Load
  BY <1>0, <1>1, <1>3, ContentsCases DEF Kept, Other
<1>4. ASSUME nvs' \in Storages, nvs'[1 - target] = Other, Good(nvs'[target]),
             nvs'[target].payload = call.config, nvs'[target].meta.generation = call.generation
      PROVE  Commits
  <2>1. nvs'[target] \in SlotRecords
    BY <1>0, <1>4 DEF Storages
  <2>2. Good(Other) => Follows(nvs'[target].meta.generation, Other.meta.generation)
    BY <1>0, <1>2, <1>4 DEF SparesSlotInUse, Follows
  <2>3. Load' = Held(nvs'[target])
    BY <1>0, <1>1, <1>4, <2>2, ContentsCases
  <2> QED BY <1>4, <2>1, <2>3, GoodParts DEF Commits, Register!Becomes
<1>5. CASE WritePayload
  <2>1. step = "payload" /\ (Put("payload", call.config) \/ nvs' = nvs)
    BY <1>5, WriteKeyCases DEF WritePayload
  <2>2. CASE nvs' = nvs
    BY <1>1, <2>2
  <2>3. CASE Put("payload", call.config)
    <3>1. /\ nvs' \in Storages /\ nvs'[1 - target] = Other
          /\ nvs'[target].payload = call.config
          /\ Good(Kept) /\ Good(nvs'[target]) => nvs' = nvs
      BY <1>2, <2>3, PayloadPut
    <3>2. CASE Good(Kept) /\ ~Good(nvs'[target])
      <4>1. Good(Other) /\ Load = Held(Other)
        BY <1>0, <1>1, <1>2, <2>1, <3>2 DEF SparesSlotInUse
      <4>2. Load' = Held(Other)
        BY <1>0, <1>1, <3>1, <3>2, <4>1, ContentsCases
      <4> QED BY <4>1, <4>2
    <3>3. CASE ~Good(Kept) /\ Good(nvs'[target])
      <4>1. promise # "register"
        <5>1. nvs'[target].valid = Kept.valid
          BY <1>2, <2>3, PayloadPut
        <5> QED BY <1>0, <1>2, <2>1, <3>3, <5>1 DEF SparesSlotInUse, Good
      <4>2. nvs'[target] \in SlotRecords
        BY <1>0, <3>1 DEF Storages
      <4>3. Good(Other) => Load = Held(Other)
        BY <1>0, <1>1, <3>3, ContentsCases DEF Kept, Other
      <4>4. Load' = Held(nvs'[target]) \/ (Good(Other) /\ Load' = Held(Other))
        BY <1>0, <1>1, <3>1, <3>3, ContentsCases
      <4>5. Held(nvs'[target]) # Nothing /\ Held(nvs'[target]).config = call.config
        BY <3>1, <3>3, <4>2, GoodParts
      <4> QED BY <4>1, <4>3, <4>4, <4>5 DEF Commits, Register!Becomes
    <3> QED BY <1>1, <1>3, <3>1, <3>2, <3>3
  <2> QED BY <2>1, <2>2, <2>3
<1>6. CASE WriteMeta
  <2> DEFINE header == [generation |-> call.generation, sum |-> call.config]
  <2>1. /\ step = "meta" /\ header \in Headers
        /\ Put("meta", header) \/ nvs' = nvs
    BY <1>2, <1>6, WriteKeyCases DEF WriteMeta, Headers
  <2>2. CASE nvs' = nvs
    BY <1>1, <2>2
  <2>3. CASE Put("meta", header)
    <3>1. /\ nvs' \in Storages /\ nvs'[1 - target] = Other
          /\ nvs'[target].meta = header /\ nvs'[target].valid = Kept.valid
          /\ nvs'[target].payload = call.config
      BY <1>0, <2>1, <2>3, MetaPut DEF WrittenSoFar
    <3>2. CASE Good(nvs'[target])
      BY <1>4, <3>1, <3>2
    <3>3. CASE ~Good(nvs'[target])
      <4>1. ~Good(Kept)
        BY <2>1, <3>1, <3>3, NothingAssumption DEF Good
      <4> QED BY <1>3, <3>1, <3>3, <4>1
    <3> QED BY <3>2, <3>3
  <2> QED BY <2>1, <2>2, <2>3
<1>7. CASE WriteMarker
  <2>1. step = "mark" /\ WriteKey("valid", TRUE, "done")
    BY <1>7 DEF WriteMarker
  <2>2. Put("valid", TRUE) \/ nvs' = nvs
    BY <2>1, WriteKeyCases, Zenon
  <2>3. CASE nvs' = nvs
    BY <1>1, <2>3
  <2>4. CASE Put("valid", TRUE)
    <3>1. /\ nvs' \in Storages /\ nvs'[1 - target] = Other
          /\ nvs'[target].valid /\ nvs'[target].meta = Kept.meta
          /\ nvs'[target].payload = Kept.payload
      BY <2>4, MarkerPut
    <3>2. /\ Kept.meta = [generation |-> call.generation, sum |-> call.config]
          /\ Kept.payload = call.config
      BY <1>0, <2>1 DEF WrittenSoFar
    <3>3. Kept.meta \in Headers
      BY <1>2, <3>2 DEF Headers
    <3>4. Good(nvs'[target])
      BY <3>1, <3>2, <3>3, NothingAssumption DEF Good
    <3> QED BY <1>4, <3>1, <3>2, <3>4
  <2> QED BY <2>2, <2>3, <2>4
<1> QED BY <1>5, <1>6, <1>7

(* A write is a step of the register: it commits, or it does not, or it     *)
(* ends the save with either.                                               *)
LEMMA WriteIsStep ==
  ASSUME TypeOK, StoreInv, promise # "nothing",
         WritePayload \/ WriteMeta \/ WriteMarker
  PROVE  Register!RegisterNext \/ UNCHANGED Register!registerVars
<1>1. /\ promise' = promise /\ call.op = "save"
      /\ \/ call' = call /\ reply' = reply
         \/ call' = NoCall /\ reply' = "failed"
  <2>1. CASE WritePayload
    BY <2>1, WriteKeyCases DEF WritePayload, StoreInv, SaveSteps
  <2>2. CASE WriteMeta
    BY <2>2, WriteKeyCases DEF WriteMeta, StoreInv, SaveSteps
  <2>3. CASE WriteMarker
    <3>1. WriteKey("valid", TRUE, "done") /\ step = "mark"
      BY <2>3 DEF WriteMarker
    <3>2. /\ promise' = promise
          /\ \/ call' = call /\ reply' = reply
             \/ call' = NoCall /\ reply' = "failed"
      BY <3>1, WriteKeyCases, Zenon
    <3> QED BY <3>1, <3>2 DEF StoreInv, SaveSteps
  <2> QED BY <2>1, <2>2, <2>3
<1>2. Load' = Load \/ Commits
  BY <1>1, WriteCommits
<1>3. CASE call' = call /\ reply' = reply
  BY <1>1, <1>2, <1>3
  DEF Commits, Register!RegisterNext, Register!Commit, Register!registerVars
<1>4. CASE call' = NoCall /\ reply' = "failed"
  BY <1>1, <1>2, <1>4
  DEF Commits, Register!RegisterNext, Register!Return, Register!NoCall, NoCall
<1> QED BY <1>1, <1>3, <1>4

(* config_store_save changes the contents at one moment, from the old ones  *)
(* to exactly the new ones under the next generation, or not at all,        *)
(* wherever a write or the power fails; config_store_clear and a rotten     *)
(* slot fall back by one generation or to nothing.                          *)
THEOREM StoreImplementsRegister == Spec => StoreIsRegister
<1> USE DEF Register!RegisterNext, Register!registerVars
<1>1. Init => Register!RegisterInit
  <2> SUFFICES ASSUME Init
               PROVE  Register!RegisterInit
    OBVIOUS
  <2>1. ~Good(nvs[0]) /\ ~Good(nvs[1])
    BY DEF Init, EmptySlot, Good, Slots
  <2>2. Load = Nothing
    BY <2>1, LoadIs DEF ContentsOf
  <2> QED BY <2>2 DEF Init, Register!RegisterInit, Register!NoCall, NoCall
<1>2. TypeOK /\ StoreInv /\ [Next]_vars
        => Register!RegisterNext \/ UNCHANGED Register!registerVars
  <2> SUFFICES ASSUME TypeOK, StoreInv, [Next]_vars, promise' # "nothing"
               PROVE  Register!RegisterNext \/ UNCHANGED Register!registerVars
    OBVIOUS
  <2>0. Load = ContentsOf(nvs) /\ Load' = ContentsOf(nvs')
    BY LoadIs
  <2>1. ASSUME NEW config \in Configs, StartSave(config)
        PROVE  Register!Begin /\ promise' = promise
    <3> DEFINE valid(unreadable) == ValidSlots \ unreadable
    <3>1. PICK unreadable \in ReadFailures :
            /\ call' = [op |-> "save", config |-> config,
                        generation |-> NextGeneration(valid(unreadable))]
            /\ promise' = IF valid(unreadable) = ValidSlots THEN promise ELSE "nothing"
      BY <2>1 DEF StartSave
    <3>2. valid(unreadable) = ValidSlots /\ promise' = promise
      BY <3>1
    <3>3. reply' = "none" /\ nvs' = nvs /\ call = NoCall
      BY <2>1 DEF StartSave, Idle
    <3>4. NextGeneration(ValidSlots) = Register!Following(Load)
      BY <2>0, Choice DEF Register!Following
    <3> HIDE DEF valid
    <3> QED
      BY <2>0, <3>1, <3>2, <3>3, <3>4 DEF Register!Begin, Register!NoCall, NoCall
  <2>2. CASE Unmark
    <3>1. /\ call' = call /\ reply' = reply /\ call.op = "save" /\ step = "unmark"
          /\ promise' = promise \/ (promise = "register" /\ promise' = "contents")
          /\ promise # "nothing"
      BY <2>2 DEF Unmark, StoreInv, SaveSteps
    <3>2. Load' = Load
      <4>1. CASE nvs' = nvs
        BY <2>0, <4>1
      <4>2. CASE Put("valid", FALSE)
        <5>1. /\ nvs' \in Storages /\ nvs'[1 - target] = Other /\ ~Good(nvs'[target])
          BY <4>2, MarkerPut DEF Good
        <5>2. Load' = IF Good(Other) THEN Held(Other) ELSE Nothing
          BY <2>0, <5>1, SlotsOf, ContentsCases
        <5>3. Load = IF Good(Other) THEN Held(Other) ELSE Nothing
          <6>1. CASE Good(Kept)
            BY <2>0, <3>1, <6>1 DEF StoreInv, SparesSlotInUse
          <6>2. CASE ~Good(Kept)
            BY <2>0, <6>2, SlotsOf, ContentsCases DEF Kept, Other
          <6> QED BY <6>1, <6>2
        <5> QED BY <5>2, <5>3
      <4> QED BY <2>2, <4>1, <4>2 DEF Unmark
    <3> QED BY <3>1, <3>2 DEF Register!Weaken
  <2>3. CASE WritePayload \/ WriteMeta \/ WriteMarker
    <3>1. promise # "nothing"
      <4>1. CASE WritePayload
        BY <4>1, WriteKeyCases DEF WritePayload
      <4>2. CASE WriteMeta
        BY <4>2, WriteKeyCases DEF WriteMeta
      <4>3. CASE WriteMarker
        <5>1. WriteKey("valid", TRUE, "done")
          BY <4>3 DEF WriteMarker
        <5> QED BY <5>1, WriteKeyCases, Zenon
      <4> QED BY <2>3, <4>1, <4>2, <4>3
    <3> QED BY <2>3, <3>1, WriteIsStep
  <2>4. CASE SaveDone
    <3>1. /\ step = "done" /\ call.op = "save" /\ nvs' = nvs /\ promise' = promise
          /\ call' = NoCall /\ reply' = "ok" /\ Load' = Load
      BY <2>0, <2>4 DEF SaveDone, Return, StoreInv, SaveSteps
    <3>2. Kept.payload = call.config /\ Kept.valid
          /\ Kept.meta = [generation |-> call.generation, sum |-> call.config]
      BY <3>1 DEF StoreInv, WrittenSoFar
    <3>3. Kept.meta \in Headers
      BY <3>1, <3>2, CallParts DEF Headers
    <3>4. Good(Kept)
      BY <3>2, <3>3, NothingAssumption DEF Good
    <3>5. Good(Other) => Follows(Kept.meta.generation, Other.meta.generation)
      BY <3>1, <3>2 DEF StoreInv, SparesSlotInUse, Follows
    <3>6. Load = Held(Kept)
      BY <2>0, <3>4, <3>5, SlotsOf, ContentsCases DEF Kept, Other
    <3>7. Commits
      BY <3>1, <3>2, <3>4, <3>6, SlotsOf, GoodParts DEF Commits, Register!Becomes
    <3> QED
      BY <3>1, <3>7 DEF Commits, Register!Return, Register!NoCall, NoCall
  <2>5. CASE OpenFails
    BY <2>0, <2>5
    DEF OpenFails, progress, Idle, Register!Refuse, Register!NoCall, NoCall
  <2>6. CASE StartClear
    BY <2>0, <2>6
    DEF StartClear, Idle, Register!Begin, Register!NoCall, NoCall
  <2>7. ASSUME NEW slot \in Slots, NEW key \in DOMAIN EmptySlot, EraseKey(slot, key)
        PROVE  Register!RegisterNext \/ UNCHANGED Register!registerVars
    <3>1. call.op = "clear" /\ call' = call /\ reply' = reply /\ promise' = promise
      BY <2>7 DEF EraseKey, progress
    <3> QED BY <2>7, <3>1, EraseFacts, LosesOne
  <2>8. CASE ClearDone
    <3>1. /\ call.op = "clear" /\ call # NoCall /\ call' = NoCall
          /\ promise' = promise /\ Load' = Load
          /\ \/ nvs = [slot \in Slots |-> EmptySlot] /\ reply' = "ok"
             \/ reply' = "failed"
      BY <2>0, <2>8 DEF ClearDone, Return, NoCall
    <3>2. nvs = [slot \in Slots |-> EmptySlot] => Load = Nothing
      BY <2>0 DEF ContentsOf, Good, EmptySlot, Slots
    <3> QED BY <3>1, <3>2 DEF Register!Return, Register!NoCall, NoCall
  <2>9. CASE PowerFails
    BY <2>0, <2>9 DEF PowerFails, Register!PowerFails, Register!NoCall, NoCall
  <2>10. ASSUME NEW slot \in Slots, SlotRots(slot)
         PROVE  Register!RegisterNext \/ UNCHANGED Register!registerVars
    <3>1. call = NoCall /\ call' = call /\ reply' = reply /\ promise' = promise
      BY <2>10 DEF SlotRots, Idle, progress
    <3> QED BY <2>10, <3>1, RotFacts, LosesOne
  <2>11. CASE UNCHANGED vars
    BY <2>0, <2>11 DEF vars, progress
  <2> QED
    BY <2>1, <2>2, <2>3, <2>4, <2>5, <2>6, <2>7, <2>8, <2>9, <2>10, <2>11 DEF Next
<1> QED
  BY <1>1, <1>2, TypeCorrect, InvHolds, PTL DEF Spec, StoreIsRegister, Register!RegisterSpec

=============================================================================
