--------------------------- MODULE ConfigRegister --------------------------
(***************************************************************************)
(* What the configuration storage promises: one register.  A save changes  *)
(* it at one moment, from the old contents to exactly the new ones under   *)
(* the next generation, or not at all, wherever the power fails; a save    *)
(* that is reported as done has changed it.  Only clearing and a damaged   *)
(* slot make it fall back: to the generation before, or to nothing.        *)
(*                                                                         *)
(* Two mishaps weaken this.  After a marker that silently stayed on a      *)
(* rotted slot the contents still change at once and to what was asked     *)
(* for, but under any number; after a save that could not read a slot      *)
(* nothing is promised.                                                    *)
(***************************************************************************)
EXTENDS Integers

CONSTANTS Configs, Nothing, GenModulus

VARIABLES
  saved,     (* what a load returns: [config, generation], or Nothing     *)
  call,      (* the operation under way                                   *)
  reply,     (* how the last one was reported                             *)
  promise    (* "register", "contents" or "nothing"                       *)

registerVars == <<saved, call, reply, promise>>

NoCall == [op |-> "none"]

RegisterInit ==
  /\ saved = Nothing
  /\ call = NoCall
  /\ reply = "none"
  /\ promise = "register"

(* The configuration under this number, as far as numbers are promised. *)
Becomes(config, generation) ==
  /\ saved' # Nothing
  /\ saved'.config = config
  /\ promise' = "register" => saved'.generation = generation

Following(contents) ==
  IF contents = Nothing THEN 1 ELSE (contents.generation + 1) % GenModulus

Begin ==
  /\ call = NoCall
  /\ \/ call' = [op |-> "clear"]
     \/ \E c \in Configs :
          call' = [op |-> "save", config |-> c, generation |-> Following(saved)]
  /\ reply' = "none"
  /\ UNCHANGED saved

Commit ==
  /\ call.op = "save"
  /\ Becomes(call.config, call.generation)
  /\ UNCHANGED <<call, reply>>

(* A failure report says nothing about what was written last. *)
Return ==
  /\ call # NoCall
  /\ \/ /\ reply' = "ok"
        /\ IF call.op = "save" THEN Becomes(call.config, call.generation)
                               ELSE saved' = Nothing
     \/ /\ reply' = "failed"
        /\ \/ saved' = saved
           \/ call.op = "save" /\ Becomes(call.config, call.generation)
  /\ call' = NoCall

(* A clearing under way, or damage: back by one generation, or to nothing. *)
FallsBack ==
  /\ call = NoCall \/ call.op = "clear"
  /\ \/ saved' = Nothing
     \/ /\ saved # Nothing
        /\ \E c \in Configs, g \in 0..GenModulus - 1 :
             /\ (g + 1) % GenModulus = saved.generation
             /\ Becomes(c, g)
  /\ UNCHANGED <<call, reply>>

(* A call refused before it began, or a power failure. *)
Refuse ==
  /\ call = NoCall
  /\ reply' = "failed"
  /\ UNCHANGED <<saved, call>>

PowerFails ==
  /\ call' = NoCall
  /\ reply' = "none"
  /\ UNCHANGED saved

(* A marker that stays, while a save is under way: no more than the promise *)
(* changes.                                                                 *)
Weaken ==
  /\ call.op = "save"
  /\ promise = "register" /\ promise' = "contents"
  /\ UNCHANGED <<saved, call, reply>>

RegisterNext ==
  \/ promise' = promise /\ (Begin \/ Commit \/ Return \/ FallsBack \/ Refuse \/ PowerFails)
  \/ Weaken
  \/ promise' = "nothing"

RegisterSpec == RegisterInit /\ [][RegisterNext]_registerVars

=============================================================================
