--------------------------- MODULE MCRequestLink ---------------------------
(* Instances of RequestLink for TLC: two requests of one kind that differ  *)
(* in their payload, and a ping.                                           *)
EXTENDS RequestLink

MCCommands ==
  {[msg |-> "CONFIG_STAGE_FIELD", body |-> "host_timeout_ms"],
   [msg |-> "CONFIG_STAGE_FIELD", body |-> "direction_inverted"],
   [msg |-> "PING", body |-> "empty"]}

=============================================================================
