----------------------------- MODULE ConfigBlob -----------------------------
(***************************************************************************)
(* A configuration as the bytes that are stored: serialize_config and      *)
(* deserialize_config of firmware/src/config_validation.cpp.  Bytes count  *)
(* to ByteValues, 256 in the code.                                         *)
(***************************************************************************)
EXTENDS ConfigFields, Sequences

CONSTANTS ByteValues,
          MinBlob, MaxBlob   (* 96 and CONFIG_BLOB_MAX_SIZE                 *)

ASSUME BlobAssumption == ByteValues \in Nat /\ ByteValues > 1 /\ ByteValues % 2 = 0

(* The members in the order both functions take them in. *)
Layout == <<
  <<"version", "u16">>, <<"step_pin", "i16">>, <<"dir_pin", "i16">>,
  <<"enable_pin", "i16">>, <<"enable_active_low", "bool">>, <<"tmc_uart_rx_pin", "i16">>,
  <<"tmc_uart_tx_pin", "i16">>, <<"tmc_uart_baud", "u32">>,
  <<"tmc_driver_address", "u8">>, <<"sense_resistor_milliohm", "u16">>,
  <<"full_steps_per_rev", "u16">>, <<"gear_ratio_num", "u16">>, <<"gear_ratio_den", "u16">>,
  <<"units_per_rev", "u32">>, <<"max_current_ma", "u16">>,
  <<"RUN_CURRENT_MA", "u16">>, <<"HOLD_CURRENT_MA", "u16">>, <<"MICROSTEPS", "u16">>,
  <<"DRIVER_MODE", "u8">>, <<"blank_time", "u8">>, <<"toff", "u8">>, <<"interpolation", "bool">>,
  <<"DEFAULT_MAX_VELOCITY_SPS", "u32">>, <<"DEFAULT_MAX_ACCEL_SPS2", "u32">>,
  <<"max_travel_steps", "i32">>, <<"SOFT_LIMITS_ENABLED", "bool">>,
  <<"SOFT_LIMIT_MIN_STEPS", "i32">>, <<"SOFT_LIMIT_MAX_STEPS", "i32">>,
  <<"DEFAULT_STOP_DECEL_SPS2", "u32">>, <<"TELEMETRY_INTERVAL_MS", "u16">>,
  <<"enabled_fields", "u16">>, <<"binary_stream_enabled", "bool">>,
  <<"POSITION_OFFSET_STEPS", "i32">>, <<"HOME_POSITION_STEPS", "i32">>,
  <<"DIRECTION_INVERTED", "bool">>, <<"soft_limit_origin_steps", "i32">>,
  <<"HOST_TIMEOUT_MS", "u32">>, <<"VELOCITY_TIMEOUT_ACTION", "u8">>,
  <<"ENABLE_TIMEOUT_MS", "u32">>, <<"MAX_ALLOWED_CURRENT_MA", "u16">>,
  <<"MAX_ALLOWED_VELOCITY_SPS", "u32">>, <<"MAX_ALLOWED_ACCEL_SPS2", "u32">> >>

Width(type) ==
  CASE type \in {"u8", "bool"} -> 1
    [] type \in {"u16", "i16"} -> 2
    [] OTHER -> 4

(* What a byte counts for, by its place, and how many values they all make. *)
Weight == <<1, ByteValues, ByteValues * ByteValues, ByteValues * ByteValues * ByteValues>>

Values(type) == ByteValues * Weight[Width(type)]

(* write_u16, write_u32 and write_i32, low byte first. *)
Bytes(value, type) == [i \in 1..Width(type) |-> (value \div Weight[i]) % ByteValues]

(* read_u16, read_u32, read_i32 and read_bool. *)
Value(bytes, type) ==
  LET low == bytes[1]
      pair == low + Weight[2] * bytes[2]
      sum == CASE Width(type) = 1 -> low
               [] Width(type) = 2 -> pair
               [] OTHER -> pair + Weight[3] * bytes[3] + Weight[4] * bytes[4]
  IN  CASE type = "bool" -> IF sum # 0 THEN 1 ELSE 0
        [] type \in {"i16", "i32"} -> IF 2 * sum >= Values(type) THEN sum - Values(type) ELSE sum
        [] OTHER -> sum

(* The numbers of the C++ type. *)
Fits(value, type) ==
  CASE type = "bool" -> value \in {0, 1}
    [] type \in {"i16", "i32"} -> 0 - Values(type) <= 2 * value /\ 2 * value < Values(type)
    [] OTHER -> value \in 0..Values(type) - 1

(* How far both functions have come after the first n members. *)
Offset ==
  LET after[n \in 0..Len(Layout)] ==
        IF n = 0 THEN 0 ELSE after[n - 1] + Width(Layout[n][2])
  IN  [n \in 0..Len(Layout) |-> after[n]]

BlobLength == Offset[Len(Layout)]

(* The bytes of the i-th member. *)
Stretch(i) == Offset[i - 1] + 1..Offset[i]

(* The member a byte belongs to, and the place of a member in the layout.   *)
Owner == [k \in 1..BlobLength |-> CHOOSE i \in DOMAIN Layout : k \in Stretch(i)]

Place == [m \in Members |-> CHOOSE i \in DOMAIN Layout : Layout[i][1] = m]

(* The members are those that are stored (axis_name is not, and nothing     *)
(* reads or edits it), default_config() holds numbers of their types, and   *)
(* the bounds of ConfigFields are those of two and four bytes.              *)
ASSUME LayoutAssumption ==
  /\ Members = {Layout[i][1] : i \in DOMAIN Layout}
  /\ \A i \in DOMAIN Layout : Fits(Defaults[Layout[i][1]], Layout[i][2])
  /\ U16Max < Values("u16") /\ MaxMicrosteps < Values("u16")
  /\ 2 * (I32Max + 1) <= Values("i32")

(* A whole configuration is within the lengths that are accepted. *)
ASSUME LengthsAssumption ==
  /\ MinBlob \in Nat \ {0} /\ MaxBlob \in Nat
  /\ MinBlob <= BlobLength /\ BlobLength <= MaxBlob

(* Both functions give one result or none. *)
Refused == {}

(* What serialize_config writes to this place of the caller's buffer, which *)
(* is MaxBlob bytes of zeros.                                               *)
ByteAt(c, k) ==
  IF k > BlobLength THEN 0
  ELSE LET i == Owner[k]
       IN  Bytes(c[Layout[i][1]], Layout[i][2])[k - Offset[i - 1]]

(* serialize_config *)
Serialize(c) == IF ~Valid(c) THEN Refused ELSE {[k \in 1..MaxBlob |-> ByteAt(c, k)]}

Member(data, i) ==
  Value([k \in 1..Width(Layout[i][2]) |-> data[Offset[i - 1] + k]], Layout[i][2])

Decoded(data) == [m \in Members |-> Member(data, Place[m])]

(* An answer only for a configuration that validate_config accepts. *)
Checked(c) == IF Valid(c) THEN {c} ELSE Refused

(* A length that is not compared with what was read. *)
DeserializeShort(data, length) ==
  IF length \in MinBlob..MaxBlob THEN Checked(Decoded(data)) ELSE Refused

(* deserialize_config *)
Deserialize(data, length) ==
  IF length \in MinBlob..MaxBlob /\ BlobLength <= length
  THEN Checked(Decoded(data)) ELSE Refused

-----------------------------------------------------------------------------

(* What is saved comes back member by member, widths and signs included,    *)
(* and only at its full length: a payload that was cut short is refused,    *)
(* though the first check would let eight missing bytes pass.               *)
BlobRoundTrip ==
  /\ Serialize(config) # Refused
  /\ \A blob \in Serialize(config) :
       \A length \in {0, MinBlob - 1, MinBlob, BlobLength - 1, BlobLength, MaxBlob, MaxBlob + 1} :
         Deserialize(blob, length) =
           IF length \in BlobLength..MaxBlob THEN {config} ELSE Refused

=============================================================================
