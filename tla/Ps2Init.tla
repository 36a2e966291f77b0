-------------------------------- MODULE Ps2Init --------------------------------
(***************************************************************************)
(* init_ps2_mouse against the 8042.  The kernel writes a byte when the     *)
(* controller has taken the one before and reads whatever byte is first in *)
(* the port: the reply it waits for, or a key that was pressed or released *)
(* meanwhile.  A byte is the set of its bits.                              *)
(***************************************************************************)
EXTENDS Integers, Sequences

CONSTANTS
  Config,       \* the controller's configuration at boot
  Ack,          \* 0xFA
  Scancodes,    \* bytes the keyboard sends
  MaxArrived    \* bound on the bytes that arrive during the initialisation

KeyboardOff == 4     \* bits of the configuration
MouseOff    == 5
MouseIrq    == 1

Bytes == SUBSET (0 .. 7)

ASSUME Ps2Assumption ==
  /\ MaxArrived \in Nat
  /\ Config \in Bytes /\ Ack \in Bytes /\ Scancodes \subseteq Bytes

VARIABLES
  stage,     \* the write or read init_ps2_mouse is at, 0 before its call
  status,    \* the configuration it read
  inbuf,     \* the write the controller has not taken yet, or "none"
  config, reporting,
  acks,      \* replies the mouse has not sent yet
  port,      \* bytes to be read, oldest first
  hardware,  \* "mouse", "no_mouse", or "no_controller": status reads 0xFF
  arrived    \* how many bytes came that no command asked for

psVars == <<stage, status, inbuf, config, reporting, acks, port, hardware, arrived>>

-----------------------------------------------------------------------------
(* init_ps2_mouse *)

\* Mutant of Order: the second acknowledgement is left in the port.
OrderOneRead ==
  <<"enable_aux", "ask_config", "read_config", "set_config", "config_data",
    "prefix", "set_defaults", "read_ack", "prefix", "enable_reports">>

\* Its writes and reads: 0xA8, 0x20, a read, 0x60 and the configuration, and
\* twice 0xD4, 0xF6 or 0xF4 for the mouse, and a read.
Order ==
  <<"enable_aux", "ask_config", "read_config", "set_config", "config_data",
    "prefix", "set_defaults", "read_ack", "prefix", "enable_reports", "read_ack">>

Reads == {"read_config", "read_ack"}
Operations ==
  Reads \cup {"enable_aux", "ask_config", "set_config", "config_data", "prefix",
              "set_defaults", "enable_reports"}
Done == stage > Len(Order)
Operation == IF stage \in DOMAIN Order THEN Order[stage] ELSE "none"

init_ps2_mouse ==
  /\ stage = 0
  /\ stage' = 1
  /\ UNCHANGED <<status, inbuf, config, reporting, acks, port, hardware, arrived>>

\* ps2_write_cmd and ps2_write_data: an absent controller looks full for ever.
Write ==
  /\ stage > 0 /\ ~Done /\ Operation \notin Reads
  /\ inbuf = "none" /\ hardware # "no_controller"
  /\ inbuf' = Operation
  /\ stage' = stage + 1
  /\ UNCHANGED <<status, config, reporting, acks, port, hardware, arrived>>

ps2_read_data ==
  /\ port # << >>
  /\ port' = Tail(port)
  /\ stage' = stage + 1

ReadConfig ==
  /\ Operation = "read_config"
  /\ ps2_read_data
  /\ status' = Head(port) \cup {MouseIrq}
  /\ UNCHANGED <<inbuf, config, reporting, acks, hardware, arrived>>

ReadAck ==
  /\ Operation = "read_ack"
  /\ ps2_read_data
  /\ UNCHANGED <<status, inbuf, config, reporting, acks, hardware, arrived>>

-----------------------------------------------------------------------------
(* The controller and the devices *)

\* The controller takes a command or a byte for the configuration or the mouse.
Handle ==
  /\ inbuf # "none"
  /\ inbuf' = "none"
  /\ config' = CASE inbuf = "enable_aux" -> config \ {MouseOff}
                 [] inbuf = "config_data" -> status
                 [] OTHER -> config
  /\ port' = IF inbuf = "ask_config" THEN Append(port, config) ELSE port
  /\ acks' = IF inbuf \in {"set_defaults", "enable_reports"} THEN acks + 1 ELSE acks
  /\ reporting' = CASE inbuf = "set_defaults" -> FALSE
                    [] inbuf = "enable_reports" -> hardware = "mouse"
                    [] OTHER -> reporting
  /\ UNCHANGED <<stage, status, hardware, arrived>>

Acknowledge ==
  /\ acks > 0 /\ hardware = "mouse"
  /\ acks' = acks - 1
  /\ port' = Append(port, Ack)
  /\ UNCHANGED <<stage, status, inbuf, config, reporting, hardware, arrived>>

\* A key, or a packet byte once the mouse reports.
Arrive(byte) ==
  /\ ~Done /\ arrived < MaxArrived
  /\ port' = Append(port, byte)
  /\ arrived' = arrived + 1
  /\ UNCHANGED <<stage, status, inbuf, config, reporting, acks, hardware>>

Arrivals ==
  /\ hardware # "no_controller"
  /\ \/ KeyboardOff \notin config /\ \E byte \in Scancodes : Arrive(byte)
     \/ reporting /\ acks = 0 /\ MouseOff \notin config /\ Arrive({})

Kernel == Write \/ ReadConfig \/ ReadAck
Devices == Handle \/ Acknowledge

-----------------------------------------------------------------------------
PsTypeOK ==
  /\ stage \in 0 .. Len(Order) + 1
  /\ inbuf \in {"none"} \cup Operations
  /\ acks \in Nat /\ arrived \in 0 .. MaxArrived
  /\ port \in Seq(Bytes) /\ status \in Bytes /\ config \in Bytes
  /\ reporting \in BOOLEAN
  /\ hardware \in {"mouse", "no_mouse", "no_controller"}
  /\ hardware = "no_controller" => inbuf = "none"

PsInit ==
  /\ stage = 0 /\ status = {} /\ inbuf = "none"
  /\ config = Config /\ reporting = FALSE
  /\ acks = 0 /\ port = << >> /\ arrived = 0
  /\ hardware \in {"mouse", "no_mouse", "no_controller"}

PsNext == init_ps2_mouse \/ Kernel \/ Devices \/ Arrivals

PsSpec == PsInit /\ [][PsNext]_psVars

-----------------------------------------------------------------------------
\* The replies the bytes under way will bring.
Due == acks + IF inbuf \in {"ask_config", "set_defaults", "enable_reports"} THEN 1 ELSE 0

\* Each command with a reply is followed by one read, so the port is behind by
\* the bytes that came unasked and by nothing else: what the kernel's loop
\* finds there later starts at a key or at a packet, or - when a key was taken
\* for a reply - at the reply it displaced.
LeftInPort ==
  hardware # "no_controller" =>
    Len(port) + Due = arrived + (IF Operation \in Reads THEN 1 ELSE 0)
=============================================================================
