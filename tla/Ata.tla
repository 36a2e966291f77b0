---------------------------------- MODULE Ata ----------------------------------
(***************************************************************************)
(* ata.c and the disk behind the primary ATA ports.  A call waits for BSY  *)
(* to clear, writes its command, waits for DRQ and reads the 256 words of  *)
(* one sector (every caller asks for one).  Its waits are bounded: a call  *)
(* gives up while the disk is still at work and does not reset it, so the  *)
(* next call meets a disk that may have the abandoned sector to hand over. *)
(***************************************************************************)
EXTENDS Integers

CONSTANTS
  Lba28,      \* the addresses a command can name: 2^28
  Identify,   \* the command ata_init sends; its sector is the identity
  Pending     \* the answer of a call that has not returned

ASSUME AtaAssumption ==
  /\ Lba28 \in Nat \ {0}
  /\ Pending # [ok |-> FALSE, sector |-> 0]
  /\ \A s \in (0 .. Lba28 - 1) \cup {Identify} : Pending # [ok |-> TRUE, sector |-> s]

Commands == (0 .. Lba28 - 1) \cup {Identify}

VARIABLES
  call,     \* [at, command]: "idle" outside the calls, "notbusy" in the first
            \* wait, "command", "status" (read by ata_init only), "drq" in the
            \* second wait, "return"
  drive,    \* [kind, state, of, mine]: a "disk", or ports that read 0xFF
            \* ("floating") or 0 ("none"); a disk is "idle", "busy" (BSY) or
            \* has the words of command "of" to give ("data": DRQ; "bad": DRQ
            \* and ERR).  mine is a ghost: the call in progress sent "of".
  answer    \* what the latest call has returned

ataVars == <<call, drive, answer>>

Failure == [ok |-> FALSE, sector |-> 0]

Busy == drive.kind = "floating" \/ drive.state = "busy"

-----------------------------------------------------------------------------
(* The calls *)

Start(c) ==
  /\ call.at = "idle"
  /\ call' = [at |-> "notbusy", command |-> c]
  /\ answer' = Pending
  /\ UNCHANGED drive

ata_init == Start(Identify)

\* 28 bits of the address reach the disk.
ata_read28(lba) == Start(lba % Lba28)

GoTo(at) == call' = [call EXCEPT !.at = at]

\* The call fails; whatever the disk is doing goes on.
GiveUp ==
  /\ GoTo("return")
  /\ answer' = Failure
  /\ drive' = [drive EXCEPT !.mine = FALSE]

ata_wait_not_busy ==
  /\ call.at = "notbusy"
  /\ IF Busy THEN GiveUp ELSE GoTo("command") /\ UNCHANGED <<drive, answer>>

\* A disk that has words to give may ignore a command (QEMU's does) or drop
\* the words for it.
MayAccept == drive.kind = "disk"
MayIgnore == drive.kind # "disk" \/ drive.state # "idle"

WriteCommand ==
  /\ call.at = "command"
  /\ GoTo(IF call.command = Identify THEN "status" ELSE "drq")
  /\ \/ /\ MayAccept
        /\ drive' = [drive EXCEPT !.state = "busy", !.of = call.command, !.mine = TRUE]
     \/ MayIgnore /\ UNCHANGED drive
  /\ UNCHANGED answer

\* ata_init takes a status of 0 for no disk.
ReadStatus ==
  /\ call.at = "status"
  /\ IF drive.kind = "none" THEN GiveUp ELSE GoTo("drq") /\ UNCHANGED <<drive, answer>>

\* ERR or no DRQ to the end of the loop.
ata_wait_drq ==
  /\ call.at = "drq" /\ drive.state # "data"
  /\ GiveUp

\* Mutant of Emptied: the last word is left in the disk.
EmptiedOneShort(d) == [d EXCEPT !.mine = FALSE]

\* All 256 words have been read.
Emptied(d) == [d EXCEPT !.state = "idle", !.mine = FALSE]

ReadWords ==
  /\ call.at = "drq" /\ drive.state = "data"
  /\ answer' = [ok |-> TRUE, sector |-> drive.of]
  /\ drive' = Emptied(drive)
  /\ GoTo("return")

CallStep == ata_wait_not_busy \/ WriteCommand \/ ReadStatus \/ ata_wait_drq \/ ReadWords

-----------------------------------------------------------------------------
(* The disk ends a command: with the words, with words and an error, or with *)
(* an error alone.                                                           *)
Serve ==
  /\ drive.kind = "disk" /\ drive.state = "busy"
  /\ \E state \in {"data", "bad", "idle"} : drive' = [drive EXCEPT !.state = state]
  /\ UNCHANGED <<call, answer>>

Return ==
  /\ call.at = "return"
  /\ GoTo("idle")
  /\ UNCHANGED <<drive, answer>>

-----------------------------------------------------------------------------
Init ==
  /\ call = [at |-> "idle", command |-> Identify]
  /\ \E kind \in {"disk", "floating", "none"} :
       drive = [kind |-> kind, state |-> "idle", of |-> Identify, mine |-> FALSE]
  /\ answer = Failure

Next ==
  \/ ata_init
  \/ \E lba \in 0 .. Lba28 - 1 : ata_read28(lba)
  \/ CallStep \/ Serve \/ Return

Spec == Init /\ [][Next]_ataVars

-----------------------------------------------------------------------------
\* The records, and how they hang together: a call has no answer exactly
\* while it is under way, and the disk is at the call's own command only once
\* the call has written it.
TypeOK ==
  /\ call \in [at : {"idle", "notbusy", "command", "status", "drq", "return"},
               command : Commands]
  /\ drive \in [kind : {"disk", "floating", "none"},
                state : {"idle", "busy", "data", "bad"},
                of : Commands, mine : BOOLEAN]
  /\ drive.kind # "disk" => drive.state = "idle"
  /\ drive.mine => call.at \in {"status", "drq"} /\ drive.of = call.command
  /\ answer = Pending <=> call.at \notin {"idle", "return"}

\* The sector an abandoned call has left.
Owed ==
  IF drive.state \in {"busy", "data"} /\ ~drive.mine THEN {drive.of} ELSE {}

Store == INSTANCE SectorStore WITH
           Sectors <- Commands,
           asked   <- call.command,
           owed    <- Owed

\* ata.c is such a store: an answer is the sector asked for or the one sector
\* that a call which was given up left behind, and a call that succeeds leaves
\* nothing for the next.
StoreSpec == Store!Spec
=============================================================================
