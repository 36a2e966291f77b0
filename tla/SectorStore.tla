----------------------------- MODULE SectorStore -----------------------------
(***************************************************************************)
(* What ata.c promises the callers of ata_read28.  A request is answered   *)
(* once: with the sector it asked for, with a failure, or - because a      *)
(* request that was given up may leave the disk with its sector still to   *)
(* hand over - with the sector owed to such an earlier request.  No more   *)
(* than one sector is ever owed, and a request that is answered with a     *)
(* sector leaves none behind.                                              *)
(***************************************************************************)
CONSTANTS
  Sectors,    \* what can be asked for
  Pending     \* the answer while there is none

VARIABLES
  asked,      \* the latest request
  answer,     \* its answer
  owed        \* the sector an abandoned request has left to be handed over

storeVars == <<asked, answer, owed>>

Failure == [ok |-> FALSE, sector |-> 0]
Read(s) == [ok |-> TRUE, sector |-> s]

Init ==
  /\ asked \in Sectors
  /\ answer = Failure
  /\ owed = {}

Ask(s) ==
  /\ answer # Pending
  /\ asked' = s /\ answer' = Pending
  /\ UNCHANGED owed

Own ==
  /\ answer = Pending /\ owed = {}
  /\ answer' = Read(asked)
  /\ UNCHANGED <<asked, owed>>

Stale ==
  /\ answer = Pending
  /\ \E s \in owed : answer' = Read(s)
  /\ owed' = {}
  /\ UNCHANGED asked

Fail ==
  /\ answer = Pending
  /\ answer' = Failure
  /\ owed' = owed \/ owed' = {asked}
  /\ UNCHANGED asked

\* The disk drops what it owes: it failed at it, or took a new command.
Forget ==
  /\ owed' = {}
  /\ UNCHANGED <<asked, answer>>

Next == (\E s \in Sectors : Ask(s)) \/ Own \/ Stale \/ Fail \/ Forget

Spec == Init /\ [][Next]_storeVars
=============================================================================
