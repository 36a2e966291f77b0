-------------------------------- MODULE MCDisk --------------------------------
(* Fat over Ata, on the volumes at sector 0.                                 *)
EXTENDS DiskBoot, MCVolumes
=============================================================================
