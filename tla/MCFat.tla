--------------------------------- MODULE MCFat ---------------------------------
(* Fat on its own, with a driver that never confuses two requests.           *)
EXTENDS Fat, MCVolumes
=============================================================================
