------------------------ MODULE MCProcessSupervision ------------------------
(* ProcessSupervision on a small instance. *)
EXTENDS ProcessSupervision
=============================================================================
