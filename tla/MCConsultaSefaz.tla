--------------------------- MODULE MCConsultaSefaz ----------------------------
(* ConsultaSefaz on a small instance. *)
EXTENDS ConsultaSefaz
=============================================================================
