------------------------ MODULE MCSupervisedService ------------------------
(* SupervisedService on a small instance. *)
EXTENDS SupervisedService
=============================================================================
