-------------------------------- MODULE Steps --------------------------------
(***************************************************************************)
(* Where a request or a handler stands: a record whose field pc names its  *)
(* next step.                                                              *)
(***************************************************************************)
Idle == [pc |-> "idle"]     \* not started
Done == [pc |-> "done"]     \* through, for what runs only once
=============================================================================
