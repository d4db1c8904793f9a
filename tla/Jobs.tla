-------------------------------- MODULE Jobs --------------------------------
(***************************************************************************)
(* The exercises of the repository are functions from an input to a        *)
(* result.  A job is one call: "out" is empty until the call has returned  *)
(* and then holds what it returned.                                        *)
(***************************************************************************)
VARIABLES job, out

jobVars == <<job, out>>

Returned(kind) == job.kind = kind /\ out # <<>>

Call(kind, result) ==
  /\ job.kind = kind
  /\ out = <<>>
  /\ out' = <<result>>
  /\ UNCHANGED job
=============================================================================
