---------------------------- MODULE Computation ----------------------------
(***************************************************************************)
(* What one call computes: the shape shared by the modules whose           *)
(* behaviours start with the input of a call and end with its result.      *)
(* Several of them are checked together, so every call says whose it is.   *)
(***************************************************************************)
VARIABLES
    subject,   \* the module the call belongs to
    job,       \* the input
    out        \* the result, in a sequence of length one; empty before

NotYet == <<>>

Called(name, jobs) == subject = name /\ job \in jobs /\ out = NotYet
Computing(name) == subject = name /\ out = NotYet
Gives(result) == out' = <<result>> /\ UNCHANGED <<subject, job>>
Ended(name) == subject = name /\ out # NotYet
=============================================================================
