--------------------------- MODULE FactorLifecycle ---------------------------
(***************************************************************************)
(* What the commands promise about one factor, as its readers see it: the  *)
(* status in factor_state and whether entered_at is set.  The transitions  *)
(* are the ones the code of each command is written for; when and how the  *)
(* files move is left to FactorOps, which implements this module as long   *)
(* as one process checks and nothing fails.                                *)
(***************************************************************************)
VARIABLES status, entered

lifecycle == <<status, entered>>

Unknown == status = "none"

LifecycleInit == Unknown /\ entered = FALSE

Submit == Unknown /\ status' = "submitted" /\ UNCHANGED entered

\* submit --overwrite: whatever the factor was, its new code waits for a check.
Overwrite == ~Unknown /\ status' = "submitted" /\ UNCHANGED entered

BeginCheck == status = "submitted" /\ status' = "checking" /\ UNCHANGED entered

Pass == status = "checking" /\ status' = "active" /\ entered' = TRUE

Reject == status = "checking" /\ status' = "rejected" /\ UNCHANGED entered

PutBack == status = "checking" /\ status' = "submitted" /\ UNCHANGED entered

Restage == status \in {"active", "rejected"} /\ status' = "submitted" /\ UNCHANGED entered

Approve == status = "rejected" /\ status' = "active" /\ entered' = TRUE

\* cancel is for factors that never entered the library.
Cancel == status \in {"submitted", "checking"} /\ ~entered /\ status' = "none" /\ UNCHANGED entered

Remove == ~Unknown /\ status' = "none" /\ entered' = FALSE

LifecycleNext == Submit \/ Overwrite \/ BeginCheck \/ Pass \/ Reject \/ PutBack
              \/ Restage \/ Approve \/ Cancel \/ Remove

Lifecycle == LifecycleInit /\ [][LifecycleNext]_lifecycle

=============================================================================
