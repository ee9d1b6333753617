--------------------------- MODULE LimiterAbstract ---------------------------
(***************************************************************************)
(* What a limiter job promises the Looper that runs it, in terms of its    *)
(* pending size (Limiter.Pending): the pending size only goes down while   *)
(* the process lives, a save records the current pending size, and a       *)
(* restart resumes from the pending size last saved.                       *)
(***************************************************************************)
EXTENDS Integers

CONSTANT Size

VARIABLES
    pending,       \* point.Size minus the fills the job has recorded
    savedPending   \* the same, for the state last written to the store

avars == <<pending, savedPending>>

AInit == pending = Size /\ savedPending = Size

\* The job learns of fills; the step may also save the new pending size.
Progress ==
    /\ pending' <= pending
    /\ savedPending' \in {savedPending, pending'}

\* The process restarts from the saved state.
Restart ==
    /\ pending' = savedPending
    /\ UNCHANGED savedPending

ANext == Progress \/ Restart

ASpec == AInit /\ [][ANext]_avars
=============================================================================
