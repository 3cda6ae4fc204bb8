----------------------------- MODULE PrepareOnce -----------------------------
(***************************************************************************)
(* What prepare() of every object of the package promises: the object      *)
(* captures its inputs when it is constructed, a call either retains one   *)
(* complete value of those inputs or nothing at all, and what is retained  *)
(* is retained for good. A refused call leaves no trace.                   *)
(***************************************************************************)
CONSTANTS
  Values(_),   \* what may be retained of a capture: nothing, if it must be refused
  Nothing

VARIABLES captured, retained

POInit == retained = Nothing

POPrepare ==
  /\ retained = Nothing /\ retained' # Nothing
  /\ retained' \in Values(captured)
  /\ UNCHANGED captured

POSpec == POInit /\ [][POPrepare]_<<captured, retained>>
=============================================================================
