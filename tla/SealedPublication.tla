------------------------- MODULE SealedPublication --------------------------
(***************************************************************************)
(* What the runtime promises about one claimed Run/Attempt, whatever         *)
(* crashes, is lost or runs twice: one result is sealed, once; only a sealed *)
(* result that may be published automatically is ever exposed as the site's  *)
(* effective result, once; and only an exposed result is acknowledged.       *)
(***************************************************************************)
CONSTANTS
  Result,       \* results a calculation may seal
  Automatic,    \* those that may be published without a review
  NoResult      \* nothing sealed, nothing exposed

VARIABLES
  sealed,       \* the durable result
  exposed,      \* the effective result the Platform shows
  acknowledged  \* the publication is recorded next to the sealed result

vars == <<sealed, exposed, acknowledged>>

Init ==
  /\ sealed = NoResult
  /\ exposed = NoResult
  /\ acknowledged = FALSE

Seal ==
  /\ sealed = NoResult
  /\ sealed' \in Result
  /\ UNCHANGED <<exposed, acknowledged>>

Expose ==
  /\ sealed \in Automatic
  /\ exposed = NoResult
  /\ exposed' = sealed
  /\ UNCHANGED <<sealed, acknowledged>>

Acknowledge ==
  /\ ~acknowledged
  /\ exposed # NoResult
  /\ acknowledged' = TRUE
  /\ UNCHANGED <<sealed, exposed>>

Next == Seal \/ Expose \/ Acknowledge

Spec == Init /\ [][Next]_vars
=============================================================================
