------------------------------ MODULE Rotation ------------------------------
(***************************************************************************)
(* Certificate rotation (services/cert_rotation.py, client/_tls.py) of one *)
(* gateway.  The poll reads how long the certificate of the cached client  *)
(* was good for when it was validated; the registry gets a newer one from  *)
(* outside.                                                                *)
(***************************************************************************)
EXTENDS Integers

CONSTANTS
  Days,       \* bound on the clock, in days
  Validity,   \* days a new certificate is good for
  Threshold,  \* rotate below this many days
  MaxRetries  \* attempts per poll

VARIABLES
  today,  \* the clock
  stored, \* the day the registry's certificate expires
  client, \* the cached client: the same, and the days left at validation
  poll,   \* the running poll
  failed  \* gateway.cert_rotation_failed events

rotationVars == <<today, stored, client, poll, failed>>

NoClient == [expires |-> 0, left |-> 0]

RotationInit ==
  /\ today = 0
  /\ stored = Validity
  /\ client = NoClient
  /\ poll = [pc |-> "idle", attempt |-> 0]
  /\ failed = 0

\* validate_bundle: an expired certificate is refused.
Valid == stored > today
Validated == [expires |-> stored, left |-> stored - today]

Connect ==
  /\ client = NoClient /\ Valid
  /\ client' = Validated
  /\ UNCHANGED <<today, stored, poll, failed>>

Disconnect ==
  /\ client # NoClient /\ poll.pc = "idle"
  /\ client' = NoClient
  /\ UNCHANGED <<today, stored, poll, failed>>

\* seconds_until_expiry is a field of the validated bundle, not of the clock.
Due(c) == c.left <= Threshold

PollSkips ==
  /\ poll.pc = "idle"
  /\ client = NoClient \/ ~ Due(client)
  /\ poll' = [pc |-> "skipped", attempt |-> 0]
  /\ UNCHANGED <<today, stored, client, failed>>

PollRotates ==
  /\ poll.pc = "idle"
  /\ client # NoClient /\ Due(client)
  /\ poll' = [pc |-> "rotate", attempt |-> 1]
  /\ UNCHANGED <<today, stored, client, failed>>

\* The audit call that follows runs in a thread and is never awaited there.
Rotates ==
  /\ poll.pc = "rotate" /\ Valid
  /\ client' = Validated
  /\ poll' = [pc |-> "rotated", attempt |-> 0]
  /\ UNCHANGED <<today, stored, failed>>

RotateFails ==
  /\ poll.pc = "rotate"
  /\ IF poll.attempt < MaxRetries
       THEN poll' = [poll EXCEPT !.attempt = @ + 1] /\ UNCHANGED failed
       ELSE poll' = [pc |-> "gave up", attempt |-> 0] /\ failed' = failed + 1
  /\ UNCHANGED <<today, stored, client>>

PollEnds ==
  /\ poll.pc \in {"skipped", "rotated", "gave up"}
  /\ poll' = [pc |-> "idle", attempt |-> 0]
  /\ UNCHANGED <<today, stored, client, failed>>

NewCertificate ==
  /\ stored < today + Validity
  /\ stored' = today + Validity
  /\ UNCHANGED <<today, client, poll, failed>>

DayPasses ==
  /\ today < Days /\ poll.pc = "idle"
  /\ today' = today + 1
  /\ UNCHANGED <<stored, client, poll, failed>>

RotationNext ==
  \/ Connect
  \/ Disconnect
  \/ PollSkips
  \/ PollRotates
  \/ Rotates
  \/ RotateFails
  \/ PollEnds
  \/ NewCertificate
  \/ DayPasses

RotationSpec == RotationInit /\ [][RotationNext]_rotationVars

-----------------------------------------------------------------------------
(***************************************************************************)
(* The operations guide: a poll rotates every certificate that has fewer   *)
(* days left than the threshold.  A client that stays connected keeps the  *)
(* days it had when it was validated, and the poll skips it to the end.    *)
(***************************************************************************)
DueIsRotated == poll.pc = "skipped" /\ client # NoClient => client.expires - today > Threshold

=============================================================================
