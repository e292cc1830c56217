------------------------ MODULE MCEnrolmentExchange ------------------------
(* One enrolment token, three exchanges and two revocations that overlap   *)
(* in every way, on a clock that passes the token's expiry.                *)
EXTENDS EnrolmentExchange

=============================================================================
