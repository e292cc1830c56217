------------------------- MODULE EnrolmentExchange -------------------------
(***************************************************************************)
(* One enrolment token: the requests that exchange it for a DSH capability *)
(* (create_session in proxy_hub/session.py) and the administrators that    *)
(* revoke it (revoke_enrolment in proxy_hub/enrolment.py).                 *)
(*                                                                         *)
(* Handlers run in worker threads, each in a READ COMMITTED transaction of *)
(* its own.  Every SELECT is a step, since it sees what others committed   *)
(* before it; the conditional UPDATE and everything that commits with it   *)
(* are one step, since the row stays locked from the UPDATE to the commit. *)
(***************************************************************************)
EXTENDS Naturals, FiniteSets

CONSTANTS
    Clients,   \* requests that present the token
    Admins,    \* requests that revoke it
    NoOne,     \* not a request
    Lifetime,  \* expires_in_seconds, in ticks
    Horizon    \* bound: the last tick of the model's clock

ASSUME ExchangeAssumption ==
    /\ NoOne \notin Clients
    /\ Lifetime \in Nat \ {0}
    /\ Horizon \in Nat

VARIABLES
    clock,       \* utc_now
    enrolment,   \* the enrolment_tokens row
    subject,     \* principal, tenant and membership are all active
    exchange,    \* what each exchanging request is doing
    revocation   \* what each revoking request is doing

exchangeVars == <<clock, enrolment, subject, exchange, revocation>>

ExchangeSteps ==
    {"new",      \* not arrived
     "read",     \* token selected, subject not looked at
     "checked",  \* subject found active, scopes valid
     "issued",   \* capability committed
     "denied",   \* rejected before the conditional UPDATE
     "raced",    \* rejected because the UPDATE found nothing
     "lost"}     \* its worker died, the transaction rolled back

RevocationSteps == {"new", "read", "done", "refused", "lost"}

ExchangeTypeOK ==
    /\ clock \in 0..Horizon
    /\ enrolment \in [consumed : BOOLEAN, revoked : BOOLEAN, version : 1..3]
    /\ subject \in BOOLEAN
    /\ exchange \in [Clients -> [step : ExchangeSteps, at : 0..Horizon,
                                 version : 1..3]]
    /\ revocation \in [Admins -> [step : RevocationSteps, version : 1..3]]

ExchangeInit ==
    /\ clock = 0
    /\ enrolment = [consumed |-> FALSE, revoked |-> FALSE, version |-> 1]
    /\ subject = TRUE
    /\ exchange = [c \in Clients |-> [step |-> "new", at |-> 0, version |-> 1]]
    /\ revocation = [a \in Admins |-> [step |-> "new", version |-> 1]]

\* A capability issued from the enrolment, named by the request it answers.
Issued == {c \in Clients : exchange[c].step = "issued"}

-----------------------------------------------------------------------------
(* Exchanging the token.                                                   *)

\* The conditions a token must meet at a request's `now'.
Available(at) ==
    /\ ~enrolment.consumed
    /\ ~enrolment.revoked
    /\ at < Lifetime

\* The request arrives, reads the clock and selects the token.
Present(c) ==
    /\ exchange[c].step = "new"
    /\ exchange' = [exchange EXCEPT ![c] =
                      [step |-> IF Available(clock) THEN "read" ELSE "denied",
                       at |-> clock, version |-> enrolment.version]]
    /\ UNCHANGED <<clock, enrolment, subject, revocation>>

\* The subject is selected; so are the scopes, which never change.
Check(c) ==
    /\ exchange[c].step = "read"
    /\ exchange' = [exchange EXCEPT ![c].step =
                      IF subject THEN "checked" ELSE "denied"]
    /\ UNCHANGED <<clock, enrolment, subject, revocation>>

ConsumesBlindly(c) == TRUE

\* The WHERE clause of the UPDATE that consumes the token.
Consumes(c) ==
    /\ enrolment.version = exchange[c].version
    /\ Available(exchange[c].at)

ConsumeCountingTwice(c) ==
    /\ exchange[c].step = "checked"
    /\ Consumes(c)
    /\ enrolment' = [enrolment EXCEPT !.consumed = TRUE,
                                      !.version = exchange[c].version + 2]
    /\ exchange' = [exchange EXCEPT ![c].step = "issued"]
    /\ UNCHANGED <<clock, subject, revocation>>

\* The token is consumed and the capability added in one transaction.
Consume(c) ==
    /\ exchange[c].step = "checked"
    /\ Consumes(c)
    /\ enrolment' = [enrolment EXCEPT !.consumed = TRUE,
                                      !.version = exchange[c].version + 1]
    /\ exchange' = [exchange EXCEPT ![c].step = "issued"]
    /\ UNCHANGED <<clock, subject, revocation>>

\* The UPDATE finds nothing: credential_raced.
LoseRace(c) ==
    /\ exchange[c].step = "checked"
    /\ ~Consumes(c)
    /\ exchange' = [exchange EXCEPT ![c].step = "raced"]
    /\ UNCHANGED <<clock, enrolment, subject, revocation>>

\* The worker dies before its commit.
CrashExchange(c) ==
    /\ exchange[c].step \in {"read", "checked"}
    /\ exchange' = [exchange EXCEPT ![c].step = "lost"]
    /\ UNCHANGED <<clock, enrolment, subject, revocation>>

-----------------------------------------------------------------------------
(* Revoking the token.                                                     *)

\* The row is selected and its version compared with the request's If-Match;
\* a token that is revoked already needs no further change.
LoadForRevocation(a) ==
    /\ revocation[a].step = "new"
    /\ \E ifMatch \in 1..3 :
          revocation' = [revocation EXCEPT ![a] =
             [step |-> IF enrolment.revoked THEN "done"
                       ELSE IF ifMatch = enrolment.version THEN "read"
                       ELSE "refused",
              version |-> enrolment.version]]
    /\ UNCHANGED <<clock, enrolment, subject, exchange>>

\* The WHERE clause of the UPDATE that revokes the token.
Revokes(a) ==
    /\ enrolment.version = revocation[a].version
    /\ ~enrolment.revoked

CommitRevocation(a) ==
    /\ revocation[a].step = "read"
    /\ Revokes(a)
    /\ enrolment' = [enrolment EXCEPT !.revoked = TRUE,
                                      !.version = revocation[a].version + 1]
    /\ revocation' = [revocation EXCEPT ![a].step = "done"]
    /\ UNCHANGED <<clock, subject, exchange>>

\* require_version_update: the row changed since it was loaded, 412.
RefuseRevocation(a) ==
    /\ revocation[a].step = "read"
    /\ ~Revokes(a)
    /\ revocation' = [revocation EXCEPT ![a].step = "refused"]
    /\ UNCHANGED <<clock, enrolment, subject, exchange>>

CrashRevocation(a) ==
    /\ revocation[a].step = "read"
    /\ revocation' = [revocation EXCEPT ![a].step = "lost"]
    /\ UNCHANGED <<clock, enrolment, subject, exchange>>

-----------------------------------------------------------------------------

\* Administrators suspend and reinstate the subject.
ChangeSubject ==
    /\ subject' = ~subject
    /\ UNCHANGED <<clock, enrolment, exchange, revocation>>

Tick ==
    /\ clock < Horizon
    /\ clock' = clock + 1
    /\ UNCHANGED <<enrolment, subject, exchange, revocation>>

ExchangeNext ==
    \/ \E c \in Clients :
          \/ Present(c)
          \/ Check(c)
          \/ Consume(c)
          \/ LoseRace(c)
          \/ CrashExchange(c)
    \/ \E a \in Admins :
          \/ LoadForRevocation(a)
          \/ CommitRevocation(a)
          \/ RefuseRevocation(a)
          \/ CrashRevocation(a)
    \/ ChangeSubject
    \/ Tick

ExchangeSpec == ExchangeInit /\ [][ExchangeNext]_exchangeVars

-----------------------------------------------------------------------------
(* Properties.                                                             *)

\* The exchange is a one-time grant: one request at most obtains a capability
\* from a token, and none once its revocation is committed, however the
\* requests' transactions interleave (session.py and enrolment.py together).
Holder == IF Issued = {} THEN NoOne ELSE CHOOSE c \in Issued : TRUE

Grant == INSTANCE OneTimeGrant
           WITH Parties <- Clients, holder <- Holder,
                withdrawn <- enrolment.revoked

GrantSpec == Grant!Spec

\* A token never yields two capabilities.
OneCapabilityPerToken == Cardinality(Issued) <= 1

\* A token is consumed only by issuing its capability: no failure between the
\* two leaves a user with neither a token nor a session.
ConsumedMeansIssued == enrolment.consumed <=> Issued # {}

\* The version counts the changes of the row, so an exchange and a revocation
\* that loaded the same version never both succeed.
VersionCountsChanges ==
    enrolment.version = 1 + (IF enrolment.consumed THEN 1 ELSE 0)
                          + (IF enrolment.revoked THEN 1 ELSE 0)

\* A request is told that it lost a race only if another exchange or a
\* revocation of the token really came first.
RacedMeansTaken ==
    (\E c \in Clients : exchange[c].step = "raced")
        => enrolment.consumed \/ enrolment.revoked

\* An administrator whose revocation was accepted may rely on it: the token
\* is revoked and issues nothing from then on.
AcceptedRevocationHolds ==
    [][(\E a \in Admins : revocation[a].step = "done")
          => enrolment'.revoked /\ Issued' = Issued]_exchangeVars

=============================================================================
