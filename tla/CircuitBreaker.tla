--------------------------- MODULE CircuitBreaker ---------------------------
(***************************************************************************)
(* The in-process circuit of one Scholar backend (proxy_hub/circuit.py)    *)
(* and the gateway calls that enter it (send_upstream in                   *)
(* proxy_hub/mcp_gateway.py).                                              *)
(*                                                                         *)
(* Circuits are keyed by backend and share nothing, so one is modelled.    *)
(* The three methods of BackendCircuitBreaker run under its lock and are   *)
(* atomic; between them a call awaits the network, so calls interleave     *)
(* freely.  Time is kept relative to the present: `cooldown' is what is    *)
(* left of open_until, counted down by Tick.                               *)
(*                                                                         *)
(* Specification and variables are named after the circuit, so that a      *)
(* module can extend this one and McpGateway.                              *)
(*                                                                         *)
(* An operator that stands right before another with the same parameters,  *)
(* and that nothing uses, is that one with a fault a programmer could have *)
(* made; README.md lists the property each fault breaks.                   *)
(***************************************************************************)
EXTENDS Integers, FiniteSets

CONSTANTS
    Calls,        \* call slots: how many gateway calls may overlap
    Threshold,    \* backend_circuit_failure_threshold
    Recovery,     \* backend_circuit_recovery_seconds, in ticks
    SafeRetries   \* backend_safe_retry_attempts

ASSUME CircuitAssumption ==
    /\ Threshold \in Nat \ {0}
    /\ Recovery \in Nat \ {0}
    /\ SafeRetries \in Nat

VARIABLES
    circuit,      \* the CircuitState of the backend
    call,         \* what each call slot is doing
    streak,       \* history: failures recorded since the last success
    sinceFailure, \* history: ticks since the last recorded failure
    sinceProbe,   \* history: ticks since the last recovery probe entered
    escaped       \* history: a call left without recording an outcome

circuitVars == <<circuit, call, streak, sinceFailure, sinceProbe, escaped>>
history == <<streak, sinceFailure, sinceProbe, escaped>>

HttpMethods == {"GET", "POST", "DELETE"}

\* A counter that is only ever compared with a bound, kept at that bound.
Saturate(n, bound) == IF n < bound THEN n ELSE bound

ClosedCircuit ==
    [failure_count |-> 0, open |-> FALSE, cooldown |-> 0,
     recovery_probe_in_flight |-> FALSE]

Idle == [busy |-> FALSE, retries |-> 0, probe |-> FALSE]

CircuitTypeOK ==
    /\ circuit \in [failure_count : 0..Threshold, open : BOOLEAN,
                    cooldown : 0..Recovery, recovery_probe_in_flight : BOOLEAN]
    /\ call \in [Calls -> [busy : BOOLEAN, retries : 0..SafeRetries,
                           probe : BOOLEAN]]
    /\ streak \in 0..Threshold
    /\ sinceFailure \in 0..Recovery
    /\ sinceProbe \in 0..Recovery
    /\ escaped \in BOOLEAN

CircuitInit ==
    /\ circuit = ClosedCircuit
    /\ call = [c \in Calls |-> Idle]
    /\ streak = 0
    /\ sinceFailure = Recovery
    /\ sinceProbe = Recovery
    /\ escaped = FALSE

-----------------------------------------------------------------------------
(* The circuit's own operations.                                           *)

AdmitsIgnoringProbe(s) == ~s.open \/ s.cooldown = 0

AdmitsOnlyClosed(s) == ~s.open

\* before_request lets a call in: the circuit has not opened, or it has, its
\* recovery time is over and no recovery probe is marked in flight.
Admits(s) ==
    \/ ~s.open
    \/ s.cooldown = 0 /\ ~s.recovery_probe_in_flight

\* The state before_request leaves behind when it lets a call in.
Admitted(s) == [s EXCEPT !.recovery_probe_in_flight = s.open]

\* record_failure: it takes the failure for the probe's whenever a probe is
\* marked, whichever call reports it.
AfterFailure(s) ==
    LET failures == Saturate(s.failure_count + 1, Threshold)
        opens == s.recovery_probe_in_flight \/ failures = Threshold
    IN [failure_count |-> failures,
        open |-> s.open \/ opens,
        cooldown |-> IF opens THEN Recovery ELSE s.cooldown,
        recovery_probe_in_flight |-> FALSE]

-----------------------------------------------------------------------------
(* One gateway call through send_upstream.                                 *)

\* before_request permits the call.  A refusal (CircuitOpenError) changes
\* neither the circuit nor the calls in flight, so it is a stuttering step.
Enter(c, method) ==
    /\ ~call[c].busy
    /\ Admits(circuit)
    /\ circuit' = Admitted(circuit)
    /\ call' = [call EXCEPT ![c] =
                  [busy |-> TRUE,
                   retries |-> IF method = "GET" THEN SafeRetries ELSE 0,
                   probe |-> circuit.open]]
    /\ sinceProbe' = IF circuit.open THEN 0 ELSE sinceProbe
    /\ UNCHANGED <<streak, sinceFailure, escaped>>

RetryUnbounded(c) ==
    /\ call[c].busy
    /\ call' = [call EXCEPT ![c].retries = @ - 1]
    /\ UNCHANGED <<circuit, history>>

\* An attempt failed and the method allows another one: back off and resend
\* without asking the circuit again and without recording the failure.
Retry(c) ==
    /\ call[c].busy
    /\ call[c].retries > 0
    /\ call' = [call EXCEPT ![c].retries = @ - 1]
    /\ UNCHANGED <<circuit, history>>

\* The last attempt failed: transport error, redirect, 401, 403 or 5xx.
RecordFailure(c) ==
    /\ call[c].busy
    /\ call[c].retries = 0
    /\ circuit' = AfterFailure(circuit)
    /\ call' = [call EXCEPT ![c] = Idle]
    /\ streak' = Saturate(streak + 1, Threshold)
    /\ sinceFailure' = 0
    /\ UNCHANGED <<sinceProbe, escaped>>

\* An attempt got an accepted response; record_success forgets the circuit.
RecordSuccess(c) ==
    /\ call[c].busy
    /\ circuit' = ClosedCircuit
    /\ call' = [call EXCEPT ![c] = Idle]
    /\ streak' = 0
    /\ sinceProbe' = Recovery
    /\ UNCHANGED <<sinceFailure, escaped>>

\* Building or sending the request raises something that is not an
\* httpx.HTTPError, or the task is cancelled: nothing is recorded.
Escape(c) ==
    /\ call[c].busy
    /\ call' = [call EXCEPT ![c] = Idle]
    /\ escaped' = TRUE
    /\ UNCHANGED <<circuit, streak, sinceFailure, sinceProbe>>

\* A second passes.
Tick ==
    /\ circuit' = [circuit EXCEPT !.cooldown = IF @ = 0 THEN 0 ELSE @ - 1]
    /\ sinceFailure' = Saturate(sinceFailure + 1, Recovery)
    /\ sinceProbe' = Saturate(sinceProbe + 1, Recovery)
    /\ UNCHANGED <<call, streak, escaped>>

\* Every attempt ends: the client has connect and request timeouts.
AttemptEnds(c) == Retry(c) \/ RecordFailure(c) \/ RecordSuccess(c)

CircuitNext ==
    \/ \E c \in Calls :
          \/ \E method \in HttpMethods : Enter(c, method)
          \/ Retry(c)
          \/ RecordFailure(c)
          \/ RecordSuccess(c)
          \/ Escape(c)
    \/ Tick

CircuitSpec == CircuitInit /\ [][CircuitNext]_circuitVars

\* Time passes and no attempt lasts for ever.  Nothing obliges a caller to
\* come, and a call is as likely to fail as to succeed.
CircuitFairness == WF_circuitVars(Tick) /\ \A c \in Calls : WF_circuitVars(AttemptEnds(c))

FairCircuitSpec == CircuitSpec /\ CircuitFairness

-----------------------------------------------------------------------------
(* Properties.                                                             *)

\* The circuit is open exactly when the failures since the last success have
\* reached the threshold, whatever calls report them and in whatever order.
OpensAtThreshold == circuit.open <=> streak = Threshold

\* Once the threshold is reached, every further failure keeps the backend
\* closed to new calls for the whole recovery time, counted from that
\* failure (circuit.py, record_failure and before_request).
OpenForRecovery ==
    streak = Threshold /\ sinceFailure < Recovery => ~Admits(circuit)

\* Recovery probes are spaced: after one entered, no other enters before the
\* recovery time is over, unless a success closed the circuit in between.
ProbesAreSpaced ==
    [][\A c \in Calls : call'[c].probe /\ ~call[c].probe
          => sinceProbe = Recovery]_circuitVars

Probing == {c \in Calls : call[c].busy /\ call[c].probe}

\* As long as every call records its outcome, a circuit that refuses calls
\* because a probe is in flight has one.
MarkedProbeIsRunning ==
    circuit.recovery_probe_in_flight => escaped \/ Probing # {}

\* As long as every call records its outcome, a circuit is never refusing for
\* good: again and again it would let a call in.
KeepsAdmitting == []<>(Admits(circuit) \/ escaped)

=============================================================================
