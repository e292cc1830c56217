--------------------------- MODULE MCQuotaLedger ---------------------------
(* The quota of one tenant on a short clock: requests that may wait longer *)
(* than a lease lives, and windows that end while they wait.               *)
EXTENDS QuotaLedger, TLC

CONSTANTS r1, r2, r3, key

\* A policy that is tightened, moved to another period and switched off.
ChangingPolicies ==
    {[request_limit |-> 3, period |-> 3, concurrency_limit |-> 2,
      enforced |-> TRUE],
     [request_limit |-> 1, period |-> 2, concurrency_limit |-> 1,
      enforced |-> TRUE],
     [request_limit |-> 2, period |-> 3, concurrency_limit |-> 2,
      enforced |-> FALSE]}

\* Two requests share an Access Key, the third holds a capability.
TwoShareKey == [r \in Requests |-> IF r \in {r1, r2} THEN key ELSE NoKey]

KeyHoldersAlike == Permutations({r1, r2})

=============================================================================
