--------------------------------- MODULE Retry ---------------------------------
(***************************************************************************)
(* Whether and when a failed call is repeated (retry.go).                  *)
(***************************************************************************)
EXTENDS Integers, FiniteSetsExt

CONSTANTS MaxAttempts, InitialBackoff, MaxBackoff

\* DefaultRetryPolicy: the statuses that are worth another attempt.
Retryable == {"UNAVAILABLE", "RESOURCE_EXHAUSTED"}
SurvivesUnknownOutcome(method) == method.safety # 0

\* 1 << doubling.
Shifted[doubling \in 0..16] == IF doubling = 0 THEN 1 ELSE 2 * Shifted[doubling - 1]
BackoffFor(attempt) ==
    LET doubling == Min({Max({attempt - 1, 0}), 16})
    IN Min({InitialBackoff * Shifted[doubling], MaxBackoff})

\* A RetryState; a deadline of 0 stands for none.
NewRetryState(now, budget) == [attempt |-> 1, deadline |-> IF budget > 0 THEN now + budget ELSE 0]

\* Mutant: every status says what happened.
UnsafeToRepeat_Trusting(status, method) == FALSE
UnsafeToRepeat(status, method) == status = "UNAVAILABLE" /\ ~SurvivesUnknownOutcome(method)
AttemptsExhausted(state) == state.attempt >= MaxAttempts
BudgetExhausted(state, now) == state.deadline # 0 /\ now + BackoffFor(state.attempt) >= state.deadline

\* OnFailure: the first reason to give up, or "retry".
GiveUp(state, status, method, now) ==
    IF method.shape # 0 THEN "streaming"
    ELSE IF status \notin Retryable THEN "notRetryable"
    ELSE IF UnsafeToRepeat(status, method) THEN "unsafe"
    ELSE IF AttemptsExhausted(state) THEN "attempts"
    ELSE IF BudgetExhausted(state, now) THEN "budget"
    ELSE "retry"
OnFailure(state, status, method, now) ==
    LET reason == GiveUp(state, status, method, now)
    IN IF reason # "retry" THEN [retry |-> FALSE, reason |-> reason, at |-> now, state |-> state]
       ELSE [retry |-> TRUE, reason |-> reason, at |-> now + BackoffFor(state.attempt),
             state |-> [state EXCEPT !.attempt = @ + 1]]
=============================================================================
