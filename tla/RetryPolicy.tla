----------------------------- MODULE RetryPolicy -----------------------------
(***************************************************************************)
(* core/retry_policy.go: RetryPolicy.Execute calls an operation once and,  *)
(* when that first call fails, Count more times.  The operation's calls    *)
(* are numbered from 0, so that a caller in the middle of Execute is fully *)
(* described by the number of the call it is about to make.                *)
(*                                                                         *)
(* The loop of Execute has no exit on success: only the very first call    *)
(* can end the operation early, and the error that Execute returns is the  *)
(* error of the call it made last.                                         *)
(***************************************************************************)
EXTENDS Naturals

CONSTANT RetryCount   \* RetryPolicy.Count, the --retry-count flag

ASSUME RetryCountAssumption == RetryCount \in Nat

\* The numbers of the calls that one Execute can make.
Calls == 0 .. RetryCount

\* A loop that retries once too often (i <= p.Count).
Returns_OneRetryMore(call, ok) == (call = 0 /\ ok) \/ call > RetryCount

\* Execute returns after call number `call` when that call's outcome is ok:
\* at once when the first call succeeds, and otherwise after the last retry,
\* whatever the calls in between returned.  Its result is `ok`.
Returns(call, ok) == (call = 0 /\ ok) \/ call >= RetryCount
==============================================================================
