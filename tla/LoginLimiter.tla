----------------------------- MODULE LoginLimiter -----------------------------
(***************************************************************************)
(* The in-process limiter of failed sign-ins: a sliding window for each    *)
(* client address and each account name.  A sign-in asks the limiter, then *)
(* verifies the password, which takes time, then records the failure or    *)
(* clears its keys; other sign-ins come in between.  A restart forgets     *)
(* everything.                                                             *)
(***************************************************************************)
EXTENDS Integers, FiniteSets, Sequences

CONSTANTS Addresses, Names, Attempts, NoKey,
          MaxAttempts, Window,
          MaxClock, MaxFailures     \* bounds

Keys == Addresses \cup Names

ASSUME LimiterAssumption ==
    /\ NoKey \notin Keys
    /\ IsFiniteSet(Attempts)      \* sign-ins under way at one time
    /\ {MaxAttempts, Window} \subseteq Nat \ {0}
    /\ {MaxClock, MaxFailures} \subseteq Nat

VARIABLES
    clock,
    failures,     \* failures[k]: the map's instants for k, oldest first
    lastSweep,
    attempt,      \* attempt[a]: the keys of the sign-in under way, or {}
    happened      \* (history) failures of k since its last success or a restart

limiterVars == <<clock, failures, lastSweep, attempt, happened>>

NoFailures == [k \in Keys |-> <<>>]

LimiterTypeOK ==
    /\ clock \in 0 .. MaxClock /\ lastSweep \in 0 .. MaxClock
    /\ {failures, happened} \subseteq [Keys -> Seq(0 .. MaxClock)]
    /\ attempt \in [Attempts -> SUBSET Keys]

LimiterInit ==
    /\ clock = 0 /\ lastSweep = 0
    /\ failures = NoFailures /\ happened = NoFailures
    /\ attempt = [a \in Attempts |-> {}]

-----------------------------------------------------------------------------
\* recentFor, at an instant: the filter for what is strictly after the cutoff.
RecentAt(instants, at) ==
    LET kept[n \in 0 .. Len(instants)] ==
            IF n = 0 THEN <<>>
            ELSE IF instants[n] > at - Window THEN Append(kept[n - 1], instants[n])
            ELSE kept[n - 1]
    IN  kept[Len(instants)]

Recent(k) == RecentAt(failures[k], clock)

\* loginRateLimitKeys: an address that is not known is no key.
LoginRateLimitKeys(address, name) == {address, name} \ {NoKey}

AtLimit(k) == Len(Recent(k)) >= MaxAttempts

\* What is left until the oldest recent failure leaves the window.
RetryAfter(k) == Recent(k)[1] + Window - clock

\* (Fault) a key goes when its oldest failure has expired.
ForgottenWithItsOldest == {k \in Keys : failures[k] # <<>> /\ failures[k][1] <= clock - Window}

\* Keys a sweep drops: all they have has expired.
Forgotten == {k \in Keys : \A n \in DOMAIN failures[k] : failures[k][n] <= clock - Window}

\* sweep, at the start of every check; once a window.
Swept == IF clock - lastSweep < Window THEN failures
         ELSE [k \in Keys |-> IF k \in Forgotten THEN <<>> ELSE failures[k]]

Sweep == /\ failures' = Swept
         /\ lastSweep' = IF clock - lastSweep < Window THEN lastSweep ELSE clock

CheckAllowed(a, keys) ==
    /\ attempt[a] = {}
    /\ \A k \in keys : ~AtLimit(k) /\ Len(happened[k]) + Cardinality(Attempts) <= MaxFailures
    /\ Sweep
    /\ attempt' = [attempt EXCEPT ![a] = keys]
    /\ UNCHANGED <<clock, happened>>

\* The refusal is recorded nowhere.
CheckRefused(a, keys) ==
    /\ attempt[a] = {}
    /\ \E k \in keys : AtLimit(k)
    /\ Sweep
    /\ UNCHANGED <<clock, attempt, happened>>

RecordFailure(a) ==
    /\ attempt[a] # {}
    /\ failures' = [k \in Keys |-> IF k \in attempt[a] THEN Append(Recent(k), clock) ELSE failures[k]]
    /\ happened' = [k \in Keys |-> IF k \in attempt[a] THEN Append(happened[k], clock) ELSE happened[k]]
    /\ attempt' = [attempt EXCEPT ![a] = {}]
    /\ UNCHANGED <<clock, lastSweep>>

ResetKeys(a) ==
    /\ attempt[a] # {}
    /\ failures' = [k \in Keys |-> IF k \in attempt[a] THEN <<>> ELSE failures[k]]
    /\ happened' = [k \in Keys |-> IF k \in attempt[a] THEN <<>> ELSE happened[k]]
    /\ attempt' = [attempt EXCEPT ![a] = {}]
    /\ UNCHANGED <<clock, lastSweep>>

\* The account is locked or disabled, or the directory does not answer: neither
\* a failure nor a success.
EndUncounted(a) ==
    /\ attempt[a] # {}
    /\ attempt' = [attempt EXCEPT ![a] = {}]
    /\ UNCHANGED <<clock, failures, lastSweep, happened>>

RestartServer ==
    /\ clock > 0
    /\ failures' = NoFailures /\ happened' = NoFailures
    /\ lastSweep' = 0
    /\ attempt' = [a \in Attempts |-> {}]
    /\ UNCHANGED clock

ClockTicks ==
    /\ clock < MaxClock
    /\ clock' = clock + 1
    /\ UNCHANGED <<failures, lastSweep, attempt, happened>>

LimiterNext ==
    \/ \E a \in Attempts :
         \/ \E address \in Addresses \cup {NoKey}, name \in Names :
              LET keys == LoginRateLimitKeys(address, name) IN
              CheckAllowed(a, keys) \/ CheckRefused(a, keys)
         \/ RecordFailure(a) \/ ResetKeys(a) \/ EndUncounted(a)
    \/ RestartServer \/ ClockTicks

LimiterSpec == LimiterInit /\ [][LimiterNext]_limiterVars

-----------------------------------------------------------------------------
(* Properties *)

\* However sign-ins overlap: pruning and sweeping forget no failure that still
\* counts; a key has no more of them than the limit and the sign-ins that were
\* let in before it was reached; and a key that is just at its limit opens when
\* a refused caller was told it would, and no later than a window from now
\* (check, recordFailure, sweep).
LimiterHolds ==
    \A k \in Keys :
        /\ Recent(k) = RecentAt(happened[k], clock)
        /\ Len(Recent(k)) < MaxAttempts + Cardinality(Attempts)
        /\ Len(Recent(k)) = MaxAttempts =>
             /\ RetryAfter(k) \in 1 .. Window
             /\ Len(RecentAt(failures[k], clock + RetryAfter(k))) < MaxAttempts
=============================================================================
