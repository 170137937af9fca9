--------------------------- MODULE WebSocketStream ---------------------------
(***************************************************************************)
(* shared/hooks/useWebSocketStream.ts, as operators on the record of one   *)
(* use of the hook: its socket, the timer of the next attempt (its delay   *)
(* in seconds, 0 when none runs), retryCount and isConnected.              *)
(*                                                                         *)
(* After unmounting, the closed socket still reports onclose and so        *)
(* connects again; the clean-up cleared the timer too early to stop it.    *)
(***************************************************************************)
EXTENDS Naturals

CONSTANT MaxDelay  \* the longest delay, 30 in the code

\* From here on the delay is the longest: a larger retryCount changes nothing.
MaxRetry == CHOOSE k \in 0..MaxDelay :
    2^k >= MaxDelay /\ \A j \in 0..(k - 1) : 2^j < MaxDelay

\* The longest delay is positive.  The last two conjuncts are facts of
\* arithmetic, stated for the proofs.
ASSUME StreamAssumption ==
    /\ MaxDelay \in Nat \ {0}
    /\ MaxRetry \in Nat
    /\ \A k \in 0 .. MaxRetry : 2^k \in Nat \ {0}

StreamStart == [sock |-> "connecting", timer |-> 0, retry |-> 0, connected |-> FALSE]

StreamType == [sock : {"connecting", "open", "closing", "none"}, timer : 0..MaxDelay,
               retry : 0..MaxRetry, connected : BOOLEAN]

Backoff(retry) == IF 2^retry < MaxDelay THEN 2^retry ELSE MaxDelay

OnStreamOpen(s) == [s EXCEPT !.sock = "open", !.connected = TRUE, !.retry = 0]

\* onclose: refused, broken, closed by the hub or by the clean-up.
OnStreamClose(s) ==
    [sock |-> "none", timer |-> Backoff(s.retry), connected |-> FALSE,
     retry |-> IF s.retry < MaxRetry THEN s.retry + 1 ELSE s.retry]

\* Mutant: a reconnection that leaves the timer armed.
ReconnectAgain(s) == [s EXCEPT !.sock = "connecting"]

Reconnect(s) == [s EXCEPT !.sock = "connecting", !.timer = 0]

\* The clean-up of the effect.
StreamCleanup(s) ==
    [s EXCEPT !.timer = 0, !.sock = IF @ = "none" THEN @ ELSE "closing"]
=============================================================================
