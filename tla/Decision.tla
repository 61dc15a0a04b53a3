------------------------------ MODULE Decision ------------------------------
(***************************************************************************)
(* What check_with_info makes of a cost on its way to a script and of the  *)
(* script's decision on its way back.  The scripts count thousandths of a  *)
(* request and milliseconds, callers whole requests and seconds.           *)
(***************************************************************************)
EXTENDS Integers

\* max_requests: thousandths of a request in a quota of that many.
Scaled(requests) == requests * 1000

\* cost_with_multiplier: one above capacity stands for every cost that never fits.
Clamped(cost, requests) == IF cost > requests THEN requests + 1 ELSE cost
ScaledCost(cost, requests) == Scaled(Clamped(cost, requests))

\* remaining_requests: what is left of the last request is no request.
WholeRequests(remaining) == remaining \div 1000

\* retry_after_seconds: none if waiting does not help, at least one for a denial.
Never == -1
WholeSeconds(retry, allowed) ==
    IF retry = -1 THEN Never
    ELSE IF allowed THEN 0
    ELSE LET seconds == (retry + 999) \div 1000 IN IF seconds > 1 THEN seconds ELSE 1
=============================================================================
