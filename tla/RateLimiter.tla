----------------------------- MODULE RateLimiter ----------------------------
(***************************************************************************)
(* RateLimiter::check_rate_limit, for one API key and one endpoint: the    *)
(* count of the window is read, compared with the limit, and incremented   *)
(* by another statement.  The window is the UTC day.                       *)
(***************************************************************************)
EXTENDS Integers, FiniteSets

CONSTANTS Handlers, Limit, Days, None

VARIABLES request_count,  \* api_rate_limits: the count of each day's row, or None
          today,          \* the day it is
          checking,       \* the day of each handler's check in progress, or None
          allowed         \* history: requests allowed by each day's count

rateVars == <<request_count, today, checking, allowed>>

Init ==
  /\ request_count = [d \in 1 .. Days |-> None]
  /\ today = 1
  /\ checking = [h \in Handlers |-> None]
  /\ allowed = [d \in 1 .. Days |-> 0]

-----------------------------------------------------------------------------
(* Mutant: the limit itself is let through.                                *)
RoomUpToLimit(d) == IF request_count[d] = None THEN TRUE ELSE request_count[d] <= Limit
HasRoom(d) == IF request_count[d] = None THEN TRUE ELSE request_count[d] < Limit

(* SELECT: a request over the limit is refused and changes nothing.        *)
ReadCount(h) ==
  /\ checking[h] = None
  /\ HasRoom(today)
  /\ checking' = [checking EXCEPT ![h] = today]
  /\ UNCHANGED <<request_count, today, allowed>>

(* UPDATE request_count + 1, or INSERT ... ON CONFLICT DO UPDATE of the    *)
(* same.  If the statement takes effect and its reply is lost, the request *)
(* is let through by the middleware's error path, not by the count.        *)
Incremented(d) == IF request_count[d] = None THEN 1 ELSE request_count[d] + 1

Increment(h, replied) ==
  /\ checking[h] # None
  /\ request_count' = [request_count EXCEPT ![checking[h]] = Incremented(checking[h])]
  /\ allowed' = [allowed EXCEPT ![checking[h]] = IF replied THEN @ + 1 ELSE @]
  /\ checking' = [checking EXCEPT ![h] = None]
  /\ UNCHANGED today

(* The statement fails, or the request is cut off.                         *)
Abandon(h) ==
  /\ checking[h] # None
  /\ checking' = [checking EXCEPT ![h] = None]
  /\ UNCHANGED <<request_count, today, allowed>>

Midnight ==
  /\ today < Days
  /\ today' = today + 1
  /\ UNCHANGED <<request_count, checking, allowed>>

Next ==
  \/ Midnight
  \/ \E h \in Handlers :
       \/ ReadCount(h)
       \/ \E replied \in BOOLEAN : Increment(h, replied)
       \/ Abandon(h)

Spec == Init /\ [][Next]_rateVars

-----------------------------------------------------------------------------
(* The requests of a day that the count lets through exceed the limit by   *)
(* no more than the other handlers that were checking at the same time,    *)
(* and each of them is counted.                                            *)
Count(d) == IF request_count[d] = None THEN 0 ELSE request_count[d]
AllowedNearLimit ==
  \A d \in 1 .. Days : /\ allowed[d] <= Count(d)
                       /\ Count(d) <= Limit + Cardinality(Handlers) - 1
=============================================================================
