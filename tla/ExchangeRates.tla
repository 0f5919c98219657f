---------------------------- MODULE ExchangeRates ---------------------------
(***************************************************************************)
(* CurrencyService for one pair of currencies: set_exchange_rate looks for *)
(* today's row and then updates or inserts it; get_exchange_rate looks for *)
(* today's row and, if there is none, for the latest one.  "Today" is the  *)
(* day the request began: midnight may pass before its statements run.     *)
(* convert_currency is get_exchange_rate and a multiplication.             *)
(***************************************************************************)
EXTENDS Integers, FiniteSetsExt

CONSTANTS Handlers, None, Rates,
          LastDay  \* bound: the days the model runs through

VARIABLES exchange_rates,  \* the row of each effective_date: its rate, or None
          day,             \* the date
          call             \* each handler's request

rateVars == <<exchange_rates, day, call>>

Dates == 1 .. LastDay
Idle == [kind |-> "idle"]

Init ==
  /\ exchange_rates = [d \in Dates |-> None]
  /\ day = 1
  /\ call = [h \in Handlers |-> Idle]

(* The latest row's rate, and the rate a request of day d should be told.  *)
RateOf(rows, d) == IF d = 0 THEN None ELSE rows[d]
DatesIn(rows) == {d \in Dates : rows[d] # None}
(* Mutant: the order of the dates is reversed.                             *)
Earliest(rows) == RateOf(rows, IF DatesIn(rows) = {} THEN 0 ELSE Min(DatesIn(rows)))
Latest(rows) == RateOf(rows, IF DatesIn(rows) = {} THEN 0 ELSE Max(DatesIn(rows)))

(* The rate quoted on day d: the day's own, or else that of the last date. *)
QuoteFor(rows, d) ==
  IF rows[d] # None THEN rows[d] ELSE RateOf(rows, Max(DatesIn(rows) \cup {0}))

(* Whoever is asking sees the rows change (history, for QuotesAreCurrent). *)
Notice(rows) ==
  [h \in Handlers |->
     IF call[h].kind = "get"
     THEN [call[h] EXCEPT !.possible = @ \cup {QuoteFor(rows, call[h].date)}]
     ELSE call[h]]

-----------------------------------------------------------------------------
IsIdle(h) == call[h].kind \in {"idle", "told"}
IsAt(h, kind, pc) == call[h].kind = kind /\ call[h].pc = pc

BeginSet(h, r) ==
  /\ IsIdle(h)
  /\ call' = [call EXCEPT ![h] = [kind |-> "set", pc |-> "check", date |-> day, rate |-> r]]
  /\ UNCHANGED <<exchange_rates, day>>

(* SELECT id: is there a row of the date already?                          *)
CheckRate(h) ==
  /\ IsAt(h, "set", "check")
  /\ call' = [call EXCEPT ![h].pc =
       IF exchange_rates[call[h].date] = None THEN "insert" ELSE "update"]
  /\ UNCHANGED <<exchange_rates, day>>

(* INSERT fails if another request has inserted the date's row meanwhile:  *)
(* UNIQUE(base_currency, target_currency, effective_date).                 *)
WriteRate(h) ==
  /\ \/ IsAt(h, "set", "update")
     \/ IsAt(h, "set", "insert") /\ exchange_rates[call[h].date] = None
  /\ exchange_rates' = [exchange_rates EXCEPT ![call[h].date] = call[h].rate]
  /\ call' = [Notice(exchange_rates') EXCEPT ![h] = Idle]
  /\ UNCHANGED day

(* An error of any statement, or the handler is cut off.                   *)
Abandon(h) ==
  /\ ~IsIdle(h)
  /\ call' = [call EXCEPT ![h] = Idle]
  /\ UNCHANGED <<exchange_rates, day>>

BeginGet(h) ==
  /\ IsIdle(h)
  /\ call' = [call EXCEPT ![h] =
       [kind |-> "get", pc |-> "today", date |-> day, possible |-> {QuoteFor(exchange_rates, day)}]]
  /\ UNCHANGED <<exchange_rates, day>>

(* The answer; on_time says that midnight has not passed (history).        *)
Told(h, r) ==
  [kind |-> "told", rate |-> r, possible |-> call[h].possible, on_time |-> call[h].date = day]

(* SELECT of the day's row.                                                *)
SelectToday(h) ==
  /\ IsAt(h, "get", "today")
  /\ LET r == exchange_rates[call[h].date] IN
       call' = [call EXCEPT ![h] = IF r # None THEN Told(h, r) ELSE [@ EXCEPT !.pc = "latest"]]
  /\ UNCHANGED <<exchange_rates, day>>

(* SELECT ... ORDER BY effective_date DESC LIMIT 1; no row is an error.    *)
SelectLatest(h) ==
  /\ IsAt(h, "get", "latest")
  /\ call' = [call EXCEPT ![h] = Told(h, Latest(exchange_rates))]
  /\ UNCHANGED <<exchange_rates, day>>

Midnight ==
  /\ day < LastDay
  /\ day' = day + 1
  /\ UNCHANGED <<exchange_rates, call>>

Next ==
  \/ \E h \in Handlers :
       \/ CheckRate(h) \/ WriteRate(h) \/ Abandon(h)
       \/ BeginGet(h) \/ SelectToday(h) \/ SelectLatest(h)
       \/ \E r \in Rates : BeginSet(h, r)
  \/ Midnight

Spec == Init /\ [][Next]_rateVars

-----------------------------------------------------------------------------
(* The two SELECTs of get_exchange_rate answer as one: on a request served *)
(* within a day, the rate told, or that there is none, was the right one   *)
(* at some moment while it was served, whatever was set in between, also   *)
(* by requests begun the day before.  A request that midnight overtakes    *)
(* may be told the next day's rate though its own day has been given one.  *)
QuotesAreCurrent ==
  \A h \in Handlers :
    call[h].kind = "told" /\ call[h].on_time => call[h].rate \in call[h].possible
=============================================================================
