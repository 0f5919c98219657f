---------------------------- MODULE EventReplay -----------------------------
(***************************************************************************)
(* The replays of the reconciliation service, as they run against the      *)
(* schema the repository ships.  Both insert a RUNNING row and go on in a  *)
(* background task, with nothing that excludes a second one.               *)
(*                                                                         *)
(* start_full_replay empties three tables, one by one, and then selects    *)
(* event_id from transaction_events.  Migration 001 creates no such column *)
(* (and migration 002, the service's own schema, no such table), so that   *)
(* this SELECT is an error, the replay is marked FAILED, and what follows  *)
(* in execute_replay is never reached.  start_safe_replay begins with a    *)
(* backup into a table whose unquoted name contains the hyphens of a UUID, *)
(* a syntax error: it is marked FAILED and has touched nothing.            *)
(***************************************************************************)
CONSTANTS Replays,
          Events  \* events of the ledger

VARIABLES event_ledger,     \* the events it holds
          daily_summaries,  \* whether there are any
          anomalies,        \* whether there are any
          event_replays,    \* each replay's row: its status, or "none"
          task,             \* what its background task is about to do
          recorded,         \* the events the ledger held at the start (history)
          disturbed         \* has a sound statement failed, or the process stopped? (history)

vars == <<event_ledger, daily_summaries, anomalies, event_replays, task, recorded, disturbed>>

(* Nothing in this code writes to the ledger: the subscription that should *)
(* feed it returns at once.  It starts with what was put there.            *)
Init ==
  /\ recorded \in SUBSET Events
  /\ event_ledger = recorded
  /\ daily_summaries = (recorded # {})
  /\ anomalies \in BOOLEAN
  /\ event_replays = [r \in Replays |-> "none"]
  /\ task = [r \in Replays |-> "none"]
  /\ disturbed = FALSE

-----------------------------------------------------------------------------
(* INSERT INTO event_replays, and tokio::spawn.                            *)
Start(r, first) ==
  /\ event_replays[r] = "none"
  /\ event_replays' = [event_replays EXCEPT ![r] = "RUNNING"]
  /\ task' = [task EXCEPT ![r] = first]
  /\ UNCHANGED <<event_ledger, daily_summaries, anomalies, recorded, disturbed>>

StartFullReplay(r) == Start(r, "clear_ledger")
StartSafeReplay(r) == Start(r, "create_backup")

(* A statement that succeeds takes the task on to the next one.            *)
Goes(r, from, to) ==
  /\ task[r] = from
  /\ task' = [task EXCEPT ![r] = to]
  /\ UNCHANGED <<event_replays, recorded, disturbed>>

(* clear_ledger_data: three DELETEs, each committed on its own.            *)
ClearLedger(r) ==
  /\ Goes(r, "clear_ledger", "clear_summaries")
  /\ event_ledger' = {}
  /\ UNCHANGED <<daily_summaries, anomalies>>

ClearSummaries(r) ==
  /\ Goes(r, "clear_summaries", "clear_anomalies")
  /\ daily_summaries' = FALSE
  /\ UNCHANGED <<event_ledger, anomalies>>

ClearAnomalies(r) ==
  /\ Goes(r, "clear_anomalies", "get_events")
  /\ anomalies' = FALSE
  /\ UNCHANGED <<event_ledger, daily_summaries>>

(* get_all_events_from_source and create_backup: always an error.          *)
GetEvents(r) ==
  /\ Goes(r, "get_events", "mark_failed")
  /\ UNCHANGED <<event_ledger, daily_summaries, anomalies>>

CreateBackup(r) ==
  /\ Goes(r, "create_backup", "mark_failed")
  /\ UNCHANGED <<event_ledger, daily_summaries, anomalies>>

(* A DELETE fails, because the database does.                              *)
ClearFails(r) ==
  /\ task[r] \in {"clear_ledger", "clear_summaries", "clear_anomalies"}
  /\ task' = [task EXCEPT ![r] = "mark_failed"]
  /\ disturbed' = TRUE
  /\ UNCHANGED <<event_ledger, daily_summaries, anomalies, event_replays, recorded>>

(* mark_replay_failed, whose own error is ignored.                         *)
MarkReplayFailed(r) ==
  /\ task[r] = "mark_failed"
  /\ event_replays' \in {event_replays, [event_replays EXCEPT ![r] = "FAILED"]}
  /\ task' = [task EXCEPT ![r] = "none"]
  /\ UNCHANGED <<event_ledger, daily_summaries, anomalies, recorded, disturbed>>

(* The process stops: RUNNING rows stay, and nothing takes them up again.  *)
Crash ==
  /\ task' = [r \in Replays |-> "none"]
  /\ disturbed' = TRUE
  /\ UNCHANGED <<event_ledger, daily_summaries, anomalies, event_replays, recorded>>

Next ==
  \/ \E r \in Replays :
       \/ StartFullReplay(r) \/ StartSafeReplay(r)
       \/ ClearLedger(r) \/ ClearSummaries(r) \/ ClearAnomalies(r)
       \/ GetEvents(r) \/ CreateBackup(r) \/ ClearFails(r) \/ MarkReplayFailed(r)
  \/ Crash

Spec == Init /\ [][Next]_vars

-----------------------------------------------------------------------------
(* The README promises complete ledger reconstruction.  Where no statement *)
(* fails that need not and the process keeps running, one may expect of    *)
(* replays that have ended that the ledger holds, at least, what it held   *)
(* before.  It does not: a replay empties it, and cannot read the events.  *)
LedgerIsRebuilt ==
  ~disturbed /\ (\A r \in Replays : event_replays[r] # "RUNNING") => recorded \subseteq event_ledger
=============================================================================
