---------------------------- MODULE WebhookAlert ----------------------------
(***************************************************************************)
(* The alert worker beside the outbox it watches.  Each cycle reads the    *)
(* time, then the overview of the outbox, and logs for every signal whose  *)
(* threshold is set that a breach was triggered, is ongoing (once per      *)
(* cooldown) or is resolved.  What it knows of earlier cycles is in memory *)
(* and lost with the process.  The outbox changes as reconcilers insert    *)
(* events, dispatchers deliver them (or stand still) and operators act.    *)
(*                                                                         *)
(* One process: replicas share nothing, each one alerts by itself.         *)
(***************************************************************************)
EXTENDS WebhookDispatcherLive

CONSTANTS
    Settings,         \* the environments a worker may be started with
    DefaultCooldown,
    MaxQuery,         \* bound: the time between a cycle's reading and its rows
    MaxFaults         \* bound: restarts, and queries that fail

VARIABLES
    created,     \* webhook_outbox_events.created_at
    setting,     \* the environment the worker is deployed with
    config,      \* the configuration parsed from it
    worker,      \* where the worker is
    cycleNow,    \* the time its cycle started at
    states,      \* per signal: when its breach was last notified, or NULL
    logged,      \* per signal: the last line this process logged of it
    faults

alertVars == <<setting, config, worker, cycleNow, states, logged, faults>>
everything == <<vars, created, alertVars>>

-----------------------------------------------------------------------------
(* Configuration                                                           *)

Signals == {"failed_count", "pending_ready_count", "oldest_pending_age_seconds"}
Raw == Int \cup {NULL}     \* NULL: not set; -1 stands for what is no number
Kinds == {"triggered", "ongoing", "resolved"}
Lines == [line : Kinds, at : Nat]
NoConfig == [cooldown |-> 0, threshold |-> [s \in Signals |-> 0]]

ASSUME AlertAssumption ==
    /\ \A env \in Settings : /\ env.enabled \in BOOLEAN \cup {NULL}
                             /\ env.cooldown \in Raw
                             /\ env.threshold \in [Signals -> Raw]
                             /\ \A raw \in {env.cooldown} \cup {env.threshold[s] : s \in Signals} :
                                   raw = NULL \/ raw + MaxQuery <= MaxTime
    /\ DefaultCooldown \in 1 .. MaxTime - MaxQuery
    /\ MaxQuery \in Nat /\ MaxFaults \in Nat
    /\ NULL \notin Kinds /\ NULL \notin Lines

parsePositiveSeconds(raw) == IF raw = NULL THEN DefaultCooldown ELSE raw
parseNonNegativeInt64(raw) == IF raw = NULL THEN 0 ELSE raw

Parsed(env) == [cooldown |-> parsePositiveSeconds(env.cooldown),
                threshold |-> [s \in Signals |-> parseNonNegativeInt64(env.threshold[s])]]

AcceptedVariantUnwatched(env) ==
    /\ env.enabled = TRUE
    /\ Parsed(env).cooldown \in Nat \ {0}
    /\ \A s \in Signals : Parsed(env).threshold[s] \in Nat

(* The worker only runs when the alerts are enabled and a signal is        *)
(* watched: an environment it cannot use makes it exit.                    *)
Accepted(env) ==
    /\ env.enabled = TRUE
    /\ Parsed(env).cooldown \in Nat \ {0}
    /\ \A s \in Signals : Parsed(env).threshold[s] \in Nat
    /\ \E s \in Signals : Parsed(env).threshold[s] > 0

LoadConfig ==
    /\ worker = "starting"
    /\ \/ Accepted(setting) /\ config' = Parsed(setting) /\ worker' = "idle"
       \/ ~Accepted(setting) /\ worker' = "exited" /\ UNCHANGED config
    /\ UNCHANGED <<setting, cycleNow, states, logged, faults>>

-----------------------------------------------------------------------------
(* A cycle                                                                 *)

Pending == {e \in Events : delivery[e] = "pending"}

Age(n, t) == IF n >= t THEN n - t ELSE 0

(* What GetOverview makes of the rows, at the cycle's start time.          *)
Overview(n) ==
    [s \in Signals |->
       CASE s = "failed_count" -> Cardinality({e \in Events : delivery[e] = "failed"})
         [] s = "pending_ready_count" -> Cardinality({e \in Events : Claimable(e, n)})
         [] OTHER -> IF Pending = {} THEN NULL
                     ELSE Age(n, CHOOSE t \in {created[e] : e \in Pending} :
                                   \A e \in Pending : t <= created[e])]

Watched(s) == config.threshold[s] > 0

BreachedVariantAbove(s, current) == current # NULL /\ current > config.threshold[s]
Breached(s, current) == current # NULL /\ current >= config.threshold[s]

(* The line a signal is logged with, NULL for none.                        *)
Line(s, current) ==
    CASE Breached(s, current) /\ states[s] = NULL -> "triggered"
      [] Breached(s, current) /\ states[s] # NULL ->
           IF cycleNow - states[s] >= config.cooldown THEN "ongoing" ELSE NULL
      [] ~Breached(s, current) -> IF states[s] # NULL THEN "resolved" ELSE NULL

NotifiedVariantFirstOnly(s, line) ==
    CASE line = "triggered" -> cycleNow
      [] line = "resolved" -> NULL
      [] OTHER -> states[s]

Notified(s, line) ==
    CASE line \in {"triggered", "ongoing"} -> cycleNow
      [] line = "resolved" -> NULL
      [] OTHER -> states[s]

(* The time is read before the outbox is queried.  Within a process it     *)
(* does not run backwards.                                                 *)
StartCycle ==
    /\ worker = "idle"
    /\ cycleNow' \in {n \in Readings : n >= cycleNow}
    /\ worker' = "query"
    /\ UNCHANGED <<setting, config, states, logged, faults>>

Evaluate ==
    /\ worker = "query"
    /\ LET overview == Overview(cycleNow)
           line == [s \in Signals |-> IF Watched(s) THEN Line(s, overview[s]) ELSE NULL]
       IN /\ states' = [s \in Signals |-> Notified(s, line[s])]
          /\ logged' = [s \in Signals |->
                          IF line[s] = NULL THEN logged[s] ELSE [line |-> line[s], at |-> cycleNow]]
    /\ worker' = "idle"
    /\ UNCHANGED <<setting, config, cycleNow, faults>>

(* The query fails: the cycle ends as if it had not been.                  *)
QueryFails ==
    /\ worker = "query"
    /\ faults < MaxFaults /\ faults' = faults + 1
    /\ worker' = "idle"
    /\ UNCHANGED <<setting, config, cycleNow, states, logged>>

Restart ==
    /\ worker # "starting"
    /\ faults < MaxFaults /\ faults' = faults + 1
    /\ worker' = "starting" /\ config' = NoConfig
    /\ cycleNow' = 0
    /\ states' = [s \in Signals |-> NULL]
    /\ logged' = [s \in Signals |-> NULL]
    /\ UNCHANGED setting

-----------------------------------------------------------------------------
(* Both stamps are the reading a reconciler's cycle began with.            *)
Arrives(e) ==
    /\ \E n \in Readings : InsertRow(e, n) /\ created' = [created EXCEPT ![e] = n]
    /\ UNCHANGED <<clock, workerVars, countVars, alertVars>>

(* At the horizon the worker's stamps grow older with all others.          *)
OlderSignal(l) == IF l = NULL THEN NULL ELSE [l EXCEPT !.at = Older(@)]

Ages ==
    /\ TimePasses
    /\ created' = [e \in Events |-> Older(created[e])]
    /\ cycleNow' = Older(cycleNow)
    /\ states' = [s \in Signals |-> Older(states[s])]
    /\ logged' = [s \in Signals |-> OlderSignal(logged[s])]
    /\ UNCHANGED <<setting, config, worker, faults>>

Time ==
    /\ worker = "query" => clock - cycleNow < MaxQuery
    /\ Ages \/ (Tick /\ UNCHANGED <<created, alertVars>>)

AlertStep == LoadConfig \/ StartCycle \/ Evaluate

AlertInit ==
    /\ StartWith("absent")
    /\ created = [e \in Events |-> 0]
    /\ setting \in Settings
    /\ config = NoConfig /\ worker = "starting" /\ cycleNow = 0 /\ faults = 0
    /\ states = [s \in Signals |-> NULL]
    /\ logged = [s \in Signals |-> NULL]

AlertNext ==
    \/ Time
    \/ \E e \in Events : Arrives(e)
    \/ (AlertStep \/ QueryFails \/ Restart) /\ UNCHANGED <<vars, created>>
    \/ /\ \/ \E w \in Workers : WorkerStep(w) \/ RenewLease(w) \/ Abort(w)
          \/ \E e \in Events : RequeueDLQEvent(e) \/ CancelOutboxEvent(e)
       /\ UNCHANGED <<created, alertVars>>

(* The alert worker polls on its ticker and time goes on.  The dispatchers *)
(* may stop: that is what the alerts are for.                              *)
AlertSpec ==
    /\ AlertInit /\ [][AlertNext]_everything
    /\ WF_everything(Time)
    /\ WF_everything(AlertStep /\ UNCHANGED <<vars, created>>)
=============================================================================
