-------------------------- MODULE WebhookAlertProps --------------------------
(***************************************************************************)
(* What must hold of the alerts about the webhook outbox.                  *)
(***************************************************************************)
EXTENDS WebhookAlert

(* Every variable of the worker has its type; one that runs watches at     *)
(* least one signal, and a signal is in its memory exactly while the last  *)
(* line logged of it says that it is in breach.                            *)
AlertTypeOK ==
    /\ worker \in {"starting", "idle", "query", "exited"}
    /\ cycleNow \in Nat /\ faults \in Nat /\ created \in [Events -> Nat]
    /\ config.cooldown \in Nat /\ config.threshold \in [Signals -> Nat]
    /\ worker \in {"idle", "query"} => config.cooldown > 0 /\ \E s \in Signals : Watched(s)
    /\ states \in [Signals -> Nat \cup {NULL}]
    /\ logged \in [Signals -> Lines \cup {NULL}]
    /\ \A s \in Signals : states[s] # NULL <=> logged[s] # NULL /\ logged[s].line # "resolved"

Alarmed(s) == logged[s] # NULL /\ logged[s].line # "resolved"

(* "sustained breach logs `webhook alert ongoing` at most once per         *)
(* cooldown window" (webhook-alert-threshold-monitoring, FR-003), by the   *)
(* start times of the cycles, and the lines of a signal alternate: one     *)
(* that was resolved is triggered again before it is ongoing.              *)
AlertLogWellFormed ==
    [][worker = "query" /\ faults' = faults =>
         \A s \in Signals : logged'[s] # logged[s] /\ worker' = "idle" =>
            CASE logged'[s].line = "triggered" -> ~Alarmed(s)
              [] logged'[s].line = "ongoing" ->
                   Alarmed(s) /\ logged'[s].at - logged[s].at >= config.cooldown
              [] OTHER -> Alarmed(s)]_everything

(* The signals as an operator reads the rows right now.                    *)
Alarming(s) ==
    /\ worker # "exited" /\ Parsed(setting).threshold[s] > 0
    /\ CASE s = "failed_count" ->
              Cardinality({e \in Events : delivery[e] = "failed"}) >= Parsed(setting).threshold[s]
         [] s = "pending_ready_count" ->
              Cardinality({e \in Events : Claimable(e, clock)}) >= Parsed(setting).threshold[s]
         [] OTHER ->
              \E e \in Events : delivery[e] = "pending"
                                /\ clock - created[e] >= Parsed(setting).threshold[s]

Reminds(s) == logged'[s] # NULL /\ logged'[s].line = "ongoing" /\ worker = "query" /\ worker' = "idle"

(* A breach that lasts is alerted and keeps being reminded of, and what    *)
(* has recovered for good ends up resolved or never alerted, although      *)
(* every cycle works on a time and rows that may have changed since, and   *)
(* queries fail and the worker is restarted now and then (FR-003, FR-004). *)
AlertFollowsOutbox ==
    \A s \in Signals :
        /\ <>[]Alarming(s) => <>[]Alarmed(s) /\ []<><<Reminds(s)>>_logged
        /\ <>[]~Alarming(s) => <>[]~Alarmed(s)
==============================================================================
