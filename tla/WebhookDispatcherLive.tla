------------------------ MODULE WebhookDispatcherLive ------------------------
(***************************************************************************)
(* The dispatcher under fair scheduling and with time that never ends: at  *)
(* the horizon one more unit of time makes every time stamp one unit       *)
(* older.  Stamps are only compared with readings of the clock, and one    *)
(* of 0 is in the past of every reading already.                           *)
(***************************************************************************)
EXTENDS WebhookDispatcherProps

ASSUME LiveAssumption ==
    /\ MaxLag = 0 /\ MaxAhead = 0
    /\ MaxBackoff <= MaxTime /\ LeaseTime <= MaxTime

Older(t) == IF t = NULL \/ t = 0 THEN t ELSE t - 1

TimePasses ==
    /\ clock = MaxTime
    /\ Heartbeats => \A w \in Workers : Beating(w) => lease[cur[w].id].until > clock + 1
    /\ nextAttempt' = [e \in Events |-> Older(nextAttempt[e])]
    /\ lease' = [e \in Events |-> [lease[e] EXCEPT !.until = Older(@)]]
    /\ now' = [w \in Workers |-> Older(now[w])]
    /\ UNCHANGED <<clock, delivery, attempts, pc, rows, cur, answer, beat, countVars>>

(* What a worker does itself takes milliseconds, against leases of many    *)
(* seconds: time passes while a POST is under way or a worker is idle.     *)
Prompt == \A w \in Workers : /\ pc[w] \in {"idle", "sending"}
                             /\ pc[w] = "sending" => beat[w] # "first"

(* The worker's ticker runs a cycle again and again, the HTTP client has a *)
(* timeout, every heartbeat renews on time while it runs, and the clock    *)
(* goes on.  Nothing is assumed of the endpoint's answers, and nothing     *)
(* makes a worker crash or an operator act.                                *)
LiveNext == (Next /\ (clock' # clock => Prompt)) \/ (TimePasses /\ Prompt)
LiveSpec ==
    /\ Init /\ [][LiveNext]_vars
    /\ WF_vars((Tick \/ TimePasses) /\ Prompt)
    /\ \A w \in Workers : WF_vars(WorkerStep(w))

(* Every event is eventually delivered or failed for good: the rows of a   *)
(* worker that crashed or gave its cycle up are claimed again when their   *)
(* lease has run out, a failing endpoint uses the attempts up although     *)
(* stale workers may write older counts over newer ones, and an event that *)
(* is retried does not starve the ones behind it (webhook-status-outbox-   *)
(* delivery, AC4; webhook-lease-heartbeat-renewal, FR-004).                *)
EventuallySettled == \A e \in Events : []<>(delivery[e] # "pending")
=============================================================================
