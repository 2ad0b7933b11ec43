-------------------------- MODULE PaymentLifecycle --------------------------
(***************************************************************************)
(* What the reconciler promises about one payment request: its status      *)
(* moves along the edges of the documented lifecycle, and each move of a   *)
(* request with a webhook enqueues exactly one event that reports it, in   *)
(* the same step.                                                          *)
(***************************************************************************)
EXTENDS Naturals, Sequences

CONSTANTS Requests, Webhook

VARIABLES status, outbox

lifecycleVars == <<status, outbox>>

Edges == {<<"pending", "detected">>, <<"pending", "confirmed">>, <<"detected", "confirmed">>,
          <<"confirmed", "reorged">>, <<"reorged", "confirmed">>,
          <<"pending", "expired">>, <<"detected", "expired">>, <<"reorged", "expired">>}

Init ==
    /\ status = [r \in Requests |-> "pending"]
    /\ outbox = [r \in Requests |-> <<>>]

Move(r, from, to) ==
    /\ status[r] = from
    /\ status' = [status EXCEPT ![r] = to]
    /\ outbox' = IF r \in Webhook
                 THEN [outbox EXCEPT ![r] = Append(@, [from |-> from, to |-> to])]
                 ELSE outbox

Next == \E r \in Requests, edge \in Edges : Move(r, edge[1], edge[2])

Spec == Init /\ [][Next]_lifecycleVars

(* The events of a request are its whole history: they start at pending,   *)
(* each takes up where the one before left off, and the last one reports   *)
(* the status the row has now.                                             *)
History(r) ==
    /\ outbox[r] = <<>> => status[r] = "pending"
    /\ outbox[r] # <<>> => outbox[r][1].from = "pending"
    /\ outbox[r] # <<>> => outbox[r][Len(outbox[r])].to = status[r]
    /\ \A i \in 1 .. Len(outbox[r]) - 1 : outbox[r][i + 1].from = outbox[r][i].to

OutboxIsHistory == \A r \in Webhook : History(r)
=============================================================================
