-------------------------- MODULE StatusNotification --------------------------
(***************************************************************************)
(* What a client that gave a webhook is promised: every change of status   *)
(* owes it one notice, which stays owed until the client's endpoint has    *)
(* accepted it or it is dropped, because its attempts are used up or an    *)
(* operator cancelled it; and what was dropped is owed again when an       *)
(* operator asks for it.  Nothing counts as told that was not accepted.    *)
(* An endpoint may accept a notice more than once, and after it was        *)
(* dropped too.                                                            *)
(***************************************************************************)
EXTENDS PaymentLifecycle

CONSTANTS Notices, NULL

VARIABLES
    notice,    \* the change a notice reports, and what has become of it
    accepted   \* the notices the endpoint has accepted

noticeVars == <<status, outbox, notice, accepted>>

Known(n) == notice[n] # NULL
State(n, s) == Known(n) /\ notice[n].state = s

Change(r, from, to) ==
    /\ Move(r, from, to)
    /\ \/ /\ r \in Webhook
          /\ \E n \in Notices :
               /\ ~Known(n)
               /\ notice' = [notice EXCEPT ![n] =
                    [request |-> r, change |-> Len(outbox[r]) + 1, state |-> "owed"]]
       \/ r \notin Webhook /\ UNCHANGED notice
    /\ UNCHANGED accepted

Accept(n) ==
    /\ Known(n)
    /\ accepted' = accepted \cup {n}
    /\ UNCHANGED <<status, outbox, notice>>

BecomesFrom(n, before, after) ==
    /\ State(n, before)
    /\ notice' = [notice EXCEPT ![n].state = after]
    /\ UNCHANGED <<status, outbox, accepted>>

Tell(n) == n \in accepted /\ BecomesFrom(n, "owed", "told")
Drop(n) == BecomesFrom(n, "owed", "dropped")
OweAgain(n) == BecomesFrom(n, "dropped", "owed")

NoticeInit ==
    /\ Init
    /\ notice = [n \in Notices |-> NULL]
    /\ accepted = {}

NoticeNext ==
    \/ \E r \in Requests, edge \in Edges : Change(r, edge[1], edge[2])
    \/ \E n \in Notices : Accept(n) \/ Tell(n) \/ Drop(n) \/ OweAgain(n)

NoticeSafety == NoticeInit /\ [][NoticeNext]_noticeVars

(* A notice is not owed for ever.                                          *)
NoticeSpec == NoticeSafety /\ \A n \in Notices : WF_noticeVars(Tell(n) \/ Drop(n))
===============================================================================
