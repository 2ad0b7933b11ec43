------------------------- MODULE ReconcilerEvidence -------------------------
(***************************************************************************)
(* The reconciler with a record of how the settlements of a request came   *)
(* to be what they are.  A cycle writes them in one transaction and the    *)
(* status in a second one, with nothing that binds the two together: a     *)
(* worker may stop in between, and another may write in between.  Nothing  *)
(* the reconciler does depends on the record.                              *)
(***************************************************************************)
EXTENDS ReconcilerProps

(* trail[r].by:    the worker that wrote r's settlements last, until it    *)
(*                 has written the status too;                             *)
(* trail[r].open:  no status was written on these settlements yet, or a    *)
(*                 failed observation erased the streak written for them;  *)
(* trail[r].lapse: evidence may have been lost that the cycle which lost   *)
(*                 it did not report, since it did not reach its status    *)
(*                 write, was overtaken, or saw the transfer as removed.   *)
VARIABLE trail

Canonical(r) == {e \in Refs : settlements[r][e] = "canonical"}
Enough(r) == Cardinality(Canonical(r)) >= ConfirmAt

Removes(w, r) == \E e \in Refs : view[w][e] = "removed" /\ settlements[r][e] = "canonical"

SyncTrail(w) ==
    LET r == cur[w].id
    IN trail' = [trail EXCEPT ![r] =
                    [by |-> w, open |-> TRUE, lapse |-> @.lapse \/ @.open \/ Removes(w, r)]]

WriteTrail(w) ==
    LET r == cur[w].id
        own == trail[r].by = w
    IN IF CanWrite(w, cur[w])
       THEN trail' = [trail EXCEPT
                        ![r] = IF own THEN [by |-> NULL, open |-> FALSE,
                                            lapse |-> @.lapse /\ ~Confirmed(view[w])]
                               ELSE [@ EXCEPT !.open = TRUE, !.lapse = TRUE]]
       ELSE UNCHANGED trail

FaultTrail(w) ==
    LET r == cur[w].id
    IN IF CanWrite(w, cur[w])
       THEN trail' = [trail EXCEPT ![r].open = @ \/ trail[r].lapse]
       ELSE UNCHANGED trail

EInit == Init /\ trail = [r \in Requests |-> [by |-> NULL, open |-> FALSE, lapse |-> FALSE]]

OtherStep == Tick \/ ChainStep \/ \E w \in Workers : Claim(w) \/ Expire(w) \/ Observe(w) \/ Abort(w)

ENext ==
    \/ OtherStep /\ UNCHANGED trail
    \/ \E w \in Workers : SyncObservedSettlements(w) /\ SyncTrail(w)
    \/ \E w \in Workers : Write(w) /\ WriteTrail(w)
    \/ \E w \in Workers : WriteFault(w) /\ FaultTrail(w)

ESpec == EInit /\ [][ENext]_<<vars, trail>>

(* A confirmed request whose cycle is complete has at least the confirmed  *)
(* threshold in canonical settlement rows.  Evidence that went unreported, *)
(* by a crash between the two transactions, by a worker that outlived its  *)
(* lease or as a removed log, is made up for by the next complete cycle:   *)
(* it finds the payment confirmed again, or it counts towards a rollback.  *)
ConfirmedHasEvidence ==
    \A r \in Requests :
        status[r] = "confirmed" /\ ~trail[r].open =>
            Enough(r) \/ (trail[r].lapse /\ meta[r].demote > 0)
=============================================================================
