---------------------------- MODULE MCNotification ----------------------------
EXTENDS Notification

(* The dispatchers do not look at the statuses: one course of a request.   *)
MCCourse == {<<"pending", "confirmed">>, <<"confirmed", "reorged">>}
===============================================================================
