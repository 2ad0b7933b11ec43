------------------------------- MODULE MCAlert -------------------------------
EXTENDS WebhookAlertProps

Env(enabled, cooldown, failed, ready, oldest) ==
    [enabled |-> enabled, cooldown |-> cooldown,
     threshold |-> [s \in Signals |-> CASE s = "failed_count" -> failed
                                        [] s = "pending_ready_count" -> ready
                                        [] OTHER -> oldest]]

(* Failures alone, the two signals about pending events, and environments  *)
(* the worker does not start with.                                         *)
MCSettings == {Env(TRUE, 1, 1, NULL, NULL), Env(TRUE, NULL, 0, 2, 2),
               Env(TRUE, NULL, NULL, NULL, NULL), Env(NULL, NULL, 1, 1, 1), Env(TRUE, 0, 1, NULL, NULL)}
==============================================================================
