-------------------------- MODULE WebhookAlertProofs --------------------------
(***************************************************************************)
(* The alert worker's memory and its log, whatever the outbox does.        *)
(***************************************************************************)
EXTENDS WebhookAlertProps, TLAPS

(* What the worker remembers of a signal in breach is when it last logged  *)
(* a line of it.                                                           *)
Remembers == \A s \in Signals : states[s] # NULL => logged[s].at = states[s]

AlertInv == AlertTypeOK /\ clock \in Nat /\ Remembers

LEMMA ReadingType == ASSUME clock \in Nat, NEW n \in Readings PROVE n \in Nat
  BY DispatcherAssumption DEF Readings

LEMMA OlderType == ASSUME NEW t \in Nat \cup {NULL} PROVE Older(t) \in Nat \cup {NULL}
                                                   /\ (t \in Nat => Older(t) \in Nat)
                                                   /\ (Older(t) = NULL <=> t = NULL)
  BY DispatcherAssumption DEF Older

(* The dispatchers and the operators do not touch the worker.              *)
LEMMA ClockKept ==
    ASSUME clock \in Nat, AlertNext
    PROVE  clock' \in Nat
  <1>1. ASSUME NEW w \in Workers, WorkerStep(w) \/ RenewLease(w) \/ Abort(w) PROVE clock' = clock
    BY <1>1 DEF WorkerStep, ClaimPendingForDispatch, TakeUp, Answer, Mark, RenewLease, Abort
  <1>2. ASSUME NEW e \in Events, RequeueDLQEvent(e) \/ CancelOutboxEvent(e) PROVE clock' = clock
    BY <1>2 DEF RequeueDLQEvent, CancelOutboxEvent, ManualCall
  <1>3. CASE Time
    BY <1>3 DEF Time, Ages, TimePasses, Tick
  <1>4. ASSUME NEW e \in Events, Arrives(e) PROVE clock' = clock
    BY <1>4 DEF Arrives
  <1>5. UNCHANGED <<vars, created>> => clock' = clock
    BY DEF vars
  <1> QED
    BY <1>1, <1>2, <1>3, <1>4, <1>5 DEF AlertNext

-----------------------------------------------------------------------------
(* What a cycle does to a signal                                           *)

LEMMA LineKind ==
    ASSUME NEW s \in Signals, NEW current
    PROVE  /\ Line(s, current) \in Kinds \cup {NULL}
           /\ Line(s, current) = "triggered" => states[s] = NULL
           /\ Line(s, current) = "ongoing" =>
                 states[s] # NULL /\ cycleNow - states[s] >= config.cooldown
           /\ Line(s, current) = "resolved" => states[s] # NULL
  <1>1. Breached(s, current) \in BOOLEAN
    BY DEF Breached
  <1> QED
    BY <1>1, AlertAssumption DEF Line, Kinds

LEMMA EvaluateEffect ==
    ASSUME AlertInv, Evaluate, NEW s \in Signals
    PROVE  \/ states'[s] = states[s] /\ logged'[s] = logged[s]
           \/ \E kind \in Kinds :
                /\ logged'[s] = [line |-> kind, at |-> cycleNow]
                /\ states'[s] = IF kind = "resolved" THEN NULL ELSE cycleNow
                /\ kind = "triggered" <=> states[s] = NULL
                /\ kind = "ongoing" => cycleNow - states[s] >= config.cooldown
  <1>1. PICK line \in [Signals -> Kinds \cup {NULL}] :
          /\ states' = [t \in Signals |-> Notified(t, line[t])]
          /\ logged' = [t \in Signals |->
                IF line[t] = NULL THEN logged[t] ELSE [line |-> line[t], at |-> cycleNow]]
          /\ \A t \in Signals : /\ line[t] = "triggered" => states[t] = NULL
                                /\ line[t] = "ongoing" =>
                                      states[t] # NULL /\ cycleNow - states[t] >= config.cooldown
                                /\ line[t] = "resolved" => states[t] # NULL
    <2> DEFINE overview == Overview(cycleNow)
               line == [t \in Signals |-> IF Watched(t) THEN Line(t, overview[t]) ELSE NULL]
    <2>1. /\ states' = [t \in Signals |-> Notified(t, line[t])]
          /\ logged' = [t \in Signals |->
                IF line[t] = NULL THEN logged[t] ELSE [line |-> line[t], at |-> cycleNow]]
      BY DEF Evaluate
    <2>2. line \in [Signals -> Kinds \cup {NULL}]
      BY LineKind
    <2>3. \A t \in Signals : line[t] = NULL \/ line[t] = Line(t, overview[t])
      OBVIOUS
    <2>4. NULL # "triggered" /\ NULL # "ongoing" /\ NULL # "resolved"
      BY AlertAssumption DEF Kinds
    <2> HIDE DEF line
    <2>5. \A t \in Signals : /\ line[t] = "triggered" => states[t] = NULL
                             /\ line[t] = "ongoing" =>
                                   states[t] # NULL /\ cycleNow - states[t] >= config.cooldown
                             /\ line[t] = "resolved" => states[t] # NULL
      BY <2>3, <2>4, LineKind
    <2> QED
      BY <2>1, <2>2, <2>5
  <1>2. line[s] \in Kinds \cup {NULL}
    BY <1>1
  <1>3. CASE line[s] = NULL
    BY <1>1, <1>3, AlertAssumption DEF Notified, Kinds
  <1>4. CASE line[s] \in Kinds
    BY <1>1, <1>4, AlertAssumption DEF Notified, Kinds
  <1> QED
    BY <1>2, <1>3, <1>4

-----------------------------------------------------------------------------
(* The invariant                                                           *)

(* One signal's part of it.                                                *)
SignalFits(s) ==
    /\ states[s] \in Nat \cup {NULL} /\ logged[s] \in Lines \cup {NULL}
    /\ states[s] # NULL <=> logged[s] # NULL /\ logged[s].line # "resolved"
    /\ states[s] # NULL => logged[s].at = states[s]

SignalMaps == DOMAIN states = Signals /\ DOMAIN logged = Signals
              /\ states = [s \in Signals |-> states[s]] /\ logged = [s \in Signals |-> logged[s]]

LEMMA FitsType ==
    ASSUME SignalMaps, \A s \in Signals : SignalFits(s)
    PROVE  /\ states \in [Signals -> Nat \cup {NULL}]
           /\ logged \in [Signals -> Lines \cup {NULL}]
           /\ \A s \in Signals : states[s] # NULL <=> logged[s] # NULL /\ logged[s].line # "resolved"
           /\ Remembers
  BY DEF SignalMaps, SignalFits, Remembers

LEMMA InvFits == AlertInv => SignalMaps /\ \A s \in Signals : SignalFits(s)
  BY DEF AlertInv, AlertTypeOK, Remembers, SignalMaps, SignalFits

LEMMA EvaluateFits ==
    ASSUME AlertInv, Evaluate
    PROVE  SignalMaps' /\ \A s \in Signals : SignalFits(s)'
  <1>1. SignalMaps'
    BY DEF Evaluate, SignalMaps
  <1>2. ASSUME NEW s \in Signals PROVE SignalFits(s)'
    <2>1. SignalFits(s) /\ cycleNow \in Nat
      BY InvFits DEF AlertInv, AlertTypeOK
    <2>2. CASE states'[s] = states[s] /\ logged'[s] = logged[s]
      BY <2>1, <2>2 DEF SignalFits
    <2>3. ASSUME NEW kind \in Kinds,
                 logged'[s] = [line |-> kind, at |-> cycleNow],
                 states'[s] = IF kind = "resolved" THEN NULL ELSE cycleNow
          PROVE  SignalFits(s)'
      <3>1. logged'[s] \in Lines /\ logged'[s].line = kind /\ logged'[s].at = cycleNow
        BY <2>1, <2>3 DEF Lines
      <3>2. logged'[s] # NULL /\ cycleNow # NULL
        BY <2>1, <3>1, AlertAssumption, DispatcherAssumption
      <3> QED
        BY <2>1, <2>3, <3>1, <3>2 DEF SignalFits
    <2> QED
      BY <2>2, <2>3, EvaluateEffect
  <1> QED
    BY <1>1, <1>2

LEMMA AgesFits ==
    ASSUME AlertInv, Ages
    PROVE  SignalMaps' /\ \A s \in Signals : SignalFits(s)'
  <1>1. SignalMaps'
    BY DEF Ages, SignalMaps
  <1>2. ASSUME NEW s \in Signals PROVE SignalFits(s)'
    <2>1. SignalFits(s)
      BY InvFits
    <2>2. states'[s] = Older(states[s]) /\ logged'[s] = OlderSignal(logged[s])
      BY DEF Ages
    <2>3. states'[s] \in Nat \cup {NULL} /\ (states'[s] = NULL <=> states[s] = NULL)
      BY <2>1, <2>2, OlderType DEF SignalFits
    <2>4. CASE logged[s] = NULL
      BY <2>1, <2>2, <2>3, <2>4 DEF SignalFits, OlderSignal
    <2>5. CASE logged[s] # NULL
      <3>1. logged[s] \in Lines /\ logged'[s] = [logged[s] EXCEPT !.at = Older(logged[s].at)]
        BY <2>1, <2>2, <2>5 DEF SignalFits, OlderSignal
      <3>2. Older(logged[s].at) \in Nat
        BY <3>1, OlderType DEF Lines
      <3>3. /\ logged'[s] \in Lines /\ logged'[s].line = logged[s].line
            /\ logged'[s].at = Older(logged[s].at)
        BY <3>1, <3>2 DEF Lines
      <3>4. logged'[s] # NULL
        BY <3>3, AlertAssumption
      <3> QED
        BY <2>1, <2>2, <2>3, <2>5, <3>3, <3>4 DEF SignalFits
    <2> QED
      BY <2>4, <2>5
  <1> QED
    BY <1>1, <1>2

(* The rest of the type invariant: where the worker is, and its settings.  *)
WorkerFits ==
    /\ worker \in {"starting", "idle", "query", "exited"}
    /\ cycleNow \in Nat /\ faults \in Nat /\ created \in [Events -> Nat]
    /\ config.cooldown \in Nat /\ config.threshold \in [Signals -> Nat]
    /\ worker \in {"idle", "query"} => config.cooldown > 0 /\ \E s \in Signals : Watched(s)

LEMMA FitsInv ==
    ASSUME WorkerFits, SignalMaps, \A s \in Signals : SignalFits(s), clock \in Nat
    PROVE  AlertInv
  BY FitsType DEF AlertInv, AlertTypeOK, WorkerFits

LEMMA ParsedType ==
    ASSUME NEW env, Accepted(env)
    PROVE  /\ Parsed(env).cooldown \in Nat /\ Parsed(env).cooldown > 0
           /\ Parsed(env).threshold \in [Signals -> Nat]
           /\ \E s \in Signals : Parsed(env).threshold[s] > 0
  BY DEF Accepted, Parsed

(* Steps that leave the worker's settings and its log alone.               *)
LEMMA QuietFits ==
    ASSUME AlertInv, UNCHANGED <<worker, config, states, logged>>,
           cycleNow' \in Nat, faults' \in Nat, created' \in [Events -> Nat]
    PROVE  WorkerFits' /\ SignalMaps' /\ \A s \in Signals : SignalFits(s)'
  <1>1. SignalMaps /\ \A s \in Signals : SignalFits(s)
    BY InvFits
  <1> QED
    BY <1>1 DEF AlertInv, AlertTypeOK, WorkerFits, SignalMaps, SignalFits, Watched

LEMMA InitAlertInv == AlertInit => AlertInv
  <1> SUFFICES ASSUME AlertInit PROVE AlertInv
    OBVIOUS
  <1>1. clock \in Nat
    BY DEF AlertInit, StartWith
  <1>2. WorkerFits
    BY DEF AlertInit, WorkerFits, NoConfig
  <1>3. SignalMaps /\ \A s \in Signals : SignalFits(s)
    BY DEF AlertInit, SignalMaps, SignalFits
  <1> QED
    BY <1>1, <1>2, <1>3, FitsInv

LEMMA NextAlertInv == AlertInv /\ [AlertNext]_everything => AlertInv'
  <1> SUFFICES ASSUME AlertInv, [AlertNext]_everything PROVE AlertInv'
    OBVIOUS
  <1> DEFINE Fits == WorkerFits' /\ SignalMaps' /\ \A s \in Signals : SignalFits(s)'
  <1>1. /\ clock \in Nat /\ cycleNow \in Nat /\ faults \in Nat /\ created \in [Events -> Nat]
        /\ SignalMaps /\ \A s \in Signals : SignalFits(s)
        /\ WorkerFits
    BY InvFits DEF AlertInv, AlertTypeOK, WorkerFits
  <1>2. ASSUME UNCHANGED <<created, alertVars>> PROVE Fits
    BY <1>1, <1>2, QuietFits DEF alertVars
  <1>3. ASSUME Ages PROVE Fits
    <2>1. WorkerFits'
      <3>1. \A e \in Events : Older(created[e]) \in Nat
        BY <1>1, OlderType
      <3>2. created' \in [Events -> Nat] /\ cycleNow' \in Nat
        BY <1>1, <1>3, <3>1, OlderType DEF Ages
      <3> QED
        BY <1>1, <1>3, <3>2 DEF Ages, WorkerFits, Watched
    <2> QED
      BY <1>3, <2>1, AgesFits
  <1>4. ASSUME NEW e \in Events, Arrives(e) PROVE Fits
    <2>1. PICK n \in Readings : created' = [created EXCEPT ![e] = n]
      BY <1>4 DEF Arrives
    <2>2. created' \in [Events -> Nat]
      BY <1>1, <2>1, ReadingType
    <2> QED
      BY <1>1, <1>4, <2>2, QuietFits DEF Arrives, alertVars
  <1>5. ASSUME LoadConfig /\ UNCHANGED created PROVE Fits
    <2>1. WorkerFits'
      BY <1>1, <1>5, ParsedType DEF LoadConfig, WorkerFits, Watched
    <2> QED
      BY <1>1, <1>5, <2>1 DEF LoadConfig, SignalMaps, SignalFits
  <1>6. ASSUME (StartCycle \/ QueryFails) /\ UNCHANGED created PROVE Fits
    <2>1. cycleNow' \in Nat /\ faults' \in Nat
      BY <1>1, <1>6, ReadingType DEF StartCycle, QueryFails
    <2>2. WorkerFits'
      BY <1>1, <1>6, <2>1 DEF StartCycle, QueryFails, WorkerFits, Watched
    <2> QED
      BY <1>1, <1>6, <2>2 DEF StartCycle, QueryFails, SignalMaps, SignalFits
  <1>7. ASSUME Evaluate /\ UNCHANGED created PROVE Fits
    <2>1. WorkerFits'
      BY <1>1, <1>7 DEF Evaluate, WorkerFits, Watched
    <2> QED
      BY <1>7, <2>1, EvaluateFits
  <1>8. ASSUME Restart /\ UNCHANGED created PROVE Fits
    BY <1>1, <1>8 DEF Restart, WorkerFits, NoConfig, SignalMaps, SignalFits
  <1>9. Fits
    BY <1>2, <1>3, <1>4, <1>5, <1>6, <1>7, <1>8 DEF AlertNext, Time, AlertStep, everything
  <1>10. clock' \in Nat
    BY <1>1, ClockKept DEF everything, vars
  <1>11. /\ states' \in [Signals -> Nat \cup {NULL}] /\ logged' \in [Signals -> Lines \cup {NULL}]
         /\ \A s \in Signals : states'[s] # NULL <=> logged'[s] # NULL /\ logged'[s].line # "resolved"
         /\ Remembers'
    BY <1>9 DEF SignalMaps, SignalFits, Remembers
  <1> QED
    BY <1>9, <1>10, <1>11 DEF AlertInv, AlertTypeOK, WorkerFits

(* The worker's memory of a signal agrees with what it last logged, it     *)
(* only works with settings it accepted, whatever the environment, and     *)
(* whichever cycles fail or are cut short by a restart.                    *)
THEOREM AlertTypeCorrect == AlertSpec => []AlertTypeOK
  <1>1. AlertInv => AlertTypeOK
    BY DEF AlertInv
  <1> QED
    BY <1>1, InitAlertInv, NextAlertInv, PTL DEF AlertSpec

-----------------------------------------------------------------------------
(* The log                                                                 *)

(* "webhook alert ongoing" is logged at most once per cooldown, and the    *)
(* lines of a signal alternate, for any thresholds and any outbox.         *)
THEOREM AlertLogKept == AlertSpec => AlertLogWellFormed
  <1> DEFINE Kept ==
        worker = "query" /\ faults' = faults =>
          \A s \in Signals : logged'[s] # logged[s] /\ worker' = "idle" =>
            CASE logged'[s].line = "triggered" -> ~Alarmed(s)
              [] logged'[s].line = "ongoing" ->
                   Alarmed(s) /\ logged'[s].at - logged[s].at >= config.cooldown
              [] OTHER -> Alarmed(s)
  <1>1. AlertInv /\ [AlertNext]_everything => [Kept]_everything
    <2> SUFFICES ASSUME AlertInv, AlertNext, worker = "query", faults' = faults,
                        NEW s \in Signals, logged'[s] # logged[s], worker' = "idle"
                 PROVE  CASE logged'[s].line = "triggered" -> ~Alarmed(s)
                          [] logged'[s].line = "ongoing" ->
                               Alarmed(s) /\ logged'[s].at - logged[s].at >= config.cooldown
                          [] OTHER -> Alarmed(s)
      OBVIOUS
    <2>1. Evaluate
      BY DEF AlertNext, Time, Ages, Arrives, AlertStep, LoadConfig, StartCycle, QueryFails,
             Restart, alertVars, AlertInv, AlertTypeOK
    <2>2. PICK kind \in Kinds :
             /\ logged'[s] = [line |-> kind, at |-> cycleNow]
             /\ kind = "triggered" <=> states[s] = NULL
             /\ kind = "ongoing" => cycleNow - states[s] >= config.cooldown
      BY <2>1, EvaluateEffect
    <2>3. Alarmed(s) <=> states[s] # NULL
      BY DEF AlertInv, AlertTypeOK, Alarmed
    <2>4. states[s] # NULL => logged[s].at = states[s]
      BY DEF AlertInv, Remembers
    <2>5. logged'[s].line = kind /\ logged'[s].at = cycleNow
      BY <2>2
    <2> QED
      BY <2>2, <2>3, <2>4, <2>5
  <1> QED
    BY <1>1, InitAlertInv, NextAlertInv, PTL DEF AlertSpec, AlertLogWellFormed
===============================================================================
