--------------------------- MODULE ObservationPolicy ---------------------------
(***************************************************************************)
(* How an observer turns configured thresholds and confirmation depths     *)
(* into the ones it works with, and amounts into required amounts.         *)
(* Definitions named ...Variant... are the definition that follows them    *)
(* with one plausible mistake.                                             *)
(***************************************************************************)
EXTENDS Integers

thresholdDenominatorBPS == 10000
defaultBPS == 10000
defaultMinConf == 1

OrDefault(raw, default) == IF raw <= 0 THEN default ELSE raw
AtMost(n, limit) == IF n > limit THEN limit ELSE n

newThresholdVariantUnordered(rawDetected, rawConfirmed) ==
    [detectedBPS  |-> OrDefault(rawDetected, defaultBPS),
     confirmedBPS |-> AtMost(OrDefault(rawConfirmed, defaultBPS), thresholdDenominatorBPS)]

newThresholdPolicy(rawDetected, rawConfirmed) ==
    LET confirmed == AtMost(OrDefault(rawConfirmed, defaultBPS), thresholdDenominatorBPS)
    IN [detectedBPS  |-> AtMost(OrDefault(rawDetected, defaultBPS), confirmed),
        confirmedBPS |-> confirmed]

newConfirmationVariantUnordered(rawBusiness, rawFinality) ==
    [businessMin |-> OrDefault(rawBusiness, defaultMinConf),
     finalityMin |-> OrDefault(rawFinality, defaultMinConf)]

(* The same for both rails.                                                *)
newConfirmationPolicy(rawBusiness, rawFinality) ==
    LET business == OrDefault(rawBusiness, defaultMinConf)
        finality == OrDefault(rawFinality, business)
    IN [businessMin |-> business,
        finalityMin |-> IF finality < business THEN business ELSE finality]

(* bps / 10000 of the expected amount, rounded up.                         *)
thresholdBPSAmount(expected, bps) ==
    LET product == expected * bps
    IN product \div thresholdDenominatorBPS
         + (IF product % thresholdDenominatorBPS > 0 THEN 1 ELSE 0)
================================================================================
