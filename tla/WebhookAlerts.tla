---------------------------- MODULE WebhookAlerts ----------------------------
(***************************************************************************)
(* The firing alerts of one device that Alertmanager or the generic        *)
(* webhook reported (webhook_device_alerts), by their source and key.      *)
(* Which requests are refused or skipped, and how an alert finds its       *)
(* device by name or address, is left out.                                 *)
(***************************************************************************)
EXTENDS Integers, FiniteSetsExt

CONSTANTS
    Keys,   \* alerts a tool may report for the device
    Ttl     \* WEBHOOK_ALERT_TTL_HOURS

ASSUME WebhookAssumption == Ttl \in Nat \ {0}

VARIABLES
    clock,  \* now
    hook    \* [Keys -> {} or {[started, updated]}] the stored alerts

cutoff == clock - Ttl

(* A slip: expired alerts are left to be refreshed.                        *)
UnexpiredAny(rows) == rows

(* DELETE ... WHERE updated_at <= cutoff                                   *)
Unexpired(rows) == {r \in rows : r.updated > cutoff}

(* ON CONFLICT: a stored start stays.                                      *)
Refreshed(rows, started) ==
    IF rows = {} THEN {[started |-> started, updated |-> clock]}
    ELSE {[r EXCEPT !.updated = clock] : r \in rows}

(* store: the expired alerts go first; then each alert reported down is
   stored or refreshed, each one reported up removed. *)
store(down, up, started) ==
    hook' = [k \in Keys |-> IF k \in up THEN {}
                            ELSE IF k \in down THEN Refreshed(Unexpired(hook[k]), started)
                            ELSE Unexpired(hook[k])]

(* read_index: the current alerts, of which the device gets the earliest.  *)
Current == UNION {{r \in hook[k] : r.updated > cutoff} : k \in Keys}

EarliestStart == Min({r.started : r \in Current})
=============================================================================
