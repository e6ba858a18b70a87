---------------------------- MODULE MCAuditlogRule ----------------------------
(* Deployments of auditlog for TLC.                                        *)
EXTENDS AuditlogRule

CONSTANTS w1, w2

\* Two processes that are left in peace, or one to which anything happens.
Sound == {[up |-> {w1, w2}, mayClear |-> FALSE, mayFail |-> FALSE],
          [up |-> {w1}, mayClear |-> TRUE, mayFail |-> TRUE]}

\* Two processes, and forms that clear a flag of a subscribed rule.
Clearing == {[up |-> {w1, w2}, mayClear |-> TRUE, mayFail |-> FALSE]}
==============================================================================
