------------------------------ MODULE AuditLog ------------------------------
(***************************************************************************)
(* What the Audit TA promises to the monitor that submits alerts to it:    *)
(* one append-only log, every entry of which is bound to the one model     *)
(* registered for the log, and receipts that stand for entries of the log. *)
(* AuditTA.tla is shown to implement this specification.                   *)
(***************************************************************************)
EXTENDS Naturals, Sequences

CONSTANTS
  Models,        \* digests of detector models
  Alerts,        \* digests of alerts
  NoModel        \* the all-zero model digest of a log with no model

VARIABLES
  log,           \* entries in the order in which they were accepted
  model,         \* the model the log is bound to
  acknowledged   \* <<position, entry>> pairs some client holds a receipt for

logVars == <<log, model, acknowledged>>

Entry == [alert : Alerts, model : Models]

Init ==
  /\ log = << >>
  /\ model = NoModel
  /\ acknowledged = {}

\* A model may be chosen, and chosen again, until the log has an entry.
Register(m) ==
  /\ log = << >> \/ model = m
  /\ model' = m
  /\ UNCHANGED <<log, acknowledged>>

Accept(a) ==
  /\ model \in Models
  /\ log' = Append(log, [alert |-> a, model |-> model])
  /\ UNCHANGED <<model, acknowledged>>

\* A receipt may be lost, so an entry need never be acknowledged.
Acknowledge(i) ==
  /\ acknowledged' = acknowledged \union {<<i, log[i]>>}
  /\ UNCHANGED <<log, model>>

Next ==
  \/ \E m \in Models : Register(m)
  \/ \E a \in Alerts : Accept(a)
  \/ \E i \in 1..Len(log) : Acknowledge(i)

Spec == Init /\ [][Next]_logVars

=============================================================================
