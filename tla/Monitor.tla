------------------------------ MODULE Monitor -------------------------------
(***************************************************************************)
(* The offline monitor, cote3mon/monitor.py, with the OP-TEE back end: a   *)
(* batch submits each alert to the Audit TA and writes it, with the        *)
(* receipt, to the alerts file; verify_chain compares a list of records    *)
(* with the chain while a batch may be running.                            *)
(*                                                                         *)
(* The monitor is the only process that appends, so a command of the TA is *)
(* one step here: AuditTA.tla shows that this use implements an append-    *)
(* only log.                                                               *)
(***************************************************************************)
EXTENDS AuditRecords

CONSTANTS
  MaxSequence    \* bound on appends: none starts at this sequence number

ASSUME MaxSequenceAssumption == MaxSequence \in Nat

VARIABLES
  audit,         \* the state of the Audit TA
  batch,         \* where monitor_batch is, or how it ended
  detector,      \* digest of the model file of the batch
  alert,         \* the alert being submitted
  receipt,       \* its receipt
  alerts,        \* complete lines of the alerts file
  buffer,        \* records written to the handle and not yet to the file
  first,         \* history: sequence number when the file was opened
  chain,         \* where verify_chain is, or how it ended
  presented,     \* the records it was given
  checked        \* how many of them it has found good

batchVars == <<batch, detector, alert, receipt, alerts, buffer, first>>
chainVars == <<chain, presented, checked>>
vars == <<audit, batchVars, chainVars>>

Ended == {"none", "refused", "failed", "killed", "finished"}

Init ==
  /\ \E k \in Keys : audit = FreshState(k)
  /\ batch = "none"
  /\ detector = NoModel
  /\ alert \in Alerts
  /\ receipt = NoReceipt
  /\ alerts = << >>
  /\ buffer = << >>
  /\ first = 0
  /\ chain = "idle"
  /\ presented = << >>
  /\ checked = 0

-----------------------------------------------------------------------------
(* monitor_batch.  It stops at the first exception: of the model file, of  *)
(* audit-client, of the telemetry, of the detector.                        *)

StartBatch(m) ==
  /\ batch \in Ended
  /\ batch' = "register"
  /\ detector' = m
  /\ UNCHANGED <<audit, alert, receipt, alerts, buffer, first, chainVars>>

\* What the TA may have done of a command that nobody saw the answer of.
Unanswered ==
  {audit}
  \union (IF batch = "append" THEN {AfterReceipt(audit, NextReceipt(audit, alert))} ELSE {})
  \union (IF batch = "register" /\ ~ModelConflict(audit, detector)
          THEN {Registered(audit, detector)} ELSE {})

RegisterModel ==
  /\ batch = "register"
  /\ ~ModelConflict(audit, detector)
  /\ audit' = Registered(audit, detector)
  /\ batch' = "open"
  /\ UNCHANGED <<detector, alert, receipt, alerts, buffer, first, chainVars>>

\* The TA refuses the model, or audit-client fails.
RegisterFails ==
  /\ batch = "register"
  /\ batch' = "refused"
  /\ audit' \in Unanswered
  /\ UNCHANGED <<detector, alert, receipt, alerts, buffer, first, chainVars>>

UnreadableTelemetry ==
  /\ batch = "open"
  /\ batch' = "refused"
  /\ UNCHANGED <<audit, detector, alert, receipt, alerts, buffer, first, chainVars>>

\* Opening for writing truncates the file of the batch before.
OpenAlerts ==
  /\ batch = "open"
  /\ batch' = "score"
  /\ alerts' = << >>
  /\ buffer' = << >>
  /\ first' = audit.sequence
  /\ UNCHANGED <<audit, detector, alert, receipt, chainVars>>

\* A window scores above the threshold.
RaiseAlert(a) ==
  /\ batch = "score"
  /\ audit.sequence < MaxSequence
  /\ batch' = "append"
  /\ alert' = a
  /\ UNCHANGED <<audit, detector, receipt, alerts, buffer, first, chainVars>>

AppendAlert ==
  /\ batch = "append"
  /\ receipt' = NextReceipt(audit, alert)
  /\ audit' = AfterReceipt(audit, NextReceipt(audit, alert))
  /\ batch' = "write"
  /\ UNCHANGED <<detector, alert, alerts, buffer, first, chainVars>>

\* Slip: the file is left as the process happened to have written it out.
CloseUnflushed ==
  /\ alerts' = alerts
  /\ buffer' = << >>

\* Leaving the with statement writes out the buffer and closes the file.
Close ==
  /\ alerts' = alerts \o buffer
  /\ buffer' = << >>

\* Slip: an alert without an answer is skipped and the batch goes on.
SkipAlert ==
  /\ batch' = "score"
  /\ UNCHANGED <<alerts, buffer>>

GiveUp ==
  /\ batch' = "failed"
  /\ Close

\* audit-client fails, before or after the TA has appended the alert.
AppendFails ==
  /\ batch = "append"
  /\ audit' \in Unanswered
  /\ GiveUp
  /\ UNCHANGED <<detector, alert, receipt, first, chainVars>>

\* Slip: the receipt is written without its alert.
LineInHandBare == receipt

LineInHand == [alert |-> alert, receipt |-> receipt]

WriteRecord ==
  /\ batch = "write"
  /\ buffer' = Append(buffer, LineInHand)
  /\ receipt' = NoReceipt
  /\ batch' = "score"
  /\ UNCHANGED <<audit, detector, alert, alerts, first, chainVars>>

\* The buffer is full: lines reach the file.  An incomplete last line is
\* not a record and does not count.
Flush ==
  /\ buffer # << >>
  /\ alerts' = Append(alerts, Head(buffer))
  /\ buffer' = Tail(buffer)
  /\ UNCHANGED <<audit, batch, detector, alert, receipt, first, chainVars>>

\* The detector rejects a row.
DetectorFails ==
  /\ batch = "score"
  /\ GiveUp
  /\ UNCHANGED <<audit, detector, alert, receipt, first, chainVars>>

Finish ==
  /\ batch = "score"
  /\ batch' = "finished"
  /\ Close
  /\ UNCHANGED <<audit, detector, alert, receipt, first, chainVars>>

\* The process is killed or the file cannot be written out.  A client that
\* is left running has ended when the next batch starts.
Kill ==
  /\ batch \notin Ended
  /\ batch' = "killed"
  /\ audit' \in Unanswered
  /\ receipt' = NoReceipt
  /\ buffer' = << >>
  /\ UNCHANGED <<detector, alert, alerts, first, chainVars>>

-----------------------------------------------------------------------------
(* verify_chain.  It is given the lines of the file as they are, or after  *)
(* somebody edited them.                                                   *)

StartVerify ==
  /\ chain # "records"
  /\ presented' \in EditedLists(audit.key, alerts)
  /\ checked' = 0
  /\ chain' = "records"
  /\ UNCHANGED <<audit, batchVars>>

PreviousHead == IF checked = 0 THEN ZeroHead ELSE presented[checked].receipt.head

\* Slip: the hash of the alert is taken from the receipt.
MatchesUnhashed(record) ==
  /\ record.receipt # NoReceipt
  /\ record.receipt.sequence = checked + 1
  /\ record.receipt.previous_head = PreviousHead
  /\ record.receipt.model_hash = presented[1].receipt.model_hash

Matches(record) ==
  /\ record.receipt # NoReceipt
  /\ record.receipt.sequence = checked + 1
  /\ record.receipt.previous_head = PreviousHead
  /\ record.receipt.alert_hash = record.alert
  /\ record.receipt.model_hash = presented[1].receipt.model_hash

CheckRecord ==
  /\ chain = "records"
  /\ checked < Len(presented)
  /\ LET record == presented[checked + 1]
     IN  IF Matches(record) /\ Genuine(audit, record.receipt)
         THEN checked' = checked + 1 /\ UNCHANGED chain
         ELSE chain' = "rejected" /\ UNCHANGED checked
  /\ UNCHANGED <<audit, batchVars, presented>>

IsCurrent ==
  /\ audit.sequence = checked
  /\ audit.head = PreviousHead
  /\ checked = 0 \/ audit.model_hash = presented[1].receipt.model_hash

CheckHead ==
  /\ chain = "records"
  /\ checked = Len(presented)
  /\ chain' = IF IsCurrent THEN "accepted" ELSE "rejected"
  /\ UNCHANGED <<audit, batchVars, presented, checked>>

\* audit-client fails: verify_chain returns False for that as well.
VerifyFails ==
  /\ chain = "records"
  /\ chain' = "failed"
  /\ UNCHANGED <<audit, batchVars, presented, checked>>

-----------------------------------------------------------------------------

MonitorStep ==
  \/ \E m \in Models : StartBatch(m)
  \/ RegisterModel \/ RegisterFails \/ UnreadableTelemetry \/ OpenAlerts
  \/ \E a \in Alerts : RaiseAlert(a)
  \/ AppendAlert \/ AppendFails \/ WriteRecord \/ Flush
  \/ DetectorFails \/ Finish \/ Kill

VerifierStep == StartVerify \/ CheckRecord \/ CheckHead \/ VerifyFails

Next == MonitorStep \/ VerifierStep

Spec == Init /\ [][Next]_vars

-----------------------------------------------------------------------------
(* Properties *)

TypeOK ==
  /\ audit \in State
  /\ batch \in Ended \union {"register", "open", "score", "append", "write"}
  /\ detector \in Models \union {NoModel}
  /\ alert \in Alerts
  /\ receipt \in IF batch = "write" THEN Receipt ELSE {NoReceipt}
  /\ alerts \in Seq(Line)
  /\ buffer \in Seq(Line)
  /\ first \in Nat
  /\ chain \in {"idle", "records", "accepted", "rejected", "failed"}
  /\ presented \in Seq(Record)
  /\ checked \in 0..Len(presented)

\* The records are those of consecutive entries, the first of them after from.
FollowsChain(head, records, from) ==
  /\ from + Len(records) <= Len(head)
  /\ \A i \in 1..Len(records) : records[i] = RecordOf(head, from + i)

\* Whatever the moment at which the batch fails or is killed, the alerts
\* file holds a run of consecutive entries of the chain with their own
\* receipts, from the entry that was next when the file was opened
\* (monitor.py:153-171).
FileFollowsChain == FollowsChain(audit.head, alerts, first)

\* A batch that returns has an alert and a receipt in its file for every
\* entry it added to the chain; one that gave up lacks at most the entry
\* whose receipt it never saw (monitor.py:168-172).
NothingMissing ==
  /\ batch = "finished" => first + Len(alerts) = audit.sequence
  /\ batch = "failed" => audit.sequence <= first + Len(alerts) + 1

\* verify_chain says True only of the complete list of records of the chain
\* at the moment it reads the head, and False of that list only when
\* audit-client failed, however the chain grows while receipts are verified
\* one by one (monitor.py:76-123).
Verdict ==
  /\ chain = "records" /\ chain' = "accepted" => presented = RecordsOf(audit.head)
  /\ chain = "records" /\ chain' = "rejected" => presented # RecordsOf(audit.head)

VerdictExact == [][Verdict]_vars

=============================================================================
