---------------------------- MODULE AuditRecords ----------------------------
(***************************************************************************)
(* Alerts with their receipts, as a monitor writes them one to a line, and *)
(* the lists of records a verifier may be given instead.                   *)
(***************************************************************************)
EXTENDS AuditChain, SequencesExt

CONSTANT
  NoReceipt      \* no receipt in hand; a record without one

ASSUME NoReceiptAssumption == NoReceipt \notin Receipt

Line == [alert : Alerts, receipt : Receipt]

\* What a verifier may be given: the receipt can be missing.
Record == [alert : Alerts, receipt : Receipt \union {NoReceipt}]

\* The record of the i-th entry of a chain, as the TA answered it.
RecordOf(head, i) ==
  [alert   |-> head[i].alert,
   receipt |-> [sequence      |-> i,
                previous_head |-> SubSeq(head, 1, i - 1),
                alert_hash    |-> head[i].alert,
                model_hash    |-> head[i].model,
                head          |-> SubSeq(head, 1, i)]]

RecordsOf(head) == [i \in 1..Len(head) |-> RecordOf(head, i)]

-----------------------------------------------------------------------------
(* Somebody edits the list: a record is dropped, repeated, exchanged with  *)
(* another, or changed.                                                    *)

\* A head computed without the key of the chain.
ForgedHead(key, r) ==
  {Append(r.previous_head, [key |-> k, sequence |-> r.sequence, alert |-> r.alert_hash,
                            model |-> r.model_hash]) : k \in Keys \ {key}}

EditedReceipt(key, r) ==
  {NoReceipt}
  \union {[r EXCEPT !.sequence = r.sequence + 1]}
  \union {[r EXCEPT !.alert_hash = a] : a \in Alerts}
  \union {[r EXCEPT !.model_hash = m] : m \in Models}
  \union {[r EXCEPT !.head = h] : h \in ForgedHead(key, r)}

\* The alert is another, the receipt is edited, or both.
Edited(key, line) ==
  [alert : Alerts, receipt : {line.receipt} \union EditedReceipt(key, line.receipt)]

EditedLists(key, lines) ==
  {lines}
  \union {RemoveAt(lines, i) : i \in DOMAIN lines}
  \union {InsertAt(lines, i, lines[i]) : i \in DOMAIN lines}
  \union {ReplaceAt(ReplaceAt(lines, i, lines[j]), j, lines[i]) :
            i \in DOMAIN lines, j \in DOMAIN lines}
  \union UNION {{ReplaceAt(lines, i, e) : e \in Edited(key, lines[i])} : i \in DOMAIN lines}

=============================================================================
