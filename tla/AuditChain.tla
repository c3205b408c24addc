----------------------------- MODULE AuditChain -----------------------------
(***************************************************************************)
(* The receipt chain of the Audit TA as functions of its state: what one   *)
(* command computes, without the storage it is loaded from and saved to.   *)
(***************************************************************************)
EXTENDS Naturals, Sequences

CONSTANTS
  Keys,          \* values TEE_GenerateRandom may give the HMAC key
  Models,        \* digests of detector models
  Alerts,        \* digests of alerts
  NoModel        \* the all-zero model digest

ASSUME NoModelAssumption == NoModel \notin Models

-----------------------------------------------------------------------------
(* Digests and the HMAC.  The MAC is ideal: it is injective in the key and *)
(* in the whole message, and never the all-zero head.  Since each message  *)
(* contains the previous head, a head stands for the list of everything    *)
(* that was chained to obtain it.                                          *)

Link == [key : Keys, sequence : Nat, alert : Alerts,
         model : Models \union {NoModel}]

Digest == Seq(Link)

ZeroHead == << >>

State == [key : Keys, sequence : Nat, model_registered : BOOLEAN,
          model_hash : Models \union {NoModel}, head : Digest]

Receipt == [sequence : Nat, previous_head : Digest, alert_hash : Alerts,
            model_hash : Models \union {NoModel}, head : Digest]

\* Slip: the model digest is left out of the message.
ComputeHmacWithoutModel(st, sequence, previous, alert, model) ==
  Append(previous, [key |-> st.key, sequence |-> sequence, alert |-> alert,
                    model |-> NoModel])

ComputeHmac(st, sequence, previous, alert, model) ==
  Append(previous, [key |-> st.key, sequence |-> sequence, alert |-> alert,
                    model |-> model])

-----------------------------------------------------------------------------
(* What the commands compute.                                              *)

FreshState(k) ==
  [key |-> k, sequence |-> 0, model_registered |-> FALSE,
   model_hash |-> NoModel, head |-> ZeroHead]

\* Slip: the model of a chain with receipts may be replaced.
NoModelConflict(st, m) == FALSE

ModelConflict(st, m) == st.sequence > 0 /\ st.model_hash # m

Registered(st, m) == [st EXCEPT !.model_hash = m, !.model_registered = TRUE]

\* Slip: the previous head is read after the new one was stored.
NextReceiptSwapped(st, a) ==
  LET head == ComputeHmac(st, st.sequence + 1, st.head, a, st.model_hash)
  IN  [sequence |-> st.sequence + 1, previous_head |-> head, alert_hash |-> a,
       model_hash |-> st.model_hash, head |-> head]

NextReceipt(st, a) ==
  [sequence      |-> st.sequence + 1,
   previous_head |-> st.head,
   alert_hash    |-> a,
   model_hash    |-> st.model_hash,
   head          |-> ComputeHmac(st, st.sequence + 1, st.head, a, st.model_hash)]

\* Slip: the sequence number is taken before it is incremented.
AfterReceiptSameSequence(st, r) == [st EXCEPT !.head = r.head]

\* Slip: the head is not carried over to the next receipt.
AfterReceiptSameHead(st, r) == [st EXCEPT !.sequence = r.sequence]

AfterReceipt(st, r) == [st EXCEPT !.sequence = r.sequence, !.head = r.head]

\* Slip: only the link to the previous head is recomputed.
GenuineByLink(st, r) ==
  Len(r.head) > 0 /\ r.head[Len(r.head)].sequence = r.sequence

Genuine(st, r) ==
  ComputeHmac(st, r.sequence, r.previous_head, r.alert_hash, r.model_hash) = r.head

=============================================================================
