----------------------------- MODULE AuditStore -----------------------------
(***************************************************************************)
(* The software audit store, cote3mon/audit_store.py: the chain of the     *)
(* Audit TA in a Python object, whose state is written to a file after     *)
(* each change.  The object changes first and the file later, in three     *)
(* steps: truncate a temporary file, write it, rename it over the old one. *)
(*                                                                         *)
(* The model hash None of a fresh store is the state whose model is not    *)
(* registered.                                                             *)
(***************************************************************************)
EXTENDS AuditRecords

CONSTANTS
  Processes,     \* processes that construct an AuditStore on the one path
  Writers,       \* those of them that register models and append alerts
  NoFile,        \* there is no file (and: no object)
  Incomplete,    \* a file that was truncated and not yet written
  MaxSequence    \* bound on appends: none starts at this sequence number

ASSUME WritersAssumption == Writers \subseteq Processes
ASSUME MaxSequenceAssumption == MaxSequence \in Nat
ASSUME NoFileAssumption == NoFile \notin State
ASSUME IncompleteAssumption == Incomplete \notin State \union {NoFile}

VARIABLES
  file,          \* content at self.path
  temporary,     \* content at its .tmp name
  pc,            \* where each process is
  state,         \* its self.state
  receipt,       \* the receipt its append is about to return
  receipts,      \* history: every receipt that append returned
  presented,     \* the records it last verified
  valid          \* and what verify_chain said of them

vars == <<file, temporary, pc, state, receipt, receipts, presented, valid>>

Init ==
  /\ file = NoFile
  /\ temporary = NoFile
  /\ pc = [p \in Processes |-> "closed"]
  /\ state = [p \in Processes |-> NoFile]
  /\ receipt = [p \in Processes |-> NoReceipt]
  /\ receipts = {}
  /\ presented = [p \in Processes |-> << >>]
  /\ valid = [p \in Processes |-> FALSE]

Goto(p, label) == pc' = [pc EXCEPT ![p] = label]

-----------------------------------------------------------------------------
(* The constructor *)

Load(p) ==
  /\ pc[p] = "closed"
  /\ file # NoFile
  /\ state' = [state EXCEPT ![p] = file]
  /\ Goto(p, "open")
  /\ UNCHANGED <<file, temporary, receipt, receipts, presented, valid>>

\* The first use of a path is by one process alone.
Create(p) ==
  /\ \A q \in Processes : pc[q] = "closed"
  /\ file = NoFile
  /\ \E k \in Keys : state' = [state EXCEPT ![p] = FreshState(k)]
  /\ Goto(p, "create")
  /\ UNCHANGED <<file, temporary, receipt, receipts, presented, valid>>

-----------------------------------------------------------------------------
(* Changes of the object.  A model that conflicts, and an alert before a   *)
(* model, raise ValueError and change nothing.                             *)

RegisterModel(p, m) ==
  /\ pc[p] = "open"
  /\ ~ModelConflict(state[p], m)
  /\ state' = [state EXCEPT ![p] = Registered(state[p], m)]
  /\ Goto(p, "truncate")
  /\ UNCHANGED <<file, temporary, receipt, receipts, presented, valid>>

\* Slip: the receipt is returned without saving the state.
AppendUnsaved(p, a) ==
  /\ pc[p] = "open"
  /\ state[p].model_registered
  /\ state[p].sequence < MaxSequence
  /\ receipt' = [receipt EXCEPT ![p] = NextReceipt(state[p], a)]
  /\ state' = [state EXCEPT ![p] = AfterReceipt(state[p], NextReceipt(state[p], a))]
  /\ Goto(p, "return")
  /\ UNCHANGED <<file, temporary, receipts, presented, valid>>

AppendAlert(p, a) ==
  /\ pc[p] = "open"
  /\ state[p].model_registered
  /\ state[p].sequence < MaxSequence
  /\ receipt' = [receipt EXCEPT ![p] = NextReceipt(state[p], a)]
  /\ state' = [state EXCEPT ![p] = AfterReceipt(state[p], NextReceipt(state[p], a))]
  /\ Goto(p, "truncate")
  /\ UNCHANGED <<file, temporary, receipts, presented, valid>>

-----------------------------------------------------------------------------
(* _persist *)

\* Slip: the temporary file is renamed before its content is there.
TruncateUnwritten(p) ==
  /\ pc[p] \in {"create", "truncate"}
  /\ temporary' = Incomplete
  /\ Goto(p, "replace")
  /\ UNCHANGED <<file, state, receipt, receipts, presented, valid>>

Truncate(p) ==
  /\ pc[p] \in {"create", "truncate"}
  /\ temporary' = Incomplete
  /\ Goto(p, IF pc[p] = "create" THEN "write first" ELSE "write")
  /\ UNCHANGED <<file, state, receipt, receipts, presented, valid>>

Write(p) ==
  /\ pc[p] \in {"write", "write first"}
  /\ temporary' = state[p]
  /\ Goto(p, IF pc[p] = "write" THEN "replace" ELSE "replace first")
  /\ UNCHANGED <<file, state, receipt, receipts, presented, valid>>

Replace(p) ==
  /\ pc[p] \in {"replace", "replace first"}
  /\ file' = temporary
  /\ temporary' = NoFile
  /\ Goto(p, IF pc[p] = "replace" THEN "return" ELSE "open")
  /\ UNCHANGED <<state, receipt, receipts, presented, valid>>

Return(p) ==
  /\ pc[p] = "return"
  /\ receipts' = IF receipt[p] = NoReceipt THEN receipts ELSE receipts \union {receipt[p]}
  /\ receipt' = [receipt EXCEPT ![p] = NoReceipt]
  /\ Goto(p, "open")
  /\ UNCHANGED <<file, temporary, state, presented, valid>>

Forget(p) ==
  /\ Goto(p, "closed")
  /\ state' = [state EXCEPT ![p] = NoFile]
  /\ receipt' = [receipt EXCEPT ![p] = NoReceipt]
  /\ presented' = [presented EXCEPT ![p] = << >>]
  /\ valid' = [valid EXCEPT ![p] = FALSE]

\* The process ends or is killed anywhere.  An OSError while saving is of
\* this kind: no caller catches it and goes on with the object.
Exit(p) ==
  /\ pc[p] # "closed"
  /\ Forget(p)
  /\ UNCHANGED <<file, temporary, receipts>>

-----------------------------------------------------------------------------
(* verify_chain compares with the state the object was loaded with and has *)
(* changed since; it reads no file.                                        *)

PreviousOf(records, i) == IF i = 1 THEN ZeroHead ELSE records[i - 1].receipt.head

\* Slip: the current head is not required.
VerifyChainPrefix(st, records) ==
  \A i \in DOMAIN records :
    LET r == records[i].receipt
    IN  /\ r # NoReceipt
        /\ r.sequence = i
        /\ r.previous_head = PreviousOf(records, i)
        /\ r.model_hash = st.model_hash
        /\ r.alert_hash = records[i].alert
        /\ Genuine(st, r)

VerifyChain(st, records) ==
  /\ \A i \in DOMAIN records :
       LET r == records[i].receipt
       IN  /\ r # NoReceipt
           /\ r.sequence = i
           /\ r.previous_head = PreviousOf(records, i)
           /\ r.model_hash = st.model_hash
           /\ r.alert_hash = records[i].alert
           /\ Genuine(st, r)
  /\ st.sequence = Len(records)
  /\ st.head = PreviousOf(records, Len(records) + 1)

\* The records are those of the entries stored now, or an edited list.
Verify(p) ==
  /\ pc[p] = "open"
  /\ file # NoFile
  /\ \E records \in EditedLists(file.key, RecordsOf(file.head)) :
       /\ presented' = [presented EXCEPT ![p] = records]
       /\ valid' = [valid EXCEPT ![p] = VerifyChain(state[p], records)]
  /\ Goto(p, "verified")
  /\ UNCHANGED <<file, temporary, state, receipt, receipts>>

Resume(p) ==
  /\ pc[p] = "verified"
  /\ Goto(p, "open")
  /\ presented' = [presented EXCEPT ![p] = << >>]
  /\ valid' = [valid EXCEPT ![p] = FALSE]
  /\ UNCHANGED <<file, temporary, state, receipt, receipts>>

-----------------------------------------------------------------------------

Step(p) ==
  \/ Load(p) \/ Create(p)
  \/ p \in Writers /\ \E m \in Models : RegisterModel(p, m)
  \/ p \in Writers /\ \E a \in Alerts : AppendAlert(p, a)
  \/ Truncate(p) \/ Write(p) \/ Replace(p) \/ Return(p)
  \/ Exit(p) \/ Verify(p) \/ Resume(p)

Next == \E p \in Processes : Step(p)

Spec == Init /\ [][Next]_vars

-----------------------------------------------------------------------------
(* Properties *)

\* The path never holds an incomplete file.
TypeOK ==
  /\ file \in State \union {NoFile}
  /\ temporary \in State \union {NoFile, Incomplete}
  /\ pc \in [Processes -> {"closed", "create", "write first", "replace first", "open",
                           "truncate", "write", "replace", "return", "verified"}]
  /\ state \in [Processes -> State \union {NoFile}]
  /\ receipt \in [Processes -> Receipt \union {NoReceipt}]
  /\ receipts \subseteq Receipt
  /\ presented \in [Processes -> Seq(Record)]
  /\ valid \in [Processes -> BOOLEAN]

\* A receipt that append returned is in the file, whatever was interrupted
\* since: the state is saved before the receipt is returned
\* (audit_store.py:65-84).
ReceiptsStored ==
  \A r \in receipts :
    /\ file # NoFile
    /\ r.sequence \in DOMAIN file.head
    /\ r = RecordOf(file.head, r.sequence).receipt

\* A list that was found valid holds the records of the entries of the file
\* from the first on: an object that was loaded earlier may accept less than
\* there is by now, and never anything else (audit_store.py:101-118).
ValidIsStored ==
  \A p \in Processes :
    pc[p] = "verified" /\ valid[p] => IsPrefix(presented[p], RecordsOf(file.head))

\* verify_chain is True of the complete list of the chain in the object and
\* of no other list (audit_store.py:86-118).
ValidExact ==
  \A p \in Processes :
    pc[p] = "verified" => (valid[p] <=> presented[p] = RecordsOf(state[p].head))

-----------------------------------------------------------------------------
(* The file seen as the log it implements. *)

LogNow ==
  IF file = NoFile THEN << >>
  ELSE [i \in 1..Len(file.head) |->
          [alert |-> file.head[i].alert, model |-> file.head[i].model]]

ModelNow == IF file = NoFile THEN NoModel ELSE file.model_hash

Acknowledged ==
  {<<r.sequence, [alert |-> r.alert_hash, model |-> r.model_hash]>> : r \in receipts}

Log == INSTANCE AuditLog
         WITH log <- LogNow, model <- ModelNow, acknowledged <- Acknowledged

\* The store implements the log of the Audit TA: what one call changes in
\* the file is one entry or one model (audit_store.py:1, "Reference
\* implementation of the audit TA's HMAC receipt-chain semantics").
ImplementsLog == Log!Spec

=============================================================================
