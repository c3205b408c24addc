------------------------------ MODULE AuditTA -------------------------------
(***************************************************************************)
(* The Audit Trusted Application, optee/audit_ta/ta/entry.c: an HMAC chain *)
(* of alert receipts whose whole state is one persistent object.           *)
(*                                                                         *)
(* TA_FLAGS does not ask for a single instance, so each session has a TA   *)
(* instance of its own and the commands of two sessions interleave between *)
(* their storage calls: a command opens the object (Load), writes it if it *)
(* was absent (Create), computes on its own copy of the state, and writes  *)
(* the copy back (Save).  The writes are atomic in the secure storage; the *)
(* command as a whole is not.                                              *)
(***************************************************************************)
EXTENDS AuditChain

CONSTANTS
  Sessions,      \* client processes, one session and one command at a time
  Writers,       \* the sessions that register models and append alerts
  NoObject,      \* no persistent object (and: nothing loaded yet)
  NoReceipt,     \* no receipt computed yet
  MaxSequence,   \* bound on appends: none starts at this sequence number
  FirstUseRace   \* whether sessions may overlap before the object exists

ASSUME WritersAssumption == Writers \subseteq Sessions
ASSUME MaxSequenceAssumption == MaxSequence \in Nat
ASSUME FirstUseRaceAssumption == FirstUseRace \in BOOLEAN
ASSUME NoObjectAssumption == NoObject \notin State

VARIABLES
  object,        \* the persistent object "cote3mon-audit-state-v1"
  pc,            \* where the command of each session is
  cmd,           \* the command of each session
  state,         \* its local struct audit_state
  receipt,       \* its local struct cote3_audit_receipt
  result,        \* the TEE_Result it is about to return
  receipts       \* history: every receipt a client process has received

vars == <<object, pc, cmd, state, receipt, result, receipts>>

-----------------------------------------------------------------------------
(* Commands.  A client may present any receipt that is assembled from the  *)
(* heads it was given and fields it makes up.                              *)

Command ==
  [op : {"register"}, model : Models] \union
  [op : {"append"}, alert : Alerts] \union
  [op : {"get_head"}] \union
  [op : {"verify"}, receipt : Receipt] \union
  [op : {"none"}]

Idle == [op |-> "none"]

Results == {"SUCCESS", "BAD_PARAMETERS", "ACCESS_CONFLICT", "BAD_STATE",
            "MAC_INVALID", "FAILED"}

Presentable ==
  receipts
  \union {[r EXCEPT !.sequence = r.sequence + 1] : r \in receipts}
  \union {[r EXCEPT !.alert_hash = a] : r \in receipts, a \in Alerts}
  \union {[r EXCEPT !.model_hash = m] : r \in receipts, m \in Models}
  \union {[r EXCEPT !.previous_head = q.head] : r \in receipts, q \in receipts}
  \union {[r EXCEPT !.head = q.head] : r \in receipts, q \in receipts}

WriterCommands ==
  [op : {"register"}, model : Models] \union [op : {"append"}, alert : Alerts]

ReaderCommands ==
  [op : {"get_head"}] \union [op : {"verify"}, receipt : Presentable]

-----------------------------------------------------------------------------

Stored == IF object = NoObject THEN 0 ELSE object.sequence

Init ==
  /\ object = NoObject
  /\ pc = [s \in Sessions |-> "idle"]
  /\ cmd = [s \in Sessions |-> Idle]
  /\ state = [s \in Sessions |-> NoObject]
  /\ receipt = [s \in Sessions |-> NoReceipt]
  /\ result = [s \in Sessions |-> "SUCCESS"]
  /\ receipts = {}

MayOpen(s) ==
  /\ pc[s] = "idle"
  /\ object # NoObject \/ FirstUseRace \/ \A t \in Sessions : pc[t] = "idle"

\* A client opens a session and invokes a command with the parameter types
\* and buffer sizes that audit-client always gives.
Invoke(s) ==
  /\ MayOpen(s)
  /\ \/ /\ s \in Writers
        /\ Stored < MaxSequence
        /\ \E c \in WriterCommands : cmd' = [cmd EXCEPT ![s] = c]
     \/ \E c \in ReaderCommands : cmd' = [cmd EXCEPT ![s] = c]
  /\ pc' = [pc EXCEPT ![s] = "load"]
  /\ UNCHANGED <<object, state, receipt, result, receipts>>

\* An unknown command, wrong parameter types or a buffer of the wrong size:
\* answered before the object is opened.
InvokeMalformed(s) ==
  /\ MayOpen(s)
  /\ pc' = [pc EXCEPT ![s] = "reply"]
  /\ result' = [result EXCEPT ![s] = "BAD_PARAMETERS"]
  /\ UNCHANGED <<object, cmd, state, receipt, receipts>>

\* load_state: the object is opened and read, or found absent.
Load(s) ==
  /\ pc[s] = "load"
  /\ \/ /\ object # NoObject
        /\ state' = [state EXCEPT ![s] = object]
        /\ pc' = [pc EXCEPT ![s] = "act"]
     \/ /\ object = NoObject
        /\ \E k \in Keys : state' = [state EXCEPT ![s] = FreshState(k)]
        /\ pc' = [pc EXCEPT ![s] = "create"]
  /\ UNCHANGED <<object, cmd, receipt, result, receipts>>

\* load_state, absent object: save_state overwrites whatever is there by now.
Create(s) ==
  /\ pc[s] = "create"
  /\ object' = state[s]
  /\ pc' = [pc EXCEPT ![s] = "act"]
  /\ UNCHANGED <<cmd, state, receipt, result, receipts>>

RegisterModel(s) ==
  /\ pc[s] = "act"
  /\ cmd[s].op = "register"
  /\ IF ModelConflict(state[s], cmd[s].model)
     THEN /\ result' = [result EXCEPT ![s] = "ACCESS_CONFLICT"]
          /\ pc' = [pc EXCEPT ![s] = "reply"]
          /\ UNCHANGED state
     ELSE /\ state' = [state EXCEPT ![s] = Registered(state[s], cmd[s].model)]
          /\ pc' = [pc EXCEPT ![s] = "save"]
          /\ UNCHANGED result
  /\ UNCHANGED <<object, cmd, receipt, receipts>>

AppendAlert(s) ==
  /\ pc[s] = "act"
  /\ cmd[s].op = "append"
  /\ IF ~state[s].model_registered
     THEN /\ result' = [result EXCEPT ![s] = "BAD_STATE"]
          /\ pc' = [pc EXCEPT ![s] = "reply"]
          /\ UNCHANGED <<state, receipt>>
     ELSE LET r == NextReceipt(state[s], cmd[s].alert)
          IN  /\ receipt' = [receipt EXCEPT ![s] = r]
              /\ state' = [state EXCEPT ![s] = AfterReceipt(state[s], r)]
              /\ pc' = [pc EXCEPT ![s] = "save"]
              /\ UNCHANGED result
  /\ UNCHANGED <<object, cmd, receipts>>

GetHead(s) ==
  /\ pc[s] = "act"
  /\ cmd[s].op = "get_head"
  /\ result' = [result EXCEPT ![s] = "SUCCESS"]
  /\ pc' = [pc EXCEPT ![s] = "reply"]
  /\ UNCHANGED <<object, cmd, state, receipt, receipts>>

VerifyReceipt(s) ==
  /\ pc[s] = "act"
  /\ cmd[s].op = "verify"
  /\ result' = [result EXCEPT ![s] =
                  IF Genuine(state[s], cmd[s].receipt) THEN "SUCCESS" ELSE "MAC_INVALID"]
  /\ pc' = [pc EXCEPT ![s] = "reply"]
  /\ UNCHANGED <<object, cmd, state, receipt, receipts>>

\* save_state at the end of register_model and append_alert.
Save(s) ==
  /\ pc[s] = "save"
  /\ object' = state[s]
  /\ result' = [result EXCEPT ![s] = "SUCCESS"]
  /\ pc' = [pc EXCEPT ![s] = "reply"]
  /\ UNCHANGED <<cmd, state, receipt, receipts>>

\* The storage or the MAC operation fails; the object is left as it was.
Fail(s) ==
  /\ \/ pc[s] \in {"load", "create", "save"}
     \/ pc[s] = "act" /\ cmd[s].op \in {"append", "verify"}
  /\ result' = [result EXCEPT ![s] = "FAILED"]
  /\ pc' = [pc EXCEPT ![s] = "reply"]
  /\ UNCHANGED <<object, cmd, state, receipt, receipts>>

Forget(s) ==
  /\ pc' = [pc EXCEPT ![s] = "idle"]
  /\ cmd' = [cmd EXCEPT ![s] = Idle]
  /\ state' = [state EXCEPT ![s] = NoObject]
  /\ receipt' = [receipt EXCEPT ![s] = NoReceipt]
  /\ result' = [result EXCEPT ![s] = "SUCCESS"]

\* Slip: the client prints the receipt without a look at the result.
DeliveredUnchecked(s) == IF cmd[s].op = "append" THEN {receipt[s]} ELSE {}

\* Slip: the client takes the receipt of a command that failed to save it.
DeliveredDespiteFailure(s) == IF receipt[s] = NoReceipt THEN {} ELSE {receipt[s]}

Delivered(s) ==
  IF cmd[s].op = "append" /\ result[s] = "SUCCESS" THEN {receipt[s]} ELSE {}

\* The command returns and audit-client prints the receipt, on success only.
Reply(s) ==
  /\ pc[s] = "reply"
  /\ receipts' = receipts \union Delivered(s)
  /\ Forget(s)
  /\ UNCHANGED object

\* The client process is killed while its command runs: the command ends,
\* its receipt reaches nobody.
LoseReply(s) ==
  /\ pc[s] = "reply"
  /\ Forget(s)
  /\ UNCHANGED <<object, receipts>>

\* The machine stops and restarts: every command is lost where it was.
Crash ==
  /\ \E s \in Sessions : pc[s] # "idle"
  /\ pc' = [s \in Sessions |-> "idle"]
  /\ cmd' = [s \in Sessions |-> Idle]
  /\ state' = [s \in Sessions |-> NoObject]
  /\ receipt' = [s \in Sessions |-> NoReceipt]
  /\ result' = [s \in Sessions |-> "SUCCESS"]
  /\ UNCHANGED <<object, receipts>>

Step(s) ==
  \/ Invoke(s) \/ InvokeMalformed(s)
  \/ Load(s) \/ Create(s)
  \/ RegisterModel(s) \/ AppendAlert(s) \/ GetHead(s) \/ VerifyReceipt(s)
  \/ Save(s) \/ Fail(s)
  \/ Reply(s) \/ LoseReply(s)

Next == (\E s \in Sessions : Step(s)) \/ Crash

Spec == Init /\ [][Next]_vars

-----------------------------------------------------------------------------
(* Properties *)

\* The way the TA is used when its receipts form one chain: one writer, and
\* no second session before the object exists.
OneWriter == \A s, t \in Writers : s = t

SafeUse == OneWriter /\ ~ FirstUseRace

TypeOK ==
  /\ object \in State \union {NoObject}
  /\ pc \in [Sessions -> {"idle", "load", "create", "act", "save", "reply"}]
  /\ cmd \in [Sessions -> Command]
  /\ state \in [Sessions -> State \union {NoObject}]
  /\ receipt \in [Sessions -> Receipt \union {NoReceipt}]
  /\ result \in [Sessions -> Results]
  /\ receipts \subseteq Receipt

\* A receipt in somebody's hands is a link of the chain that is stored now:
\* its number is its place, it names the head before it, and the stored head
\* was chained from its own (entry.c append_alert: the receipt is copied out
\* only after the state that contains it was saved).
OnChain(r, st) ==
  /\ r.sequence \in 1..Len(st.head)
  /\ r.head = SubSeq(st.head, 1, r.sequence)
  /\ r.previous_head = SubSeq(st.head, 1, r.sequence - 1)

ReceiptsOnChain == \A r \in receipts : object # NoObject /\ OnChain(r, object)

\* No two receipts were given out for the same place of the chain
\* (entry.c append_alert: load, increment and save are separate calls).
NoFork == \A r, q \in receipts : r.sequence = q.sequence => r = q

\* Every receipt ever given out verifies with the key that is stored now
\* (entry.c load_state draws a new key whenever it finds no object).
ReceiptsStayGenuine ==
  \A r \in receipts : object # NoObject /\ Genuine(object, r)

\* VERIFY accepts what a client presents exactly when it is, field by field,
\* a receipt the TA gave out (entry.c verify_receipt).
VerifyExact ==
  \A s \in Sessions :
    pc[s] = "reply" /\ cmd[s].op = "verify" =>
      /\ result[s] = "SUCCESS" => cmd[s].receipt \in receipts
      /\ result[s] = "MAC_INVALID" => cmd[s].receipt \notin receipts

-----------------------------------------------------------------------------
(* The chain seen as the log it implements. *)

EntryOf(link) == [alert |-> link.alert, model |-> link.model]

LogOf(head) == [i \in 1..Len(head) |-> EntryOf(head[i])]

LogNow == IF object = NoObject THEN << >> ELSE LogOf(object.head)

ModelNow == IF object = NoObject THEN NoModel ELSE object.model_hash

AcknowledgementOf(r) == <<r.sequence, [alert |-> r.alert_hash, model |-> r.model_hash]>>

Acknowledged == {AcknowledgementOf(r) : r \in receipts}

Log == INSTANCE AuditLog
         WITH log <- LogNow, model <- ModelNow, acknowledged <- Acknowledged

\* The TA implements the append-only log: entries are never changed, dropped
\* or moved, a model is never replaced once there is an entry, and a receipt
\* is an acknowledgement of the entry at its place (entry.c as a whole).
ImplementsLog == Log!Spec

=============================================================================
