--------------------------- MODULE MonitorProofs ----------------------------
(***************************************************************************)
(* Theorems about the offline monitor and verify_chain.                    *)
(*                                                                         *)
(* IInv has four parts: types; the chain (ChainInv), whose i-th link has   *)
(* number i and the one key and model; the file (FileInv), whose lines and *)
(* buffered records are the entries of the chain since it was opened,      *)
(* short of the one in hand; and the verifier (VerifyInv): the records it  *)
(* found good spell out the head of the last of them.                      *)
(***************************************************************************)
EXTENDS Monitor, SequenceTheorems, TLAPS

ChainInv ==
  /\ Len(audit.head) = audit.sequence
  /\ \A i \in 1..audit.sequence :
       audit.head[i] = [key |-> audit.key, sequence |-> i,
                        alert |-> audit.head[i].alert, model |-> audit.model_hash]

Content == alerts \o buffer

FileInv ==
  /\ FollowsChain(audit.head, Content, first)
  /\ batch \notin {"score", "append", "write"} => buffer = << >>
  /\ batch \in {"score", "append", "finished"} =>
       first + Len(Content) = audit.sequence
  /\ batch = "write" =>
       /\ first + Len(Content) + 1 = audit.sequence
       /\ LineInHand = RecordOf(audit.head, audit.sequence)
  /\ batch = "failed" => audit.sequence <= first + Len(Content) + 1

Spelled(i) ==
  [j \in 1..i |-> [key |-> audit.key, sequence |-> j, alert |-> presented[j].alert,
                   model |-> presented[1].receipt.model_hash]]

Good(i) ==
  presented[i].receipt =
    [sequence |-> i, previous_head |-> Spelled(i - 1),
     alert_hash |-> presented[i].alert,
     model_hash |-> presented[1].receipt.model_hash, head |-> Spelled(i)]

VerifyInv == chain = "records" => \A i \in 1..checked : Good(i)

IInv == TypeOK /\ ChainInv /\ FileInv /\ VerifyInv

-----------------------------------------------------------------------------
(* Receipts and records *)

\* An append yields a receipt and the state that goes with it.
LEMMA ReceiptTypes ==
  ASSUME NEW st \in State, NEW a \in Alerts
  PROVE  /\ NextReceipt(st, a) \in Receipt
         /\ AfterReceipt(st, NextReceipt(st, a)) \in State
  <1>1. ComputeHmac(st, st.sequence + 1, st.head, a, st.model_hash) \in Digest
    BY DEF ComputeHmac, State, Digest, Link
  <1>2. NextReceipt(st, a) \in Receipt
    BY <1>1 DEF NextReceipt, Receipt, State
  <1>3. QED BY <1>2 DEF AfterReceipt, Receipt, State

\* A registered state is a state.
LEMMA RegisteredType ==
  ASSUME NEW st \in State, NEW m \in Models \union {NoModel}
  PROVE  Registered(st, m) \in State
  BY DEF Registered, State

\* Editing one line yields a record.
LEMMA EditedType ==
  ASSUME NEW line \in Line, NEW key
  PROVE  Edited(key, line) \subseteq Record
  <1> DEFINE r == line.receipt
  <1>1. r \in Receipt
    BY DEF Line
  <1>2. ForgedHead(key, r) \subseteq Digest
    <2>1. SUFFICES ASSUME NEW k \in Keys
                   PROVE  Append(r.previous_head,
                                 [key |-> k, sequence |-> r.sequence,
                                  alert |-> r.alert_hash, model |-> r.model_hash]) \in Digest
      BY DEF ForgedHead
    <2>2. [key |-> k, sequence |-> r.sequence, alert |-> r.alert_hash,
           model |-> r.model_hash] \in Link
      BY <1>1 DEF Receipt, Link
    <2>3. QED BY <1>1, <2>2 DEF Digest, Receipt
  <1>3. EditedReceipt(key, r) \subseteq Receipt \union {NoReceipt}
    BY <1>1, <1>2 DEF EditedReceipt, Receipt
  <1>4. QED BY <1>1, <1>3 DEF Edited, Record

\* Editing a list of lines yields a list of records.
LEMMA EditedListsType ==
  ASSUME NEW lines \in Seq(Line), NEW key
  PROVE  EditedLists(key, lines) \subseteq Seq(Record)
  <1>1. Line \subseteq Record
    BY DEF Line, Record
  <1>2. lines \in Seq(Record)
    BY <1>1
  <1>3. ASSUME NEW i \in DOMAIN lines
        PROVE  RemoveAt(lines, i) \in Seq(Record)
    BY <1>2 DEF RemoveAt
  <1>4. ASSUME NEW i \in DOMAIN lines
        PROVE  InsertAt(lines, i, lines[i]) \in Seq(Record)
    BY <1>2 DEF InsertAt
  <1>5. ASSUME NEW s \in Seq(Record), NEW i \in DOMAIN s, NEW e \in Record
        PROVE  /\ ReplaceAt(s, i, e) \in Seq(Record)
               /\ DOMAIN ReplaceAt(s, i, e) = DOMAIN s
    <2>1. i \in 1..Len(s)
      OBVIOUS
    <2>2. [s EXCEPT ![i] = e] \in Seq(Record)
      BY <2>1, ExceptSeq
    <2>3. QED BY <2>2 DEF ReplaceAt
  <1>6. ASSUME NEW i \in DOMAIN lines, NEW j \in DOMAIN lines
        PROVE  ReplaceAt(ReplaceAt(lines, i, lines[j]), j, lines[i]) \in Seq(Record)
    <2>1. lines[i] \in Record /\ lines[j] \in Record
      BY <1>2
    <2>2. QED BY <2>1, <1>2, <1>5
  <1>7. ASSUME NEW i \in DOMAIN lines, NEW e \in Edited(key, lines[i])
        PROVE  ReplaceAt(lines, i, e) \in Seq(Record)
    <2>1. lines[i] \in Line
      OBVIOUS
    <2>2. e \in Record
      BY <2>1, EditedType
    <2>3. QED BY <2>2, <1>2, <1>5
  <1>8. QED BY <1>2, <1>3, <1>4, <1>6, <1>7 DEF EditedLists

\* The receipt in hand and its alert are the record of the new entry.
LEMMA NewRecord ==
  ASSUME NEW st \in State, NEW a \in Alerts, Len(st.head) = st.sequence
  PROVE  LET head == AfterReceipt(st, NextReceipt(st, a)).head
         IN  [alert |-> a, receipt |-> NextReceipt(st, a)] = RecordOf(head, Len(head))
  <1> DEFINE link == [key |-> st.key, sequence |-> st.sequence + 1, alert |-> a,
                      model |-> st.model_hash]
             head == Append(st.head, link)
  <1>1. /\ AfterReceipt(st, NextReceipt(st, a)).head = head
        /\ NextReceipt(st, a) =
             [sequence |-> st.sequence + 1, previous_head |-> st.head, alert_hash |-> a,
              model_hash |-> st.model_hash, head |-> head]
    BY DEF AfterReceipt, NextReceipt, ComputeHmac, State
  <1>2. st.head \in Digest /\ link \in Link
    BY DEF State, Link
  <1>3. /\ Len(head) = st.sequence + 1
        /\ head[Len(head)] = link
        /\ SubSeq(head, 1, Len(head) - 1) = st.head
        /\ SubSeq(head, 1, Len(head)) = head
    BY <1>2 DEF Digest
  <1>4. link.alert = a /\ link.model = st.model_hash
    OBVIOUS
  <1>5. RecordOf(head, Len(head)) = [alert |-> a, receipt |-> NextReceipt(st, a)]
    <2> HIDE DEF link, head
    <2>1. QED BY <1>1, <1>3, <1>4 DEF RecordOf
  <1>6. QED BY <1>1, <1>5

-----------------------------------------------------------------------------
(* What a step does to the state of the TA *)

LEMMA AuditStep ==
  ASSUME TypeOK, [Next]_vars
  PROVE  \/ UNCHANGED audit
         \/ /\ batch = "append"
            /\ audit' = AfterReceipt(audit, NextReceipt(audit, alert))
         \/ /\ batch = "register"
            /\ ~ModelConflict(audit, detector)
            /\ audit' = Registered(audit, detector)
  BY DEF Next, MonitorStep, VerifierStep, vars, batchVars, chainVars, StartBatch,
         RegisterModel, RegisterFails, UnreadableTelemetry, OpenAlerts, RaiseAlert,
         AppendAlert, AppendFails, WriteRecord, Flush, DetectorFails, Finish, Kill,
         StartVerify, CheckRecord, CheckHead, VerifyFails, Unanswered

LEMMA AuditType ==
  ASSUME TypeOK, [Next]_vars
  PROVE  audit' \in State
  <1>1. audit \in State /\ alert \in Alerts /\ detector \in Models \union {NoModel}
    BY DEF TypeOK
  <1>2. QED BY <1>1, AuditStep, ReceiptTypes, RegisteredType

\* A line that reaches the file is the first of the buffer.
LEMMA FlushKeeps ==
  ASSUME NEW S, NEW s \in Seq(S), NEW t \in Seq(S), t # << >>
  PROVE  /\ Append(s, Head(t)) \in Seq(S)
         /\ Tail(t) \in Seq(S)
         /\ Append(s, Head(t)) \o Tail(t) = s \o t
  <1>1. Head(t) \in S /\ Head(t) = t[1] /\ Tail(t) \in Seq(S) /\ Len(t) \in Nat \ {0}
    BY EmptySeq, HeadTailProperties
  <1>2. Append(s, Head(t)) \in Seq(S)
    BY <1>1
  <1>3. Len(Append(s, Head(t)) \o Tail(t)) = Len(s \o t)
    BY <1>1, <1>2, HeadTailProperties
  <1>4. ASSUME NEW i \in 1..Len(s \o t)
        PROVE  (Append(s, Head(t)) \o Tail(t))[i] = (s \o t)[i]
    BY <1>1, <1>2, HeadTailProperties
  <1>5. QED BY <1>1, <1>2, <1>3, <1>4, SeqEqual

LEMMA TypeStep ==
  ASSUME TypeOK, [Next]_vars
  PROVE  TypeOK'
  <1> USE DEF TypeOK, Ended
  <1>1. audit' \in State
    BY AuditType
  <1>2. CASE UNCHANGED vars
    BY <1>2 DEF vars, batchVars, chainVars
  <1>3. CASE VerifierStep
    <2> USE DEF batchVars
    <2>1. CASE StartVerify
      BY <2>1, <1>1, EditedListsType DEF StartVerify
    <2>2. CASE CheckRecord
      <3>1. /\ checked' \in 0..Len(presented)
            /\ chain' \in {"records", "rejected"}
            /\ UNCHANGED <<batchVars, presented>>
        BY <2>2 DEF CheckRecord
      <3>2. QED BY <3>1, <1>1
    <2>3. CASE CheckHead
      BY <2>3, <1>1 DEF CheckHead
    <2>4. CASE VerifyFails
      BY <2>4, <1>1 DEF VerifyFails
    <2>5. QED BY <1>3, <2>1, <2>2, <2>3, <2>4 DEF VerifierStep
  <1>4. CASE MonitorStep
    <2> USE DEF chainVars
    <2>1. ASSUME NEW m \in Models, StartBatch(m)
          PROVE  TypeOK'
      BY <2>1, <1>1 DEF StartBatch
    <2>2. CASE RegisterModel \/ RegisterFails \/ UnreadableTelemetry
      BY <2>2, <1>1 DEF RegisterModel, RegisterFails, UnreadableTelemetry
    <2>3. CASE OpenAlerts
      BY <2>3, <1>1 DEF OpenAlerts, State
    <2>4. ASSUME NEW a \in Alerts, RaiseAlert(a)
          PROVE  TypeOK'
      BY <2>4, <1>1 DEF RaiseAlert
    <2>5. CASE AppendAlert
      BY <2>5, <1>1, ReceiptTypes DEF AppendAlert
    <2>6. CASE AppendFails \/ DetectorFails
      <3>1. alerts \o buffer \in Seq(Line) /\ << >> \in Seq(Line)
        OBVIOUS
      <3>2. QED BY <2>6, <3>1, <1>1 DEF AppendFails, DetectorFails, GiveUp, Close
    <2>7. CASE WriteRecord
      <3>1. LineInHand \in Line
        BY <2>7 DEF WriteRecord, LineInHand, Line
      <3>2. Append(buffer, LineInHand) \in Seq(Line)
        BY <3>1
      <3>3. QED BY <2>7, <3>2, <1>1 DEF WriteRecord
    <2>8. CASE Flush
      <3>1. alerts' \in Seq(Line) /\ buffer' \in Seq(Line)
        BY <2>8, FlushKeeps DEF Flush
      <3>2. QED BY <2>8, <3>1, <1>1 DEF Flush
    <2>9. CASE Finish
      <3>1. alerts \o buffer \in Seq(Line) /\ << >> \in Seq(Line)
        OBVIOUS
      <3>2. QED BY <2>9, <3>1, <1>1 DEF Finish, Close
    <2>10. CASE Kill
      BY <2>10, <1>1 DEF Kill
    <2>11. QED
      BY <1>4, <2>1, <2>2, <2>3, <2>4, <2>5, <2>6, <2>7, <2>8, <2>9, <2>10
      DEF MonitorStep
  <1>5. QED BY <1>2, <1>3, <1>4 DEF Next

-----------------------------------------------------------------------------
(* Records and the chain they follow *)

LEMMA FollowsPrefix ==
  ASSUME NEW h \in Digest, NEW s \in Seq(Line), NEW t \in Seq(Line), NEW n \in Nat,
         FollowsChain(h, s \o t, n)
  PROVE  FollowsChain(h, s, n)
  <1>1. /\ Len(s \o t) = Len(s) + Len(t)
        /\ \A i \in 1..Len(s) : (s \o t)[i] = s[i]
    OBVIOUS
  <1>2. Len(h) \in Nat /\ Len(s) \in Nat /\ Len(t) \in Nat
    BY DEF Digest
  <1>3. QED BY <1>1, <1>2 DEF FollowsChain

\* A longer chain has the same records.
LEMMA FollowsLonger ==
  ASSUME NEW h \in Digest, NEW e \in Link, NEW s \in Seq(Line), NEW n \in Nat,
         FollowsChain(h, s, n)
  PROVE  FollowsChain(Append(h, e), s, n)
  <1>1. ASSUME NEW i \in 1..Len(h)
        PROVE  RecordOf(Append(h, e), i) = RecordOf(h, i)
    <2>1. Append(h, e)[i] = h[i]
      BY DEF Digest
    <2>2. /\ SubSeq(Append(h, e), 1, i) = SubSeq(h, 1, i)
          /\ SubSeq(Append(h, e), 1, i - 1) = SubSeq(h, 1, i - 1)
      BY DEF Digest
    <2>3. QED BY <2>1, <2>2 DEF RecordOf
  <1>2. QED BY <1>1 DEF FollowsChain, Digest

\* The record of the last entry continues the records of those before it.
LEMMA FollowsAppend ==
  ASSUME NEW h \in Digest, NEW s \in Seq(Line), NEW n \in Nat,
         FollowsChain(h, s, n), n + Len(s) + 1 = Len(h)
  PROVE  FollowsChain(h, Append(s, RecordOf(h, Len(h))), n)
  <1>1. n + Len(Append(s, RecordOf(h, Len(h)))) = Len(h)
    BY DEF Digest
  <1>2. ASSUME NEW i \in 1..Len(Append(s, RecordOf(h, Len(h))))
        PROVE  Append(s, RecordOf(h, Len(h)))[i] = RecordOf(h, n + i)
    BY SMTT(60) DEF FollowsChain, Digest
  <1>3. QED BY <1>1, <1>2 DEF FollowsChain, Digest

-----------------------------------------------------------------------------
(* The chain *)

LEMMA ChainStep ==
  ASSUME TypeOK, ChainInv, [Next]_vars
  PROVE  ChainInv' /\ audit'.key = audit.key
  <1>0. audit \in State /\ alert \in Alerts
    BY DEF TypeOK
  <1>1. CASE UNCHANGED audit
    BY <1>1 DEF ChainInv
  <1>2. CASE audit' = AfterReceipt(audit, NextReceipt(audit, alert))
    <2> DEFINE link == [key |-> audit.key, sequence |-> audit.sequence + 1,
                        alert |-> alert, model |-> audit.model_hash]
    <2>1. audit' = [audit EXCEPT !.sequence = audit.sequence + 1,
                                 !.head = Append(audit.head, link)]
      BY <1>2 DEF AfterReceipt, NextReceipt, ComputeHmac
    <2>2. /\ audit'.sequence = audit.sequence + 1
          /\ audit'.head = Append(audit.head, link)
          /\ audit'.key = audit.key
          /\ audit'.model_hash = audit.model_hash
      BY <1>0, <2>1 DEF State
    <2>3. audit.head \in Seq(Link) /\ audit.sequence \in Nat /\ link \in Link
      BY <1>0 DEF State, Digest, Link
    <2>4. ASSUME NEW i \in 1..(audit.sequence + 1)
          PROVE  Append(audit.head, link)[i] =
                   [key |-> audit.key, sequence |-> i,
                    alert |-> Append(audit.head, link)[i].alert,
                    model |-> audit.model_hash]
      BY <2>3 DEF ChainInv
    <2>5. QED BY <2>2, <2>3, <2>4 DEF ChainInv
  <1>3. CASE ~ModelConflict(audit, detector) /\ audit' = Registered(audit, detector)
    <2>1. /\ audit'.sequence = audit.sequence
          /\ audit'.head = audit.head
          /\ audit'.key = audit.key
          /\ audit'.model_hash = detector
      BY <1>0, <1>3 DEF Registered, State
    <2>2. audit.sequence = 0 \/ audit.model_hash = detector
      BY <1>0, <1>3 DEF ModelConflict, State
    <2>3. QED BY <1>0, <2>1, <2>2 DEF ChainInv, State
  <1>4. QED BY <1>1, <1>2, <1>3, AuditStep

LEMMA HeadStep ==
  ASSUME TypeOK, [Next]_vars
  PROVE  \/ audit'.head = audit.head /\ audit'.sequence = audit.sequence
         \/ /\ batch = "append"
            /\ audit' = AfterReceipt(audit, NextReceipt(audit, alert))
            /\ audit'.sequence = audit.sequence + 1
            /\ \E link \in Link : audit'.head = Append(audit.head, link)
  <1>1. audit \in State /\ alert \in Alerts
    BY DEF TypeOK
  <1>2. [key |-> audit.key, sequence |-> audit.sequence + 1, alert |-> alert,
         model |-> audit.model_hash] \in Link
    BY <1>1 DEF State, Link
  <1>3. QED
    BY <1>1, <1>2, AuditStep DEF AfterReceipt, NextReceipt, ComputeHmac, Registered, State

\* Records that follow the chain go on following it.
LEMMA FollowsStep ==
  ASSUME TypeOK, [Next]_vars, NEW s \in Seq(Line), NEW n \in Nat,
         FollowsChain(audit.head, s, n)
  PROVE  FollowsChain(audit'.head, s, n)
  <1>1. audit.head \in Digest
    BY DEF TypeOK, State
  <1>2. QED BY <1>1, HeadStep, FollowsLonger

-----------------------------------------------------------------------------
(* The file *)

LEMMA FileStep ==
  ASSUME TypeOK, ChainInv, FileInv, [Next]_vars
  PROVE  FileInv'
  <1>0. /\ alerts \in Seq(Line) /\ buffer \in Seq(Line) /\ Content \in Seq(Line)
        /\ first \in Nat /\ audit \in State /\ audit.sequence \in Nat
        /\ Len(audit.head) = audit.sequence /\ audit.head \in Digest
    BY DEF TypeOK, ChainInv, Content, State
  <1>1. FollowsChain(audit.head, Content, first)
    BY DEF FileInv
  <1>2. FollowsChain(audit'.head, Content, first)
    BY <1>0, <1>1, FollowsStep
  <1>3. CASE UNCHANGED <<audit, batchVars>>
    BY <1>3 DEF FileInv, Content, batchVars, LineInHand
  <1>4. CASE VerifierStep \/ UNCHANGED vars
    BY <1>3, <1>4 DEF VerifierStep, StartVerify, CheckRecord, CheckHead, VerifyFails, vars
  <1>5. ASSUME Content' = Content, first' = first,
               audit'.sequence = audit.sequence, audit'.head = audit.head,
               batch' = batch \/ batch' \in {"register", "open", "refused"}
                 \/ (batch' \in {"append", "finished", "failed"} /\ batch = "score"),
               batch' = "write" => LineInHand' = LineInHand,
               batch' \notin {"score", "append", "write"} => buffer' = << >>
        PROVE  FileInv'
    BY <1>0, <1>2, <1>5 DEF FileInv
  <1>6. ASSUME NEW m \in Models, StartBatch(m)
        PROVE  FileInv'
    BY <1>5, <1>6 DEF StartBatch, Content, FileInv, Ended
  <1>7. CASE RegisterModel \/ RegisterFails \/ UnreadableTelemetry
    <2>1. audit'.sequence = audit.sequence /\ audit'.head = audit.head
      BY <1>7, HeadStep DEF RegisterModel, RegisterFails, UnreadableTelemetry
    <2>2. QED
      BY <1>5, <1>7, <2>1
      DEF RegisterModel, RegisterFails, UnreadableTelemetry, Content, FileInv
  <1>8. CASE OpenAlerts
    <2>1. Content' = << >> /\ Len(Content') = 0
      BY <1>8 DEF OpenAlerts, Content
    <2>2. FollowsChain(audit.head, << >>, audit.sequence)
      BY <1>0 DEF FollowsChain
    <2>3. QED BY <1>0, <1>8, <2>1, <2>2 DEF OpenAlerts, FileInv
  <1>9. ASSUME NEW a \in Alerts, RaiseAlert(a)
        PROVE  FileInv'
    BY <1>5, <1>9 DEF RaiseAlert, Content, FileInv
  <1>10. CASE AppendAlert
    <2>1. Content' = Content /\ first' = first /\ batch' = "write"
      BY <1>10 DEF AppendAlert, Content
    <2>2. audit'.sequence = audit.sequence + 1 /\ Len(audit'.head) = audit'.sequence
      <3>1. ChainInv'
        BY ChainStep
      <3>2. audit'.sequence = audit.sequence + 1
        BY <1>0, <1>10 DEF AppendAlert, AfterReceipt, NextReceipt, State
      <3>3. QED BY <3>1, <3>2 DEF ChainInv
    <2>3. LineInHand' = RecordOf(audit'.head, audit'.sequence)
      <3>1. alert \in Alerts
        BY DEF TypeOK
      <3>2. LineInHand' = [alert |-> alert, receipt |-> NextReceipt(audit, alert)]
        BY <1>10 DEF AppendAlert, LineInHand
      <3>3. QED BY <1>0, <1>10, <2>2, <3>1, <3>2, NewRecord DEF AppendAlert
    <2>4. first + Len(Content) = audit.sequence
      BY <1>10 DEF AppendAlert, FileInv
    <2>5. QED BY <1>0, <1>2, <2>1, <2>2, <2>3, <2>4 DEF FileInv
  <1>11. CASE AppendFails
    <2>1. Content' = Content /\ first' = first /\ batch' = "failed" /\ buffer' = << >>
      BY <1>0, <1>11 DEF AppendFails, GiveUp, Close, Content
    <2>2. audit'.sequence <= audit.sequence + 1
      BY <1>0, HeadStep
    <2>3. first + Len(Content) = audit.sequence
      BY <1>11 DEF AppendFails, FileInv
    <2>4. audit'.sequence <= first + Len(Content) + 1
      BY <2>2, <2>3
    <2>5. QED BY <1>2, <2>1, <2>4 DEF FileInv
  <1>12. CASE WriteRecord
    <2>1. /\ LineInHand = RecordOf(audit.head, Len(audit.head))
          /\ first + Len(Content) + 1 = Len(audit.head)
      BY <1>0, <1>12 DEF WriteRecord, FileInv
    <2>2. LineInHand \in Line
      BY <1>12 DEF WriteRecord, TypeOK, LineInHand, Line
    <2>3. Content' = Append(Content, LineInHand)
      BY <1>0, <1>12, <2>2 DEF WriteRecord, Content
    <2>4. FollowsChain(audit.head, Append(Content, LineInHand), first)
      BY <1>0, <1>1, <2>1, FollowsAppend
    <2>5. Len(Append(Content, LineInHand)) = Len(Content) + 1
      BY <1>0
    <2>6. first' = first /\ audit' = audit /\ batch' = "score"
      BY <1>12 DEF WriteRecord
    <2>7. QED BY <1>0, <2>1, <2>3, <2>4, <2>5, <2>6 DEF FileInv
  <1>13. CASE Flush
    <2>1. Content' = Content
      BY <1>0, <1>13, FlushKeeps DEF Flush, Content
    <2>2. batch \in {"score", "append", "write"}
      BY <1>13 DEF Flush, FileInv
    <2>3. QED BY <1>5, <1>13, <2>1, <2>2 DEF Flush, LineInHand
  <1>14. CASE DetectorFails \/ Finish
    <2>1. Content' = Content
      BY <1>0, <1>14 DEF DetectorFails, Finish, GiveUp, Close, Content
    <2>2. QED BY <1>5, <1>14, <2>1 DEF DetectorFails, Finish, GiveUp, Close
  <1>15. CASE Kill
    <2>1. Content' = alerts /\ first' = first /\ batch' = "killed" /\ buffer' = << >>
      BY <1>0, <1>15 DEF Kill, Content
    <2>2. FollowsChain(audit.head, alerts, first)
      BY <1>0, <1>1, FollowsPrefix DEF Content
    <2>3. FollowsChain(audit'.head, alerts, first)
      BY <1>0, <2>2, FollowsStep
    <2>4. QED BY <2>1, <2>3 DEF FileInv
  <1>16. QED
    BY <1>4, <1>6, <1>7, <1>8, <1>9, <1>10, <1>11, <1>12, <1>13, <1>14, <1>15
    DEF Next, MonitorStep

-----------------------------------------------------------------------------
(* The verifier *)

LEMMA SpelledNext ==
  ASSUME NEW i \in Nat
  PROVE  /\ Len(Spelled(i)) = i
         /\ Append(Spelled(i), [key |-> audit.key, sequence |-> i + 1,
                                alert |-> presented[i + 1].alert,
                                model |-> presented[1].receipt.model_hash])
              = Spelled(i + 1)
  <1> DEFINE link(j) == [key |-> audit.key, sequence |-> j, alert |-> presented[j].alert,
                         model |-> presented[1].receipt.model_hash]
             S == {link(j) : j \in 1..(i + 1)}
  <1>1. /\ Spelled(i) \in Seq(S) /\ Spelled(i + 1) \in Seq(S)
        /\ Len(Spelled(i)) = i /\ Len(Spelled(i + 1)) = i + 1
    <2>1. Spelled(i) \in [1..i -> S] /\ Spelled(i + 1) \in [1..(i + 1) -> S]
      BY DEF Spelled
    <2>2. i + 1 \in Nat
      OBVIOUS
    <2> HIDE DEF S
    <2>3. QED BY <2>1, <2>2, SeqDef, LenProperties
  <1>2. link(i + 1) \in S
    OBVIOUS
  <1>3. \A j \in 1..i : Spelled(i)[j] = link(j)
    BY DEF Spelled
  <1>4. \A j \in 1..(i + 1) : Spelled(i + 1)[j] = link(j)
    BY DEF Spelled
  <1>5. Append(Spelled(i), link(i + 1)) = Spelled(i + 1)
    <2> HIDE DEF S, link
    <2>1. /\ Append(Spelled(i), link(i + 1)) \in Seq(S)
          /\ Len(Append(Spelled(i), link(i + 1))) = i + 1
      BY <1>1, <1>2
    <2>2. ASSUME NEW j \in 1..(i + 1)
          PROVE  Append(Spelled(i), link(i + 1))[j] = Spelled(i + 1)[j]
      BY <1>1, <1>2, <1>3, <1>4
    <2>3. QED BY <1>1, <2>1, <2>2, SeqEqual
  <1>6. QED BY <1>1, <1>5

\* A record that passes is the good one for its place.
LEMMA PassedIsGood ==
  ASSUME TypeOK, VerifyInv, chain = "records", checked < Len(presented),
         Matches(presented[checked + 1]),
         Genuine(audit, presented[checked + 1].receipt)
  PROVE  Good(checked + 1)
  <1> DEFINE i == checked + 1
             r == presented[i].receipt
  <1>1. checked \in Nat /\ i \in 1..Len(presented)
    BY DEF TypeOK
  <1>2. r \in Receipt /\ presented[i] \in Record
    <2>1. presented \in Seq(Record)
      BY DEF TypeOK
    <2>2. presented[i] \in Record
      BY <1>1, <2>1
    <2>3. r # NoReceipt
      BY DEF Matches
    <2>4. QED BY <2>2, <2>3 DEF Record
  <1>3. PreviousHead = Spelled(checked)
    <2>1. CASE checked = 0
      BY <2>1 DEF PreviousHead, ZeroHead, Spelled
    <2>2. CASE checked # 0
      <3>1. Good(checked)
        BY <1>1, <2>2 DEF VerifyInv
      <3>2. QED BY <2>2, <3>1 DEF PreviousHead, Good
    <2>3. QED BY <2>1, <2>2
  <1>4. /\ r.sequence = i /\ r.previous_head = Spelled(checked)
        /\ r.alert_hash = presented[i].alert
        /\ r.model_hash = presented[1].receipt.model_hash
    BY <1>3 DEF Matches
  <1>5. r.head = Spelled(checked + 1)
    <2>1. r.head = Append(Spelled(checked),
                          [key |-> audit.key, sequence |-> checked + 1,
                           alert |-> presented[checked + 1].alert,
                           model |-> presented[1].receipt.model_hash])
      BY <1>4 DEF Genuine, ComputeHmac
    <2>2. QED BY <1>1, <2>1, SpelledNext
  <1>6. i - 1 = checked
    BY <1>1
  <1>7. r = [sequence |-> r.sequence, previous_head |-> r.previous_head,
             alert_hash |-> r.alert_hash, model_hash |-> r.model_hash, head |-> r.head]
    BY <1>2 DEF Receipt
  <1>8. QED BY <1>4, <1>5, <1>6, <1>7 DEF Good

LEMMA VerifyStep ==
  ASSUME TypeOK, ChainInv, VerifyInv, [Next]_vars
  PROVE  VerifyInv'
  <1>1. audit'.key = audit.key
    BY ChainStep
  <1>2. ASSUME presented' = presented, NEW i \in Nat, Good(i)
        PROVE  Good(i)'
    BY <1>1, <1>2 DEF Good, Spelled
  <1>3. checked \in Nat
    BY DEF TypeOK
  <1>4. CASE UNCHANGED chainVars
    BY <1>2, <1>3, <1>4 DEF VerifyInv, chainVars
  <1>5. CASE MonitorStep \/ UNCHANGED vars
    BY <1>4, <1>5
    DEF MonitorStep, vars, StartBatch, RegisterModel, RegisterFails, UnreadableTelemetry,
        OpenAlerts, RaiseAlert, AppendAlert, AppendFails, WriteRecord, Flush,
        DetectorFails, Finish, Kill
  <1>6. CASE StartVerify
    BY <1>6 DEF StartVerify, VerifyInv
  <1>7. CASE CheckRecord
    <2>1. CASE Matches(presented[checked + 1])
               /\ Genuine(audit, presented[checked + 1].receipt)
      <3>1. Good(checked + 1)
        BY <1>7, <2>1, PassedIsGood DEF CheckRecord
      <3>2. checked' = checked + 1 /\ presented' = presented
        BY <1>7, <2>1 DEF CheckRecord
      <3>3. \A i \in 1..(checked + 1) : Good(i)
        BY <1>3, <1>7, <3>1 DEF CheckRecord, VerifyInv
      <3>4. QED BY <1>2, <1>3, <3>2, <3>3 DEF VerifyInv
    <2>2. CASE ~(Matches(presented[checked + 1])
                 /\ Genuine(audit, presented[checked + 1].receipt))
      BY <1>7, <2>2 DEF CheckRecord, VerifyInv
    <2>3. QED BY <2>1, <2>2
  <1>8. CASE CheckHead \/ VerifyFails
    BY <1>8 DEF CheckHead, VerifyFails, VerifyInv
  <1>9. QED BY <1>5, <1>6, <1>7, <1>8 DEF Next, VerifierStep

LEMMA PrefixOfSpelled ==
  ASSUME NEW n \in Nat, NEW i \in 0..n, Spelled(n) \in Digest
  PROVE  SubSeq(Spelled(n), 1, i) = Spelled(i)
  <1>1. Len(Spelled(n)) = n
    BY SpelledNext
  <1>2. \A j \in 1..i : Spelled(i)[j] = Spelled(n)[j]
    BY DEF Spelled
  <1>3. SubSeq(Spelled(n), 1, i) = [j \in 1..i |-> Spelled(n)[j]]
    BY <1>1 DEF Digest
  <1>4. QED BY <1>2, <1>3 DEF Spelled

LEMMA AcceptedIsComplete ==
  ASSUME TypeOK, ChainInv, VerifyInv, chain = "records", checked = Len(presented), IsCurrent
  PROVE  presented = RecordsOf(audit.head)
  <1>1. /\ presented \in Seq(Record) /\ checked \in Nat
        /\ audit.head \in Digest /\ audit.sequence = checked /\ Len(audit.head) = checked
    BY DEF TypeOK, State, IsCurrent, ChainInv
  <1>2. audit.head = Spelled(checked)
    <2>1. CASE checked = 0
      BY <2>1 DEF IsCurrent, PreviousHead, ZeroHead, Spelled
    <2>2. CASE checked # 0
      <3>1. Good(checked)
        BY <1>1, <2>2 DEF VerifyInv
      <3>2. QED BY <2>2, <3>1 DEF IsCurrent, PreviousHead, Good
    <2>3. QED BY <2>1, <2>2
  <1>3. ASSUME NEW i \in 1..checked
        PROVE  presented[i] = RecordOf(audit.head, i)
    <2>1. Good(i)
      BY <1>1 DEF VerifyInv
    <2>2. /\ SubSeq(audit.head, 1, i) = Spelled(i)
          /\ SubSeq(audit.head, 1, i - 1) = Spelled(i - 1)
      <3>1. Spelled(checked) \in Digest /\ i \in 0..checked /\ i - 1 \in 0..checked
        BY <1>1, <1>2
      <3>2. QED BY <1>1, <1>2, <3>1, PrefixOfSpelled
    <2>3. /\ audit.head[i].alert = presented[i].alert
          /\ audit.head[i].model = presented[1].receipt.model_hash
      BY <1>2 DEF Spelled
    <2>4. presented[i] = [alert |-> presented[i].alert, receipt |-> presented[i].receipt]
      <3>1. presented[i] \in Record
        BY <1>1
      <3>2. QED BY <3>1 DEF Record
    <2>5. presented[i].receipt =
            [sequence |-> i, previous_head |-> SubSeq(audit.head, 1, i - 1),
             alert_hash |-> audit.head[i].alert, model_hash |-> audit.head[i].model,
             head |-> SubSeq(audit.head, 1, i)]
      BY <2>1, <2>2, <2>3 DEF Good
    <2>6. QED BY <2>3, <2>4, <2>5 DEF RecordOf
  <1>4. presented = [i \in 1..checked |-> presented[i]]
    BY <1>1
  <1>5. QED BY <1>1, <1>3, <1>4 DEF RecordsOf

LEMMA LinkOfChain ==
  ASSUME TypeOK, ChainInv, NEW i \in 1..audit.sequence
  PROVE  /\ Genuine(audit, RecordOf(audit.head, i).receipt)
         /\ audit.head[i].model = audit.model_hash
         /\ RecordOf(audit.head, i).receipt \in Receipt
  <1>1. /\ audit.head \in Seq(Link) /\ Len(audit.head) = audit.sequence
        /\ audit.sequence \in Nat /\ audit.head[i] \in Link
    BY DEF TypeOK, State, ChainInv, Digest
  <1>2. audit.head[i] = [key |-> audit.key, sequence |-> i,
                         alert |-> audit.head[i].alert, model |-> audit.head[i].model]
        /\ audit.head[i].model = audit.model_hash
    <2>1. audit.head[i] = [key |-> audit.key, sequence |-> i,
                           alert |-> audit.head[i].alert, model |-> audit.model_hash]
      BY DEF ChainInv
    <2>2. audit.head[i].model = audit.model_hash
      BY <2>1
    <2>3. QED BY <2>1, <2>2
  <1>3. Append(SubSeq(audit.head, 1, i - 1), audit.head[i]) = SubSeq(audit.head, 1, i)
    BY <1>1
  <1>4. Genuine(audit, RecordOf(audit.head, i).receipt)
    BY <1>2, <1>3 DEF Genuine, ComputeHmac, RecordOf
  <1>5. /\ SubSeq(audit.head, 1, i) \in Digest /\ SubSeq(audit.head, 1, i - 1) \in Digest
        /\ audit.head[i].alert \in Alerts
        /\ audit.head[i].model \in Models \union {NoModel}
    <2>1. SubSeq(audit.head, 1, i) \in Seq(Link)
      BY <1>1
    <2>2. SubSeq(audit.head, 1, i - 1) \in Seq(Link)
      BY <1>1
    <2>3. QED BY <1>1, <2>1, <2>2 DEF Digest, Link
  <1>6. RecordOf(audit.head, i).receipt \in Receipt
    BY <1>5 DEF RecordOf, Receipt
  <1>7. QED BY <1>2, <1>4, <1>6

\* The head of the checked-th record is that of the chain at its place.
LEMMA PreviousOfComplete ==
  ASSUME TypeOK, ChainInv, presented = RecordsOf(audit.head)
  PROVE  /\ Len(presented) = audit.sequence
         /\ \A i \in 1..audit.sequence : presented[i] = RecordOf(audit.head, i)
         /\ PreviousHead = SubSeq(audit.head, 1, checked)
  <1>1. /\ audit.sequence \in Nat /\ checked \in 0..Len(presented)
        /\ presented \in Seq(Record) /\ audit.head \in Seq(Link)
        /\ Len(audit.head) = audit.sequence
    BY DEF TypeOK, State, Digest, ChainInv
  <1>2. Len(presented) = audit.sequence
    BY <1>1 DEF RecordsOf
  <1>3. \A i \in 1..audit.sequence : presented[i] = RecordOf(audit.head, i)
    BY <1>1 DEF RecordsOf
  <1>4. CASE checked = 0
    BY <1>1, <1>2, <1>3, <1>4 DEF PreviousHead, ZeroHead
  <1>5. CASE checked # 0
    <2>1. checked \in 1..audit.sequence
      BY <1>1, <1>2, <1>5
    <2>2. presented[checked].receipt.head = SubSeq(audit.head, 1, checked)
      <3>1. presented[checked] = RecordOf(audit.head, checked)
        BY <1>3, <2>1
      <3>2. QED BY <3>1 DEF RecordOf
    <2>3. QED BY <1>2, <1>3, <1>5, <2>2 DEF PreviousHead
  <1>6. QED BY <1>4, <1>5, <1>2, <1>3

LEMMA CompletePasses ==
  ASSUME TypeOK, ChainInv, presented = RecordsOf(audit.head)
  PROVE  /\ checked < Len(presented) =>
              /\ Matches(presented[checked + 1])
              /\ Genuine(audit, presented[checked + 1].receipt)
         /\ checked = Len(presented) => IsCurrent
  <1>1. /\ audit.sequence \in Nat /\ checked \in 0..Len(presented)
        /\ audit.head \in Seq(Link) /\ Len(audit.head) = audit.sequence
    BY DEF TypeOK, State, Digest, ChainInv
  <1>2. /\ Len(presented) = audit.sequence
        /\ \A i \in 1..audit.sequence : presented[i] = RecordOf(audit.head, i)
        /\ PreviousHead = SubSeq(audit.head, 1, checked)
    BY PreviousOfComplete
  <1>3. \A i \in 1..audit.sequence :
          presented[i].receipt.model_hash = audit.model_hash
    <2>1. TAKE i \in 1..audit.sequence
    <2>2. presented[i] = RecordOf(audit.head, i)
      BY <1>2
    <2>3. presented[i].receipt.model_hash = audit.head[i].model
      BY <2>2 DEF RecordOf
    <2>4. QED BY <2>3, LinkOfChain
  <1>4. ASSUME checked < Len(presented)
        PROVE  /\ Matches(presented[checked + 1])
               /\ Genuine(audit, presented[checked + 1].receipt)
    <2> DEFINE i == checked + 1
    <2>1. i \in 1..audit.sequence /\ 1 \in 1..audit.sequence /\ i - 1 = checked
      BY <1>1, <1>2, <1>4
    <2>2. presented[i] = RecordOf(audit.head, i)
      BY <1>2, <2>1
    <2>3. /\ Genuine(audit, presented[i].receipt)
          /\ presented[i].receipt \in Receipt
      BY <2>1, <2>2, LinkOfChain
    <2>4. presented[i].receipt # NoReceipt
      BY <2>3, NoReceiptAssumption
    <2>5. /\ presented[i].receipt.sequence = i
          /\ presented[i].receipt.previous_head = PreviousHead
          /\ presented[i].receipt.alert_hash = presented[i].alert
      BY <1>2, <2>1, <2>2 DEF RecordOf
    <2>6. presented[i].receipt.model_hash = presented[1].receipt.model_hash
      BY <1>3, <2>1
    <2>7. QED BY <2>3, <2>4, <2>5, <2>6 DEF Matches
  <1>5. ASSUME checked = Len(presented)
        PROVE  IsCurrent
    <2>1. audit.head = PreviousHead
      BY <1>1, <1>2, <1>5
    <2>2. checked # 0 => audit.model_hash = presented[1].receipt.model_hash
      BY <1>1, <1>2, <1>3, <1>5
    <2>3. QED BY <1>2, <1>5, <2>1, <2>2 DEF IsCurrent
  <1>6. QED BY <1>4, <1>5

LEMMA VerdictStep ==
  ASSUME TypeOK, ChainInv, VerifyInv, [Next]_vars
  PROVE  Verdict
  <1>1. ASSUME chain = "records", chain' = "accepted"
        PROVE  presented = RecordsOf(audit.head)
    <2>1. checked = Len(presented) /\ IsCurrent
      BY <1>1
      DEF Next, MonitorStep, VerifierStep, vars, chainVars, StartBatch, RegisterModel,
          RegisterFails, UnreadableTelemetry, OpenAlerts, RaiseAlert, AppendAlert,
          AppendFails, WriteRecord, Flush, DetectorFails, Finish, Kill, StartVerify,
          CheckRecord, CheckHead, VerifyFails
    <2>2. QED BY <1>1, <2>1, AcceptedIsComplete
  <1>2. ASSUME chain = "records", chain' = "rejected", presented = RecordsOf(audit.head)
        PROVE  FALSE
    <2>1. CheckRecord \/ CheckHead
      BY <1>2
      DEF Next, MonitorStep, VerifierStep, vars, chainVars, StartBatch, RegisterModel,
          RegisterFails, UnreadableTelemetry, OpenAlerts, RaiseAlert, AppendAlert,
          AppendFails, WriteRecord, Flush, DetectorFails, Finish, Kill, StartVerify,
          VerifyFails
    <2>2. CASE CheckRecord
      BY <1>2, <2>2, CompletePasses DEF CheckRecord
    <2>3. CASE CheckHead
      BY <1>2, <2>3, CompletePasses DEF CheckHead
    <2>4. QED BY <2>1, <2>2, <2>3
  <1>3. QED BY <1>1, <1>2 DEF Verdict

-----------------------------------------------------------------------------
(* Theorems *)

LEMMA TypeInit ==
  ASSUME Init
  PROVE  TypeOK
  BY DEF Init, TypeOK, Ended, FreshState, State, ZeroHead, Digest

LEMMA Initially ==
  ASSUME Init
  PROVE  IInv
  <1>1. TypeOK
    BY TypeInit
  <1>2. /\ audit.sequence = 0 /\ audit.head = << >> /\ alerts = << >> /\ buffer = << >>
        /\ first = 0 /\ batch = "none" /\ chain = "idle"
    BY DEF Init, FreshState, ZeroHead
  <1>3. ChainInv
    BY <1>2 DEF ChainInv
  <1>4. Content = << >>
    BY <1>2 DEF Content
  <1>5. FileInv
    BY <1>2, <1>4 DEF FileInv, FollowsChain
  <1>6. VerifyInv
    BY <1>2 DEF VerifyInv
  <1>7. QED BY <1>1, <1>3, <1>5, <1>6 DEF IInv

LEMMA Inductive ==
  ASSUME IInv, [Next]_vars
  PROVE  IInv'
  BY TypeStep, ChainStep, FileStep, VerifyStep DEF IInv

LEMMA InvariantHolds == Spec => []IInv
  BY Initially, Inductive, PTL DEF Spec

\* Every variable keeps its type (monitor.py as a whole).
THEOREM TypeCorrect == Spec => []TypeOK
  BY TypeInit, TypeStep, PTL DEF Spec

\* Whenever the batch fails or is killed, the lines of the alerts file are
\* consecutive entries of the chain with their receipts (monitor.py
\* monitor_batch), for any number of batches, alerts and models.
THEOREM FileAlwaysFollowsChain == Spec => []FileFollowsChain
  <1>1. ASSUME IInv
        PROVE  FileFollowsChain
    <2>1. /\ alerts \in Seq(Line) /\ buffer \in Seq(Line)
          /\ first \in Nat /\ audit.head \in Digest
      BY <1>1 DEF IInv, TypeOK, State
    <2>2. FollowsChain(audit.head, alerts \o buffer, first)
      BY <1>1 DEF IInv, FileInv, Content
    <2>3. QED BY <2>1, <2>2, FollowsPrefix DEF FileFollowsChain
  <1>2. QED BY <1>1, InvariantHolds, PTL

\* A batch that returns has written every alert it appended; one that gave
\* up lacks at most one (monitor.py monitor_batch).
THEOREM NothingIsMissing == Spec => []NothingMissing
  <1>1. ASSUME IInv
        PROVE  NothingMissing
    <2>1. batch \in {"finished", "failed"} => Len(Content) = Len(alerts)
      BY <1>1 DEF IInv, TypeOK, FileInv, Content
    <2>2. QED BY <1>1, <2>1 DEF IInv, FileInv, NothingMissing
  <1>2. QED BY <1>1, InvariantHolds, PTL

\* verify_chain accepts the complete list of records of the chain and
\* nothing else, while the chain grows (monitor.py verify_chain).
THEOREM VerdictIsExact == Spec => VerdictExact
  <1>1. ASSUME IInv, [Next]_vars
        PROVE  [Verdict]_vars
    BY <1>1, VerdictStep DEF IInv
  <1>2. QED BY <1>1, InvariantHolds, PTL DEF Spec, VerdictExact

=============================================================================
