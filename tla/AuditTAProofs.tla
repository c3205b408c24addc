---------------------------- MODULE AuditTAProofs ----------------------------
(***************************************************************************)
(* Theorems about AuditTA, for every number of sessions, keys, models,     *)
(* alerts and appends.  Those about the chain assume SafeUse; without it   *)
(* the runs AuditTA_TwoWriters and AuditTA_FirstUseRace refute them.       *)
(***************************************************************************)
EXTENDS AuditTA, TLAPS, SequenceTheorems

-----------------------------------------------------------------------------
(* Type correctness, whatever the sessions do. *)

\* TypeOK is not inductive: a step that computes on the local copy needs the
\* copy to have been loaded, a delivered receipt to have been computed.
LocalsInv(s) ==
  /\ pc[s] \in {"create", "act", "save"} => state[s] \in State
  /\ /\ cmd[s].op = "append"
     /\ pc[s] = "save" \/ (pc[s] = "reply" /\ result[s] = "SUCCESS")
     => receipt[s] \in Receipt

TypeInv == TypeOK /\ \A s \in Sessions : LocalsInv(s)

\* ComputeHmac returns a digest (entry.c compute_hmac).
LEMMA HmacType ==
  ASSUME NEW st \in State, NEW n \in Nat, NEW p \in Digest, NEW a \in Alerts,
         NEW m \in Models \union {NoModel}
  PROVE  ComputeHmac(st, n, p, a, m) \in Digest
<1>1. [key |-> st.key, sequence |-> n, alert |-> a, model |-> m] \in Link
  BY DEF State, Link
<1> QED
  BY <1>1, AppendProperties DEF ComputeHmac, Digest

\* The receipt append_alert computes is a receipt (entry.c append_alert).
LEMMA NextReceiptType ==
  ASSUME NEW st \in State, NEW a \in Alerts
  PROVE  NextReceipt(st, a) \in Receipt
<1>1. /\ st.sequence + 1 \in Nat
      /\ st.head \in Digest
      /\ st.model_hash \in Models \union {NoModel}
  BY DEF State
<1>2. ComputeHmac(st, st.sequence + 1, st.head, a, st.model_hash) \in Digest
  BY <1>1, HmacType
<1> QED
  BY <1>1, <1>2 DEF NextReceipt, Receipt

\* The state append_alert saves is a state (entry.c append_alert).
LEMMA AfterReceiptType ==
  ASSUME NEW st \in State, NEW r \in Receipt
  PROVE  AfterReceipt(st, r) \in State
BY DEF AfterReceipt, State, Receipt

\* The state a first load creates is a state (entry.c load_state).
LEMMA FreshStateType ==
  ASSUME NEW k \in Keys
  PROVE  FreshState(k) \in State
<1>1. ZeroHead \in Digest
  BY EmptySeq DEF ZeroHead, Digest
<1> QED
  BY <1>1 DEF FreshState, State

\* What a client may present to VERIFY has the fields of a receipt.
LEMMA PresentableType ==
  ASSUME receipts \subseteq Receipt
  PROVE  Presentable \subseteq Receipt
<1> SUFFICES ASSUME NEW x \in Presentable PROVE x \in Receipt
  OBVIOUS
<1>1. CASE x \in receipts
  BY <1>1
<1>2. CASE \E r \in receipts : x = [r EXCEPT !.sequence = r.sequence + 1]
  BY <1>2 DEF Receipt
<1>3. CASE \E r \in receipts, a \in Alerts : x = [r EXCEPT !.alert_hash = a]
  BY <1>3 DEF Receipt
<1>4. CASE \E r \in receipts, m \in Models : x = [r EXCEPT !.model_hash = m]
  BY <1>4 DEF Receipt
<1>5. CASE \E r \in receipts, q \in receipts : x = [r EXCEPT !.previous_head = q.head]
  BY <1>5 DEF Receipt
<1>6. CASE \E r \in receipts, q \in receipts : x = [r EXCEPT !.head = q.head]
  BY <1>6 DEF Receipt
<1> QED
  BY <1>1, <1>2, <1>3, <1>4, <1>5, <1>6 DEF Presentable

\* The initial states have their types.
LEMMA TypeInit == Init => TypeInv
<1> SUFFICES ASSUME Init PROVE TypeInv
  OBVIOUS
<1>1. object \in State \union {NoObject}
  BY FreshStateType DEF Init
<1>2. Idle \in Command
  BY DEF Idle, Command
<1> QED
  BY <1>1, <1>2 DEF Init, TypeInv, TypeOK, LocalsInv, Results

\* Every step keeps the types.
LEMMA TypeNext == TypeInv /\ [Next]_vars => TypeInv'
<1> SUFFICES ASSUME TypeInv, [Next]_vars PROVE TypeInv'
  OBVIOUS
<1> USE DEF TypeInv, TypeOK, LocalsInv
<1>c. Idle \in Command /\ Idle.op = "none"
  BY DEF Idle, Command
<1>1. ASSUME NEW s \in Sessions, Invoke(s) PROVE TypeInv'
  <2>1. \A c \in WriterCommands \union ReaderCommands : c \in Command
    BY PresentableType DEF WriterCommands, ReaderCommands, Command
  <2> QED
    BY <1>1, <2>1 DEF Invoke
<1>2. ASSUME NEW s \in Sessions, InvokeMalformed(s) PROVE TypeInv'
  BY <1>2 DEF InvokeMalformed, Results
<1>3. ASSUME NEW s \in Sessions, Load(s) PROVE TypeInv'
  BY <1>3, FreshStateType DEF Load
<1>4. ASSUME NEW s \in Sessions, Create(s) PROVE TypeInv'
  BY <1>4 DEF Create
<1>5. ASSUME NEW s \in Sessions, RegisterModel(s) PROVE TypeInv'
  <2>1. state[s] \in State /\ cmd[s].model \in Models
    BY <1>5 DEF RegisterModel, Command
  <2>2. Registered(state[s], cmd[s].model) \in State
    BY <2>1 DEF State, Registered
  <2> QED
    BY <1>5, <2>1, <2>2 DEF RegisterModel, Results
<1>6. ASSUME NEW s \in Sessions, AppendAlert(s) PROVE TypeInv'
  <2>1. state[s] \in State /\ cmd[s].alert \in Alerts
    BY <1>6 DEF AppendAlert, Command
  <2>2. NextReceipt(state[s], cmd[s].alert) \in Receipt
    BY <2>1, NextReceiptType
  <2>3. AfterReceipt(state[s], NextReceipt(state[s], cmd[s].alert)) \in State
    BY <2>1, <2>2, AfterReceiptType
  <2> QED
    BY <1>6, <2>1, <2>2, <2>3 DEF AppendAlert, Results
<1>7. ASSUME NEW s \in Sessions, GetHead(s) PROVE TypeInv'
  BY <1>7 DEF GetHead, Results
<1>8. ASSUME NEW s \in Sessions, VerifyReceipt(s) PROVE TypeInv'
  BY <1>8 DEF VerifyReceipt, Results
<1>9. ASSUME NEW s \in Sessions, Save(s) PROVE TypeInv'
  BY <1>9 DEF Save, Results
<1>10. ASSUME NEW s \in Sessions, Fail(s) PROVE TypeInv'
  BY <1>10 DEF Fail, Results
<1>11. ASSUME NEW s \in Sessions, Reply(s) PROVE TypeInv'
  BY <1>11, <1>c DEF Reply, Forget, Delivered, Results
<1>12. ASSUME NEW s \in Sessions, LoseReply(s) PROVE TypeInv'
  BY <1>12, <1>c DEF LoseReply, Forget, Results
<1>13. CASE Crash
  BY <1>13, <1>c DEF Crash, Results
<1>14. CASE UNCHANGED vars
  BY <1>14 DEF vars
<1> QED
  BY <1>1, <1>2, <1>3, <1>4, <1>5, <1>6, <1>7, <1>8, <1>9, <1>10, <1>11, <1>12,
     <1>13, <1>14 DEF Next, Step

\* The types are right however many sessions write (entry.c as a whole).
THEOREM TypeCorrect == Spec => []TypeOK
<1>1. TypeInv => TypeOK
  BY DEF TypeInv
<1> QED
  BY TypeInit, TypeNext, <1>1, PTL DEF Spec

-----------------------------------------------------------------------------
(* The inductive invariant. *)

\* A stored state is a chain: numbered links, one key, one model.
WellFormed(st) ==
  /\ st.sequence = Len(st.head)
  /\ \A i \in 1..Len(st.head) :
       /\ st.head[i].key = st.key
       /\ st.head[i].sequence = i
       /\ st.head[i].model = st.model_hash
  /\ st.model_registered <=> st.model_hash # NoModel
  /\ st.sequence > 0 => st.model_registered

\* The receipt is what the TA computed for one link of a chain.
Certified(r, st) ==
  /\ OnChain(r, st)
  /\ st.head[r.sequence] = [key |-> st.key, sequence |-> r.sequence,
                            alert |-> r.alert_hash, model |-> r.model_hash]

ObjectInv == object # NoObject => WellFormed(object)

\* Until the object exists, sessions come one at a time.
AloneInv ==
  object = NoObject =>
    \A s, t \in Sessions : pc[s] # "idle" /\ pc[t] # "idle" => s = t

ReceiptsInv == \A r \in receipts : object # NoObject /\ Certified(r, object)

\* What a session knows of the object at each point of its command.
CopyInv(s) ==
  /\ cmd[s].op \in {"register", "append"} => s \in Writers
  /\ pc[s] = "create" => object = NoObject /\ \E k \in Keys : state[s] = FreshState(k)
  /\ pc[s] = "act" =>
       /\ object # NoObject
       /\ state[s] # NoObject
       /\ state[s].key = object.key
       /\ s \in Writers => state[s] = object
  /\ pc[s] = "save" =>
       /\ s \in Writers
       /\ object # NoObject
       /\ \/ /\ cmd[s].op = "register"
             /\ ~ ModelConflict(object, cmd[s].model)
             /\ state[s] = Registered(object, cmd[s].model)
          \/ /\ cmd[s].op = "append"
             /\ object.model_registered
             /\ receipt[s] = NextReceipt(object, cmd[s].alert)
             /\ state[s] = AfterReceipt(object, receipt[s])
  /\ pc[s] = "reply" /\ cmd[s].op = "append" /\ result[s] = "SUCCESS" =>
       object # NoObject /\ Certified(receipt[s], object)

\* What VERIFY was asked about, and what it is about to answer.
VerifyInv(s) ==
  /\ cmd[s].op = "verify" => \E q \in receipts : cmd[s].receipt.head = q.head
  /\ pc[s] = "reply" /\ cmd[s].op = "verify" =>
       /\ result[s] = "SUCCESS" => cmd[s].receipt \in receipts
       /\ result[s] = "MAC_INVALID" => cmd[s].receipt \notin receipts

IInv ==
  /\ TypeInv
  /\ ObjectInv
  /\ AloneInv
  /\ ReceiptsInv
  /\ \A s \in Sessions : CopyInv(s) /\ VerifyInv(s)

-----------------------------------------------------------------------------
(* Facts about chains. *)

\* Appending a link keeps every shorter head.
LEMMA PrefixOfAppend ==
  ASSUME NEW h \in Digest, NEW x \in Link, NEW n \in 0..Len(h)
  PROVE  SubSeq(Append(h, x), 1, n) = SubSeq(h, 1, n)
<1> DEFINE g == Append(h, x)
<1>1. /\ g \in Digest
      /\ Len(h) \in Nat
      /\ Len(g) = Len(h) + 1
      /\ \A i \in 1..Len(h) : g[i] = h[i]
  BY AppendProperties, LenProperties DEF Digest
<1>2. \A i \in 1..n : h[i] \in Link /\ g[i] = h[i]
  BY <1>1, ElementOfSeq DEF Digest
<1> HIDE DEF g
<1>3. /\ SubSeq(h, 1, n) \in Seq(Link)
      /\ Len(SubSeq(h, 1, n)) = n
      /\ \A i \in 1..n : SubSeq(h, 1, n)[i] = h[i]
  BY <1>1, <1>2, SubSeqProperties
<1>4. /\ SubSeq(g, 1, n) \in Seq(Link)
      /\ Len(SubSeq(g, 1, n)) = n
      /\ \A i \in 1..n : SubSeq(g, 1, n)[i] = g[i]
  BY <1>1, <1>2, SubSeqProperties
<1>5. SubSeq(g, 1, n) = SubSeq(h, 1, n)
  BY <1>2, <1>3, <1>4, SeqEqual
<1> QED
  BY <1>5 DEF g

\* A head of n links is the head of n - 1 links and the n-th link.
LEMMA LastLink ==
  ASSUME NEW h \in Digest, NEW n \in 1..Len(h)
  PROVE  /\ h[n] \in Link
         /\ SubSeq(h, 1, n - 1) \in Digest
         /\ SubSeq(h, 1, n) = Append(SubSeq(h, 1, n - 1), h[n])
<1>1. Len(h) \in Nat /\ 1 \in 1..Len(h) /\ n \in 1..Len(h)
  BY LenProperties DEF Digest
<1>2. \A i \in 1..Len(h) : h[i] \in Link
  BY ElementOfSeq DEF Digest
<1>3. SubSeq(h, 1, n - 1) \in Seq(Link)
  BY <1>1, <1>2, SubSeqProperties
<1>4. SubSeq(h, 1, n) = SubSeq(h, 1, n - 1) \o << h[n] >>
  BY <1>1, SubSeqRecursiveSecond DEF Digest
<1> QED
  BY <1>1, <1>2, <1>3, <1>4, AppendIsConcat DEF Digest

\* A certified receipt stays certified when the chain grows.
LEMMA CertifiedGrows ==
  ASSUME NEW st \in State, NEW r \in Receipt, Certified(r, st),
         NEW st2 \in State, NEW x \in Link,
         st2.head = Append(st.head, x), st2.key = st.key
  PROVE  Certified(r, st2)
<1>1. /\ st.head \in Digest
      /\ Len(st.head) \in Nat
      /\ Len(st2.head) = Len(st.head) + 1
      /\ \A i \in 1..Len(st.head) : st2.head[i] = st.head[i]
  BY AppendProperties, LenProperties DEF State, Digest
<1>2. r.sequence \in 1..Len(st.head)
  BY DEF Certified, OnChain
<1>3. /\ SubSeq(st2.head, 1, r.sequence) = SubSeq(st.head, 1, r.sequence)
      /\ SubSeq(st2.head, 1, r.sequence - 1) = SubSeq(st.head, 1, r.sequence - 1)
  BY <1>1, <1>2, PrefixOfAppend
<1> QED
  BY <1>1, <1>2, <1>3 DEF Certified, OnChain

\* A certified receipt is genuine: its head is the MAC of its other fields.
LEMMA CertifiedGenuine ==
  ASSUME NEW st \in State, NEW r \in Receipt, Certified(r, st)
  PROVE  Genuine(st, r)
BY LastLink DEF Certified, OnChain, Genuine, ComputeHmac, State

\* The MAC is injective in the message (entry.c compute_hmac).
LEMMA GenuineInjective ==
  ASSUME NEW st1 \in State, NEW st2 \in State, st1.key = st2.key,
         NEW r \in Receipt, NEW q \in Receipt,
         Genuine(st1, r), Genuine(st2, q), r.head = q.head
  PROVE  r = q
<1> DEFINE link(st, x) == [key |-> st.key, sequence |-> x.sequence,
                           alert |-> x.alert_hash, model |-> x.model_hash]
<1>1. link(st1, r) \in Link /\ link(st2, q) \in Link
  BY DEF Link, State, Receipt
<1>2. r.previous_head \in Digest /\ q.previous_head \in Digest
  BY DEF Receipt
<1>3. Append(r.previous_head, link(st1, r)) = Append(q.previous_head, link(st2, q))
  BY DEF Genuine, ComputeHmac
<1>4. r.previous_head = q.previous_head /\ link(st1, r) = link(st2, q)
  BY <1>1, <1>2, <1>3, AppendInjective DEF Digest
<1> QED
  BY <1>4 DEF Receipt

-----------------------------------------------------------------------------
(* The inductive invariant is one. *)

\* The inductive invariant holds at first.
LEMMA SafeInit ==
  ASSUME SafeUse, Init
  PROVE  IInv
<1>1. TypeInv
  BY TypeInit
<1>3. ObjectInv
  BY DEF Init, ObjectInv
<1>a. AloneInv
  BY DEF Init, AloneInv
<1>4. ReceiptsInv
  BY DEF Init, ReceiptsInv
<1>5. \A s \in Sessions : CopyInv(s) /\ VerifyInv(s)
  BY DEF Init, CopyInv, VerifyInv, Idle
<1> QED
  BY <1>1, <1>3, <1>a, <1>4, <1>5 DEF IInv

\* The first session stays alone until it has created the object.
LEMMA AloneNext ==
  ASSUME SafeUse, TypeInv, AloneInv, [Next]_vars
  PROVE  AloneInv'
<1> USE DEF TypeInv, TypeOK
<1>1. ASSUME NEW s \in Sessions, Invoke(s) \/ InvokeMalformed(s) PROVE AloneInv'
  BY <1>1 DEF Invoke, InvokeMalformed, MayOpen, AloneInv, SafeUse
<1>2. ASSUME NEW s \in Sessions,
             \/ Load(s) \/ RegisterModel(s) \/ AppendAlert(s) \/ GetHead(s)
             \/ VerifyReceipt(s) \/ Fail(s) \/ Reply(s) \/ LoseReply(s)
      PROVE  AloneInv'
  <2>1. /\ object' = object /\ pc[s] # "idle"
        /\ \A t \in Sessions \ {s} : pc'[t] = pc[t]
    BY <1>2 DEF Load, RegisterModel, AppendAlert, GetHead, VerifyReceipt, Fail, Reply,
                LoseReply, Forget
  <2> QED
    BY <2>1 DEF AloneInv
<1>3. ASSUME NEW s \in Sessions, Create(s) \/ Save(s) PROVE AloneInv'
  BY <1>3, NoObjectAssumption DEF Create, Save, AloneInv, LocalsInv
<1>4. CASE Crash
  BY <1>4 DEF Crash, AloneInv
<1>5. CASE UNCHANGED vars
  BY <1>5 DEF vars, AloneInv
<1> QED
  BY <1>1, <1>2, <1>3, <1>4, <1>5 DEF Next, Step

\* A step that changes neither the object nor the receipts leaves the other
\* sessions' part of the invariant alone.
LEMMA LocalStep ==
  ASSUME IInv, TypeInv', AloneInv', NEW s \in Sessions,
         UNCHANGED <<object, receipts>>,
         \A t \in Sessions \ {s} :
           /\ pc'[t] = pc[t] /\ cmd'[t] = cmd[t] /\ state'[t] = state[t]
           /\ receipt'[t] = receipt[t] /\ result'[t] = result[t],
         CopyInv(s)', VerifyInv(s)'
  PROVE  IInv'
<1>1. ObjectInv' /\ ReceiptsInv'
  BY DEF IInv, ObjectInv, ReceiptsInv
<1>2. ASSUME NEW t \in Sessions, t # s PROVE CopyInv(t)' /\ VerifyInv(t)'
  <2>1. CopyInv(t) /\ VerifyInv(t)
    BY DEF IInv
  <2>2. /\ pc'[t] = pc[t] /\ cmd'[t] = cmd[t] /\ state'[t] = state[t]
        /\ receipt'[t] = receipt[t] /\ result'[t] = result[t]
        /\ object' = object /\ receipts' = receipts
    BY <1>2
  <2>3. CopyInv(t)'
    BY <2>1, <2>2 DEF CopyInv, Certified, OnChain
  <2>4. VerifyInv(t)'
    BY <2>1, <2>2 DEF VerifyInv
  <2> QED
    BY <2>3, <2>4
<1> QED
  BY <1>1, <1>2 DEF IInv

\* Writing st2 over the chain st loses no receipt.
ChainStep(st, st2) ==
  /\ WellFormed(st2)
  /\ st2.key = st.key
  /\ \A r \in Receipt : Certified(r, st) => Certified(r, st2)

\* What register_model saves is a chain, and changes no link of it.
LEMMA RegisteredChain ==
  ASSUME NEW st \in State, WellFormed(st), NEW m \in Models, ~ ModelConflict(st, m),
         NEW st2, st2 = Registered(st, m)
  PROVE  ChainStep(st, st2)
<1>1. /\ st2.key = st.key /\ st2.head = st.head /\ st2.sequence = st.sequence
      /\ st2.model_hash = m /\ st2.model_registered = TRUE
  BY DEF State, Registered
<1>2. Len(st.head) \in Nat /\ st.sequence = Len(st.head)
  BY LenProperties DEF WellFormed, State, Digest
<1>3. \A i \in 1..Len(st.head) : st.model_hash = m
  BY <1>2 DEF ModelConflict
<1>4. m # NoModel
  BY NoModelAssumption
<1> QED
  BY <1>1, <1>2, <1>3, <1>4 DEF ChainStep, WellFormed, Certified, OnChain

\* What append_alert saves is the chain with one more link, which certifies
\* the receipt.
LEMMA ExtendedChain ==
  ASSUME NEW st \in State, WellFormed(st), st.model_registered = TRUE, NEW a \in Alerts,
         NEW r, r = NextReceipt(st, a), NEW st2, st2 = AfterReceipt(st, r)
  PROVE  ChainStep(st, st2) /\ Certified(r, st2)
<1> DEFINE x == [key |-> st.key, sequence |-> st.sequence + 1,
                 alert |-> a, model |-> st.model_hash]
<1>1. x \in Link /\ st.head \in Digest
  BY DEF Link, State
<1>2. r \in Receipt /\ st2 \in State
  BY NextReceiptType, AfterReceiptType
<1>3. /\ r.sequence = st.sequence + 1 /\ r.previous_head = st.head
      /\ r.alert_hash = a /\ r.model_hash = st.model_hash
      /\ r.head = Append(st.head, x)
  BY DEF NextReceipt, ComputeHmac
<1>4. /\ st2.key = st.key /\ st2.model_hash = st.model_hash
      /\ st2.model_registered = st.model_registered
      /\ st2.sequence = r.sequence /\ st2.head = r.head
  BY DEF AfterReceipt, State
<1>5. /\ Len(st.head) \in Nat /\ st.sequence = Len(st.head)
      /\ Len(st2.head) = Len(st.head) + 1
      /\ st2.head \in Digest
      /\ \A i \in 1..Len(st.head) : st2.head[i] = st.head[i]
      /\ st2.head[Len(st.head) + 1] = x
  BY <1>1, <1>3, <1>4, AppendProperties, LenProperties DEF WellFormed, Digest
<1>6. WellFormed(st2)
  <2>1. ASSUME NEW i \in 1..Len(st2.head)
        PROVE  /\ st2.head[i].key = st2.key
               /\ st2.head[i].sequence = i
               /\ st2.head[i].model = st2.model_hash
    BY <1>4, <1>5, <2>1, SMTT(60) DEF WellFormed
  <2> QED
    BY <1>3, <1>4, <1>5, <2>1 DEF WellFormed
<1>7. Certified(r, st2)
  <2>1. SubSeq(st2.head, 1, r.sequence) = st2.head
    BY <1>3, <1>5, SubSeqFull DEF Digest
  <2>2. SubSeq(st2.head, 1, r.sequence - 1) = st.head
    <3>1. SubSeq(st.head, 1, Len(st.head)) = st.head
      BY <1>1, SubSeqFull DEF Digest
    <3>2. SubSeq(Append(st.head, x), 1, Len(st.head)) = SubSeq(st.head, 1, Len(st.head))
      BY <1>1, <1>5, PrefixOfAppend
    <3> QED
      BY <1>3, <1>4, <1>5, <3>1, <3>2
  <2> QED
    BY <1>3, <1>4, <1>5, <2>1, <2>2 DEF Certified, OnChain
<1>8. \A q \in Receipt : Certified(q, st) => Certified(q, st2)
  BY <1>1, <1>2, <1>3, <1>4, CertifiedGrows
<1> QED
  BY <1>3, <1>4, <1>6, <1>7, <1>8 DEF ChainStep

\* What clients may present to VERIFY has the head of some receipt.
LEMMA PresentableHead ==
  ASSUME receipts \subseteq Receipt, NEW x \in Presentable
  PROVE  \E q \in receipts : x.head = q.head
<1>1. CASE x \in receipts
  BY <1>1
<1>2. CASE \E r \in receipts : x = [r EXCEPT !.sequence = r.sequence + 1]
  BY <1>2 DEF Receipt
<1>3. CASE \E r \in receipts, a \in Alerts : x = [r EXCEPT !.alert_hash = a]
  BY <1>3 DEF Receipt
<1>4. CASE \E r \in receipts, m \in Models : x = [r EXCEPT !.model_hash = m]
  BY <1>4 DEF Receipt
<1>5. CASE \E r \in receipts, q \in receipts : x = [r EXCEPT !.previous_head = q.head]
  BY <1>5 DEF Receipt
<1>6. CASE \E r \in receipts, q \in receipts : x = [r EXCEPT !.head = q.head]
  BY <1>6 DEF Receipt
<1> QED
  BY <1>1, <1>2, <1>3, <1>4, <1>5, <1>6 DEF Presentable

\* What a session is about to save extends or keeps the stored chain.
LEMMA SavedChain ==
  ASSUME IInv, NEW s \in Sessions, pc[s] = "save"
  PROVE  /\ ChainStep(object, state[s])
         /\ cmd[s].op = "append" => Certified(receipt[s], state[s])
<1>1. /\ object \in State /\ WellFormed(object)
      /\ cmd[s] \in Command
      /\ cmd[s].op \in {"register", "append"}
  BY DEF IInv, TypeInv, TypeOK, CopyInv, ObjectInv
<1>2. CASE cmd[s].op = "register"
  <2>1. cmd[s].model \in Models
    BY <1>1, <1>2 DEF Command
  <2>2. ~ ModelConflict(object, cmd[s].model) /\ state[s] = Registered(object, cmd[s].model)
    BY <1>2 DEF IInv, CopyInv
  <2> QED
    BY <1>1, <1>2, <2>1, <2>2, RegisteredChain
<1>3. CASE cmd[s].op = "append"
  <2>1. cmd[s].alert \in Alerts
    BY <1>1, <1>3 DEF Command
  <2>2. /\ object.model_registered = TRUE
        /\ receipt[s] = NextReceipt(object, cmd[s].alert)
        /\ state[s] = AfterReceipt(object, receipt[s])
    BY <1>1, <1>3 DEF IInv, CopyInv, State
  <2> QED
    BY <1>1, <2>1, <2>2, ExtendedChain
<1> QED
  BY <1>1, <1>2, <1>3

\* Every step keeps the inductive invariant.
LEMMA SafeNext ==
  ASSUME SafeUse, IInv, [Next]_vars
  PROVE  IInv'
<1>t. TypeInv /\ TypeInv'
  BY TypeNext DEF IInv
<1>a. AloneInv'
  BY AloneNext DEF IInv
<1> USE <1>t DEF TypeInv, TypeOK, LocalsInv
<1>o. Idle.op = "none"
  BY DEF Idle
<1>k. \A s \in Sessions : CopyInv(s) /\ VerifyInv(s)
  BY DEF IInv
<1>1. ASSUME NEW s \in Sessions, Invoke(s) PROVE IInv'
  <2>1. \A x \in Presentable : \E q \in receipts : x.head = q.head
    BY PresentableHead
  <2>2. /\ pc'[s] = "load" /\ receipts' = receipts
        /\ \/ s \in Writers /\ cmd'[s] \in WriterCommands
           \/ cmd'[s] \in ReaderCommands
    BY <1>1
       DEF Invoke
  <2>3. CopyInv(s)'
    BY <2>2 DEF CopyInv, WriterCommands, ReaderCommands
  <2>4. VerifyInv(s)'
    BY <2>1, <2>2 DEF VerifyInv, WriterCommands, ReaderCommands
  <2> QED
    BY <1>1, <2>3, <2>4, <1>a, LocalStep DEF Invoke
<1>2. ASSUME NEW s \in Sessions, InvokeMalformed(s) PROVE IInv'
  <2>1. CopyInv(s)' /\ VerifyInv(s)'
    BY <1>2, <1>k DEF InvokeMalformed, CopyInv, VerifyInv
  <2> QED
    BY <1>2, <2>1, <1>a, LocalStep DEF InvokeMalformed
<1>3. ASSUME NEW s \in Sessions, Load(s) PROVE IInv'
  <2>1. CopyInv(s)'
    BY <1>3, <1>k DEF Load, CopyInv
  <2>2. VerifyInv(s)'
    BY <1>3, <1>k DEF Load, VerifyInv
  <2> QED
    BY <1>3, <2>1, <2>2, <1>a, LocalStep DEF Load
<1>4. ASSUME NEW s \in Sessions, RegisterModel(s) PROVE IInv'
  <2>a. /\ s \in Writers /\ object # NoObject /\ state[s] = object
        /\ cmd' = cmd /\ object' = object /\ cmd[s].op = "register"
    BY <1>4, <1>k DEF RegisterModel, CopyInv
  <2>b. \/ pc'[s] = "reply"
        \/ /\ pc'[s] = "save"
           /\ ~ ModelConflict(object, cmd[s].model)
           /\ state'[s] = Registered(object, cmd[s].model)
    BY <1>4, <2>a DEF RegisterModel
  <2>c. ModelConflict(object, cmd[s].model)' <=> ModelConflict(object, cmd[s].model)
    BY <2>a DEF ModelConflict
  <2>d. Registered(object, cmd[s].model)' = Registered(object, cmd[s].model)
    BY <2>a DEF Registered
  <2>1. CopyInv(s)'
    BY <2>a, <2>b, <2>c, <2>d DEF CopyInv
  <2>2. VerifyInv(s)'
    BY <1>4, <1>k DEF RegisterModel, VerifyInv
  <2> QED
    BY <1>4, <2>1, <2>2, <1>a, LocalStep DEF RegisterModel
<1>5. ASSUME NEW s \in Sessions, AppendAlert(s) PROVE IInv'
  <2>a. /\ s \in Writers /\ object # NoObject /\ state[s] = object
        /\ cmd' = cmd /\ object' = object /\ cmd[s].op = "append"
    BY <1>5, <1>k DEF AppendAlert, CopyInv
  <2>b. \/ pc'[s] = "reply" /\ result'[s] # "SUCCESS"
        \/ /\ pc'[s] = "save"
           /\ object.model_registered
           /\ receipt'[s] = NextReceipt(object, cmd[s].alert)
           /\ state'[s] = AfterReceipt(object, NextReceipt(object, cmd[s].alert))
    BY <1>5, <2>a DEF AppendAlert
  <2>c. NextReceipt(object, cmd[s].alert)' = NextReceipt(object, cmd[s].alert)
    BY <2>a DEF NextReceipt, ComputeHmac
  <2>d. AfterReceipt(object, receipt[s])' = AfterReceipt(object', receipt'[s])
    BY DEF AfterReceipt
  <2>1. CopyInv(s)'
    BY <2>a, <2>b, <2>c, <2>d DEF CopyInv
  <2>2. VerifyInv(s)'
    BY <1>5, <1>k DEF AppendAlert, VerifyInv
  <2> QED
    BY <1>5, <2>1, <2>2, <1>a, LocalStep DEF AppendAlert
<1>6. ASSUME NEW s \in Sessions, GetHead(s) PROVE IInv'
  <2>1. CopyInv(s)' /\ VerifyInv(s)'
    BY <1>6, <1>k DEF GetHead, CopyInv, VerifyInv
  <2> QED
    BY <1>6, <2>1, <1>a, LocalStep DEF GetHead
<1>7. ASSUME NEW s \in Sessions, VerifyReceipt(s) PROVE IInv'
  <2> DEFINE r == cmd[s].receipt
  <2>1. /\ r \in Receipt /\ state[s] \in State /\ object \in State
        /\ state[s].key = object.key
    BY <1>7, <1>k DEF VerifyReceipt, CopyInv, Command
  <2>2. PICK q \in receipts : r.head = q.head
    BY <1>7, <1>k DEF VerifyReceipt, VerifyInv
  <2>3. \A x \in receipts : Genuine(object, x)
    BY <2>1, CertifiedGenuine DEF IInv, ReceiptsInv
  <2>4. Genuine(state[s], r) => r \in receipts
    BY <2>1, <2>2, <2>3, GenuineInjective
  <2>5. r \in receipts => Genuine(state[s], r)
    BY <2>1, <2>3 DEF Genuine, ComputeHmac
  <2>6. VerifyInv(s)'
    BY <1>7, <1>k, <2>4, <2>5 DEF VerifyReceipt, VerifyInv
  <2>7. CopyInv(s)'
    BY <1>7, <1>k DEF VerifyReceipt, CopyInv
  <2> QED
    BY <1>7, <2>6, <2>7, <1>a, LocalStep DEF VerifyReceipt
<1>8. ASSUME NEW s \in Sessions, Fail(s) PROVE IInv'
  <2>1. CopyInv(s)' /\ VerifyInv(s)'
    BY <1>8, <1>k DEF Fail, CopyInv, VerifyInv
  <2> QED
    BY <1>8, <2>1, <1>a, LocalStep DEF Fail
<1>9. ASSUME NEW s \in Sessions, LoseReply(s) PROVE IInv'
  <2>1. CopyInv(s)' /\ VerifyInv(s)'
    BY <1>9, <1>o DEF LoseReply, Forget, CopyInv, VerifyInv
  <2> QED
    BY <1>9, <2>1, <1>a, LocalStep DEF LoseReply, Forget
\* The object appears: nobody else is there.
<1>10. ASSUME NEW s \in Sessions, Create(s) PROVE IInv'
  <2>1. /\ object = NoObject /\ receipts = {}
        /\ \E k \in Keys : state[s] = FreshState(k)
        /\ \A t \in Sessions \ {s} : pc[t] = "idle"
    BY <1>10, <1>k DEF Create, CopyInv, IInv, AloneInv, ReceiptsInv
  <2>2. object' \in State /\ object' = state[s] /\ object' # NoObject
    BY <1>10, NoObjectAssumption DEF Create
  <2>3. WellFormed(object')
    <3>1. Len(ZeroHead) = 0
      BY EmptySeq DEF ZeroHead
    <3> QED
      BY <2>1, <2>2, <3>1 DEF WellFormed, FreshState
  <2>4. ObjectInv'
    BY <2>2, <2>3 DEF ObjectInv, WellFormed
  <2>5. ReceiptsInv'
    BY <1>10, <2>1 DEF Create, ReceiptsInv
  <2>6. CopyInv(s)' /\ VerifyInv(s)'
    BY <1>10, <1>k, <2>2 DEF Create, CopyInv, VerifyInv
  <2>7. \A t \in Sessions \ {s} : CopyInv(t)' /\ VerifyInv(t)'
    BY <1>10, <1>k, <2>1 DEF Create, CopyInv, VerifyInv
  <2> QED
    BY <1>a, <2>4, <2>5, <2>6, <2>7 DEF IInv
\* The object changes: by the one writer, as the writer's copy says.
<1>11. ASSUME NEW s \in Sessions, Save(s) PROVE IInv'
  <2>1. s \in Writers /\ object # NoObject /\ object \in State /\ WellFormed(object)
    BY <1>11, <1>k DEF Save, CopyInv, IInv, ObjectInv
  <2>2. \A t \in Sessions \ {s} : t \notin Writers
    BY <2>1 DEF SafeUse, OneWriter
  <2>3. /\ WellFormed(state[s])
        /\ state[s].key = object.key
        /\ \A r \in Receipt : Certified(r, object) => Certified(r, state[s])
        /\ cmd[s].op = "append" => Certified(receipt[s], state[s])
    BY <1>11, SavedChain DEF Save, ChainStep
  <2>4. object' = state[s] /\ object' \in State /\ object' # NoObject
    BY <1>11, NoObjectAssumption DEF Save
  <2>5. ObjectInv'
    BY <2>3, <2>4 DEF ObjectInv, WellFormed
  <2>6. \A r \in Receipt : Certified(r, object) => Certified(r, object')
    BY <2>3, <2>4
  <2>7. ReceiptsInv'
    <3>1. \A r \in receipts : Certified(r, object')
      BY <2>6 DEF IInv, ReceiptsInv
    <3> QED
      BY <1>11, <2>4, <3>1 DEF Save, ReceiptsInv, Certified, OnChain
  <2>8. CopyInv(s)'
    <3>1. cmd[s].op = "append" => Certified(receipt[s], object')
      BY <2>3, <2>4
    <3> QED
      BY <1>11, <2>1, <2>4, <3>1 DEF Save, CopyInv, Certified, OnChain
  <2>9. VerifyInv(s)'
    BY <1>11, <1>k DEF Save, VerifyInv, CopyInv
  <2>10. ASSUME NEW t \in Sessions \ {s} PROVE CopyInv(t)' /\ VerifyInv(t)'
    <3>1. /\ pc'[t] = pc[t] /\ cmd'[t] = cmd[t] /\ state'[t] = state[t]
          /\ receipt'[t] = receipt[t] /\ result'[t] = result[t]
          /\ receipts' = receipts
      BY <1>11 DEF Save
    <3>2. CopyInv(t) /\ VerifyInv(t) /\ t \notin Writers
      BY <1>k, <2>2
    <3>3. VerifyInv(t)'
      BY <3>1, <3>2 DEF VerifyInv
    <3>4. CopyInv(t)'
      BY <2>1, <2>3, <2>4, <3>1, <3>2 DEF CopyInv
    <3> QED
      BY <3>3, <3>4
  <2> QED
    BY <1>a, <2>5, <2>7, <2>8, <2>9, <2>10 DEF IInv
\* A receipt is delivered: a certified one, and none that VERIFY refused.
<1>12. ASSUME NEW s \in Sessions, Reply(s) PROVE IInv'
  <2>1. /\ object' = object /\ receipts' = receipts \union Delivered(s)
        /\ \A t \in Sessions \ {s} :
             /\ pc'[t] = pc[t] /\ cmd'[t] = cmd[t] /\ state'[t] = state[t]
             /\ receipt'[t] = receipt[t] /\ result'[t] = result[t]
    BY <1>12 DEF Reply, Forget
  <2>2. \A r \in Delivered(s) : r \in Receipt /\ object # NoObject /\ Certified(r, object)
    BY <1>12, <1>k DEF Reply, Delivered, CopyInv
  <2>3. \A r \in receipts' : r \in Receipt /\ object # NoObject /\ Certified(r, object)
    BY <2>1, <2>2 DEF IInv, ReceiptsInv
  <2>4. ObjectInv' /\ ReceiptsInv'
    <3>1. ObjectInv'
      BY <2>1 DEF IInv, ObjectInv, WellFormed
    <3>2. ReceiptsInv'
      BY <2>1, <2>3 DEF ReceiptsInv, Certified, OnChain
    <3> QED
      BY <3>1, <3>2
  <2>5. CopyInv(s)' /\ VerifyInv(s)'
    BY <1>12, <1>o DEF Reply, Forget, CopyInv, VerifyInv
  <2>6. ASSUME NEW t \in Sessions \ {s} PROVE CopyInv(t)' /\ VerifyInv(t)'
    <3>1. CopyInv(t) /\ VerifyInv(t)
      BY <1>k
    <3>2. CopyInv(t)'
      BY <2>1, <3>1 DEF CopyInv, Certified, OnChain
    <3>3. cmd[t].op = "verify" /\ cmd[t].receipt \in receipts' => cmd[t].receipt \in receipts
      <4> SUFFICES ASSUME cmd[t].op = "verify", cmd[t].receipt \in receipts'
                   PROVE  cmd[t].receipt \in receipts
        OBVIOUS
      <4>1. PICK q \in receipts : cmd[t].receipt.head = q.head
        BY <3>1 DEF VerifyInv
      <4>2. object \in State /\ Genuine(object, cmd[t].receipt) /\ Genuine(object, q)
        BY <2>1, <2>3, <4>1, CertifiedGenuine
      <4> QED
        BY <2>1, <2>3, <4>1, <4>2, GenuineInjective
    <3>4. VerifyInv(t)'
      BY <2>1, <3>1, <3>3 DEF VerifyInv
    <3> QED
      BY <3>2, <3>4
  <2> QED
    BY <1>a, <2>4, <2>5, <2>6 DEF IInv
<1>13. CASE Crash
  <2>1. ObjectInv' /\ ReceiptsInv'
    BY <1>13 DEF Crash, IInv, ObjectInv, ReceiptsInv
  <2>2. \A s \in Sessions : CopyInv(s)' /\ VerifyInv(s)'
    BY <1>13, <1>o DEF Crash, CopyInv, VerifyInv
  <2> QED
    BY <2>1, <2>2, <1>a DEF IInv
<1>14. CASE UNCHANGED vars
  BY <1>a, <1>14 DEF vars, IInv, ObjectInv, ReceiptsInv, CopyInv, VerifyInv
<1> QED
  BY <1>1, <1>2, <1>3, <1>4, <1>5, <1>6, <1>7, <1>8, <1>9, <1>10, <1>11, <1>12,
     <1>13, <1>14 DEF Next, Step

-----------------------------------------------------------------------------
(* What follows for receipts. *)

\* The strengthened invariant holds of every behaviour of safe use.
THEOREM SafeInvariant ==
  ASSUME SafeUse
  PROVE  Spec => []IInv
<1>1. Init => IInv
  BY SafeInit
<1>2. IInv /\ [Next]_vars => IInv'
  BY SafeNext
<1> QED
  BY <1>1, <1>2, PTL DEF Spec

\* Receipts are never taken off the chain, rolled back or replaced by a
\* failed, repeated or interrupted command (entry.c append_alert).
THEOREM ReceiptsStayOnChain ==
  ASSUME SafeUse
  PROVE  Spec => []ReceiptsOnChain
<1>1. IInv => ReceiptsOnChain
  BY DEF IInv, ReceiptsInv, ReceiptsOnChain, Certified
<1> QED
  BY <1>1, SafeInvariant, PTL

\* One place of the chain, one receipt (entry.c append_alert).
THEOREM ChainDoesNotFork ==
  ASSUME SafeUse
  PROVE  Spec => []NoFork
<1>1. IInv => NoFork
  <2> SUFFICES ASSUME IInv, NEW r \in receipts, NEW q \in receipts,
                      r.sequence = q.sequence
               PROVE  r = q
    BY DEF NoFork
  <2>1. object \in State /\ r \in Receipt /\ q \in Receipt
    BY DEF IInv, ReceiptsInv, TypeInv, TypeOK
  <2>2. Certified(r, object) /\ Certified(q, object)
    BY DEF IInv, ReceiptsInv
  <2>3. r.head = q.head
    BY <2>2 DEF Certified, OnChain
  <2> QED
    BY <2>1, <2>2, <2>3, CertifiedGenuine, GenuineInjective
<1> QED
  BY <1>1, SafeInvariant, PTL

\* The key never changes under a receipt (entry.c load_state).
THEOREM ReceiptsRemainGenuine ==
  ASSUME SafeUse
  PROVE  Spec => []ReceiptsStayGenuine
<1>1. IInv => ReceiptsStayGenuine
  BY CertifiedGenuine DEF IInv, TypeInv, TypeOK, ReceiptsInv, ReceiptsStayGenuine
<1> QED
  BY <1>1, SafeInvariant, PTL

\* VERIFY accepts the receipts given out and nothing else (entry.c
\* verify_receipt), while the writer appends.
THEOREM VerificationIsExact ==
  ASSUME SafeUse
  PROVE  Spec => []VerifyExact
<1>1. IInv => VerifyExact
  BY DEF IInv, VerifyInv, VerifyExact
<1> QED
  BY <1>1, SafeInvariant, PTL

-----------------------------------------------------------------------------
(* The chain implements the log. *)

\* The chain starts as an empty log.
LEMMA LogInit == Init => Log!Init
<1> SUFFICES ASSUME Init PROVE LogNow = << >> /\ ModelNow = NoModel /\ Acknowledged = {}
  BY DEF Log!Init
<1>1. LogOf(ZeroHead) = << >>
  BY EmptySeq DEF LogOf, ZeroHead
<1>2. Acknowledged = {}
  BY DEF Init, Acknowledged
<1> QED
  BY <1>1, <1>2 DEF Init, LogNow, ModelNow, FreshState

\* Appending a link appends its entry.
LEMMA LogOfAppend ==
  ASSUME NEW h \in Digest, NEW x \in Link
  PROVE  LogOf(Append(h, x)) = Append(LogOf(h), EntryOf(x))
BY AppendProperties, LenProperties DEF LogOf, Digest

\* Every step is a step of the log or invisible in it.
LEMMA LogNext ==
  ASSUME SafeUse, IInv, [Next]_vars
  PROVE  [Log!Next]_<<LogNow, ModelNow, Acknowledged>>
<1>t. TypeOK /\ TypeOK'
  BY TypeNext DEF IInv, TypeInv
<1>1. ASSUME UNCHANGED <<object, receipts>>
      PROVE  UNCHANGED <<LogNow, ModelNow, Acknowledged>>
  BY <1>1 DEF LogNow, ModelNow, Acknowledged
<1>2. ASSUME NEW s \in Sessions, Create(s)
      PROVE  UNCHANGED <<LogNow, ModelNow, Acknowledged>>
  <2>1. object = NoObject /\ \E k \in Keys : object' = FreshState(k)
    BY <1>2 DEF Create, IInv, CopyInv
  <2>2. LogOf(ZeroHead) = << >>
    BY EmptySeq DEF LogOf, ZeroHead
  <2>3. LogNow' = LogNow /\ ModelNow' = ModelNow
    BY <2>1, <2>2 DEF LogNow, ModelNow, FreshState
  <2>4. Acknowledged' = Acknowledged
    BY <1>2 DEF Create, Acknowledged
  <2> QED
    BY <2>3, <2>4
<1>3. ASSUME NEW s \in Sessions, Save(s)
      PROVE  Log!Next
  <2>1. /\ object \in State /\ object # NoObject /\ WellFormed(object)
        /\ object' = state[s] /\ object' # NoObject
        /\ Acknowledged' = Acknowledged
        /\ cmd[s] \in Command /\ cmd[s].op \in {"register", "append"}
    BY <1>3, <1>t, NoObjectAssumption
       DEF Save, IInv, TypeInv, LocalsInv, TypeOK, CopyInv, ObjectInv, Acknowledged
  <2>2. /\ LogNow = LogOf(object.head) /\ ModelNow = object.model_hash
        /\ LogNow' = LogOf(object'.head) /\ ModelNow' = object'.model_hash
    BY <2>1 DEF LogNow, ModelNow
  <2>3. CASE cmd[s].op = "register"
    <3>1. cmd[s].model \in Models
      BY <2>1, <2>3 DEF Command
    <3>2. ~ ModelConflict(object, cmd[s].model) /\ object' = Registered(object, cmd[s].model)
      BY <1>3, <2>1, <2>3 DEF Save, IInv, CopyInv
    <3>3. object'.head = object.head /\ object'.model_hash = cmd[s].model
      BY <2>1, <3>2 DEF Registered, State
    <3>4. LogNow = << >> \/ ModelNow = cmd[s].model
      <4>1. CASE object.sequence > 0
        BY <2>2, <3>2, <4>1 DEF ModelConflict
      <4>2. CASE ~ (object.sequence > 0)
        <5>1. Len(object.head) = 0
          BY <2>1, <4>2, LenProperties DEF WellFormed, State, Digest
        <5> QED
          BY <2>2, <5>1 DEF LogOf
      <4> QED
        BY <4>1, <4>2
    <3>5. Log!Register(cmd[s].model)
      BY <2>1, <2>2, <3>3, <3>4 DEF Log!Register
    <3> QED
      BY <3>1, <3>5 DEF Log!Next
  <2>4. CASE cmd[s].op = "append"
    <3>1. cmd[s].alert \in Alerts
      BY <2>1, <2>4 DEF Command
    <3>2. /\ object.model_registered = TRUE
          /\ receipt[s] = NextReceipt(object, cmd[s].alert)
          /\ object' = AfterReceipt(object, receipt[s])
      BY <1>3, <2>1, <2>4 DEF Save, IInv, CopyInv, State
    <3> DEFINE x == [key |-> object.key, sequence |-> object.sequence + 1,
                     alert |-> cmd[s].alert, model |-> object.model_hash]
    <3>3. x \in Link /\ object.head \in Digest
      BY <2>1, <3>1 DEF Link, State
    <3>4. object'.head = Append(object.head, x) /\ object'.model_hash = object.model_hash
      BY <2>1, <3>2 DEF AfterReceipt, NextReceipt, ComputeHmac, State
    <3>5. object.model_hash \in Models
      BY <2>1, <3>2 DEF WellFormed, State
    <3>6. LogNow' = Append(LogNow, EntryOf(x))
      BY <2>2, <3>3, <3>4, LogOfAppend
    <3>7. EntryOf(x) = [alert |-> cmd[s].alert, model |-> ModelNow]
      BY <2>2 DEF EntryOf
    <3>8. Log!Accept(cmd[s].alert)
      BY <2>1, <2>2, <3>4, <3>5, <3>6, <3>7 DEF Log!Accept
    <3> QED
      BY <3>1, <3>8 DEF Log!Next
  <2> QED
    BY <2>1, <2>3, <2>4
<1>4. ASSUME NEW s \in Sessions, Reply(s)
      PROVE  Log!Next \/ UNCHANGED <<LogNow, ModelNow, Acknowledged>>
  <2>1. LogNow' = LogNow /\ ModelNow' = ModelNow
    BY <1>4 DEF Reply, LogNow, ModelNow
  <2>2. CASE Delivered(s) = {}
    <3>1. receipts' = receipts
      BY <1>4, <2>2 DEF Reply
    <3> QED
      BY <2>1, <3>1 DEF Acknowledged
  <2>3. CASE Delivered(s) # {}
    <3> DEFINE r == receipt[s]
    <3>1. /\ receipts' = receipts \union {r} /\ object # NoObject
          /\ Certified(r, object) /\ object \in State
      BY <1>4, <1>t, <2>3 DEF Reply, Delivered, IInv, CopyInv, TypeOK
    <3>2. r.sequence \in 1..Len(object.head) /\ Len(object.head) \in Nat
      BY <3>1, LenProperties DEF Certified, OnChain, State, Digest
    <3>3. LogNow = LogOf(object.head)
      BY <3>1 DEF LogNow
    <3>4. /\ r.sequence \in 1..Len(LogNow)
          /\ LogNow[r.sequence] = EntryOf(object.head[r.sequence])
      BY <3>2, <3>3 DEF LogOf
    <3>5. EntryOf(object.head[r.sequence]) = [alert |-> r.alert_hash, model |-> r.model_hash]
      BY <3>1 DEF EntryOf, Certified
    <3>6. Acknowledged' = Acknowledged \union {AcknowledgementOf(r)}
      BY <3>1 DEF Acknowledged
    <3>7. Log!Acknowledge(r.sequence)
      BY <2>1, <3>4, <3>5, <3>6 DEF Log!Acknowledge, AcknowledgementOf
    <3> QED
      BY <3>4, <3>7 DEF Log!Next
  <2> QED
    BY <2>2, <2>3
<1>5. \/ UNCHANGED <<object, receipts>>
      \/ \E s \in Sessions : Create(s) \/ Save(s) \/ Reply(s)
  BY DEF Next, Step, vars, Invoke, InvokeMalformed, Load, RegisterModel, AppendAlert,
         GetHead, VerifyReceipt, Fail, LoseReply, Crash
<1> QED
  BY <1>1, <1>2, <1>3, <1>4, <1>5

\* The TA implements the append-only log of AuditLog.
THEOREM Refinement ==
  ASSUME SafeUse
  PROVE  Spec => ImplementsLog
<1>1. Init => Log!Init
  BY LogInit
<1>2. IInv /\ [Next]_vars => [Log!Next]_<<LogNow, ModelNow, Acknowledged>>
  BY LogNext
<1> QED
  BY <1>1, <1>2, SafeInvariant, PTL DEF Spec, ImplementsLog, Log!Spec, Log!logVars

=============================================================================
