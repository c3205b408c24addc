-------------------------- MODULE AuditStoreProofs --------------------------
(***************************************************************************)
(* What holds of the software audit store for any number of readers, keys, *)
(* models and alerts, when one process alone changes the store.            *)
(***************************************************************************)
EXTENDS AuditStore, SequenceTheorems, WellFoundedInduction, TLAPS

\* Where a process writes the first state of the store, and where it saves a
\* change of it.
Creating == {"create", "write first", "replace first"}

Saving == {"truncate", "write", "replace"}

\* The store is made for one process that changes it; AuditStore lets any
\* number of others read.
OneWriter == \A p, q \in Writers : p = q

\* The links of a state are numbered, and of its key and its model.
Chained(st) ==
  /\ Len(st.head) = st.sequence
  /\ \A i \in 1..st.sequence :
       st.head[i] = [key |-> st.key, sequence |-> i, alert |-> st.head[i].alert,
                     model |-> st.model_hash]
  /\ st.model_registered => st.model_hash \in Models

\* A receipt that stands for an entry of the file.
Stored(r) ==
  r.sequence \in DOMAIN file.head /\ r = RecordOf(file.head, r.sequence).receipt

FileInv ==
  /\ file = NoFile => receipts = {}
  /\ file # NoFile => Chained(file)
  /\ \A r \in receipts : Stored(r)

\* A process that saves is one call ahead of the file.
Registering(p) ==
  /\ receipt[p] = NoReceipt
  /\ \E m \in Models : ~ModelConflict(file, m) /\ state[p] = Registered(file, m)

Appending(p) ==
  \E a \in Alerts : /\ file.model_registered
                    /\ receipt[p] = NextReceipt(file, a)
                    /\ state[p] = AfterReceipt(file, receipt[p])

ProcessInv(p) ==
  /\ pc[p] # "closed" => state[p] \in State
  /\ pc[p] \in Creating =>
       /\ file = NoFile /\ \A q \in Processes \ {p} : pc[q] = "closed"
       /\ \E k \in Keys : state[p] = FreshState(k)
  /\ pc[p] \notin Creating \union {"closed"} => file # NoFile
  /\ pc[p] \notin Saving \union {"return"} => receipt[p] = NoReceipt
  /\ pc[p] \in {"open", "verified"} =>
       /\ Chained(state[p]) /\ IsPrefix(state[p].head, file.head)
       /\ p \in Writers => state[p] = file
  /\ pc[p] \in Saving => p \in Writers /\ (Registering(p) \/ Appending(p))
  /\ pc[p] = "return" =>
       /\ p \in Writers /\ state[p] = file
       /\ receipt[p] # NoReceipt => Stored(receipt[p])
  /\ pc[p] \in {"replace", "replace first"} => temporary = state[p]

IInv == TypeOK /\ FileInv /\ (\A p \in Processes : ProcessInv(p)) /\ ValidExact

-----------------------------------------------------------------------------
(* Types *)

\* An append yields a receipt and the state that goes with it.
LEMMA ReceiptTypes ==
  ASSUME NEW st \in State, NEW a \in Alerts
  PROVE  /\ NextReceipt(st, a) \in Receipt
         /\ AfterReceipt(st, NextReceipt(st, a)) \in State
  <1>1. ComputeHmac(st, st.sequence + 1, st.head, a, st.model_hash) \in Digest
    BY DEF ComputeHmac, State, Digest, Link
  <1>2. NextReceipt(st, a) \in Receipt
    BY <1>1 DEF NextReceipt, Receipt, State
  <1>3. QED BY <1>2 DEF AfterReceipt, Receipt, State

\* A registered state is a state.
LEMMA RegisteredType ==
  ASSUME NEW st \in State, NEW m \in Models \union {NoModel}
  PROVE  Registered(st, m) \in State
  BY DEF Registered, State

\* Editing one line yields a record.
LEMMA EditedType ==
  ASSUME NEW line \in Line, NEW key
  PROVE  Edited(key, line) \subseteq Record
  <1> DEFINE r == line.receipt
  <1>1. r \in Receipt
    BY DEF Line
  <1>2. ForgedHead(key, r) \subseteq Digest
    <2>1. SUFFICES ASSUME NEW k \in Keys
                   PROVE  Append(r.previous_head,
                                 [key |-> k, sequence |-> r.sequence,
                                  alert |-> r.alert_hash, model |-> r.model_hash]) \in Digest
      BY DEF ForgedHead
    <2>2. [key |-> k, sequence |-> r.sequence, alert |-> r.alert_hash,
           model |-> r.model_hash] \in Link
      BY <1>1 DEF Receipt, Link
    <2>3. QED BY <1>1, <2>2 DEF Digest, Receipt
  <1>3. EditedReceipt(key, r) \subseteq Receipt \union {NoReceipt}
    BY <1>1, <1>2 DEF EditedReceipt, Receipt
  <1>4. QED BY <1>1, <1>3 DEF Edited, Record

\* Editing a list of lines yields a list of records.
LEMMA EditedListsType ==
  ASSUME NEW lines \in Seq(Line), NEW key
  PROVE  EditedLists(key, lines) \subseteq Seq(Record)
  <1>1. Line \subseteq Record
    BY DEF Line, Record
  <1>2. lines \in Seq(Record)
    BY <1>1
  <1>3. ASSUME NEW i \in DOMAIN lines
        PROVE  RemoveAt(lines, i) \in Seq(Record)
    BY <1>2 DEF RemoveAt
  <1>4. ASSUME NEW i \in DOMAIN lines
        PROVE  InsertAt(lines, i, lines[i]) \in Seq(Record)
    BY <1>2 DEF InsertAt
  <1>5. ASSUME NEW s \in Seq(Record), NEW i \in DOMAIN s, NEW e \in Record
        PROVE  /\ ReplaceAt(s, i, e) \in Seq(Record)
               /\ DOMAIN ReplaceAt(s, i, e) = DOMAIN s
    <2>1. i \in 1..Len(s)
      OBVIOUS
    <2>2. [s EXCEPT ![i] = e] \in Seq(Record)
      BY <2>1, ExceptSeq
    <2>3. QED BY <2>2 DEF ReplaceAt
  <1>6. ASSUME NEW i \in DOMAIN lines, NEW j \in DOMAIN lines
        PROVE  ReplaceAt(ReplaceAt(lines, i, lines[j]), j, lines[i]) \in Seq(Record)
    <2>1. lines[i] \in Record /\ lines[j] \in Record
      BY <1>2
    <2>2. QED BY <2>1, <1>2, <1>5
  <1>7. ASSUME NEW i \in DOMAIN lines, NEW e \in Edited(key, lines[i])
        PROVE  ReplaceAt(lines, i, e) \in Seq(Record)
    <2>1. lines[i] \in Line
      OBVIOUS
    <2>2. e \in Record
      BY <2>1, EditedType
    <2>3. QED BY <2>2, <1>2, <1>5
  <1>8. QED BY <1>2, <1>3, <1>4, <1>6, <1>7 DEF EditedLists

-----------------------------------------------------------------------------
(* Heads and records *)

\* The receipt in hand and its alert are the record of the new entry.
LEMMA NewRecord ==
  ASSUME NEW st \in State, NEW a \in Alerts, Len(st.head) = st.sequence
  PROVE  LET head == AfterReceipt(st, NextReceipt(st, a)).head
         IN  [alert |-> a, receipt |-> NextReceipt(st, a)] = RecordOf(head, Len(head))
  <1> DEFINE link == [key |-> st.key, sequence |-> st.sequence + 1, alert |-> a,
                      model |-> st.model_hash]
             head == Append(st.head, link)
  <1>1. /\ AfterReceipt(st, NextReceipt(st, a)).head = head
        /\ NextReceipt(st, a) =
             [sequence |-> st.sequence + 1, previous_head |-> st.head, alert_hash |-> a,
              model_hash |-> st.model_hash, head |-> head]
    BY DEF AfterReceipt, NextReceipt, ComputeHmac, State
  <1>2. st.head \in Digest /\ link \in Link
    BY DEF State, Link
  <1>3. /\ Len(head) = st.sequence + 1
        /\ head[Len(head)] = link
        /\ SubSeq(head, 1, Len(head) - 1) = st.head
        /\ SubSeq(head, 1, Len(head)) = head
    BY <1>2 DEF Digest
  <1>4. link.alert = a /\ link.model = st.model_hash
    OBVIOUS
  <1>5. RecordOf(head, Len(head)) = [alert |-> a, receipt |-> NextReceipt(st, a)]
    <2> HIDE DEF link, head
    <2>1. QED BY <1>1, <1>3, <1>4 DEF RecordOf
  <1>6. QED BY <1>1, <1>5

\* A sequence of links and its elements.
LEMMA HeadElements ==
  ASSUME NEW h \in Digest, NEW n \in 0..Len(h)
  PROVE  /\ Len(h) \in Nat /\ \A i \in 1..Len(h) : h[i] \in Link
         /\ SubSeq(h, 1, n) = [i \in 1..n |-> h[i]]
         /\ SubSeq(h, 1, n) \in Digest /\ Len(SubSeq(h, 1, n)) = n
         /\ SubSeq(h, 1, Len(h)) = h
BY DEF Digest

\* A prefix agrees with the whole in each of its elements.
LEMMA PrefixElements ==
  ASSUME NEW g \in Digest, NEW h \in Digest
  PROVE  IsPrefix(g, h) <=> Len(g) <= Len(h) /\ \A i \in 1..Len(g) : g[i] = h[i]
<1>1. Len(g) \in Nat /\ Len(h) \in Nat /\ SubSeq(g, 1, Len(g)) = g
  BY HeadElements
<1>2. g = [i \in 1..Len(g) |-> g[i]]
  BY DEF Digest
<1>3. ASSUME Len(g) <= Len(h)
      PROVE  SubSeq(h, 1, Len(g)) = [i \in 1..Len(g) |-> h[i]]
  BY <1>1, <1>3, HeadElements
<1> QED
  BY <1>1, <1>2, <1>3 DEF IsPrefix

\* A chain that has grown has the prefixes it had.
LEMMA PrefixGrows ==
  ASSUME NEW g \in Digest, NEW h \in Digest, NEW x \in Link, IsPrefix(g, h)
  PROVE  IsPrefix(g, Append(h, x))
<1>1. Append(h, x) \in Digest /\ Len(Append(h, x)) = Len(h) + 1
  BY DEF Digest
<1>2. \A i \in 1..Len(h) : Append(h, x)[i] = h[i]
  BY DEF Digest
<1>3. Len(g) \in Nat /\ Len(h) \in Nat /\ Len(g) <= Len(h) /\ \A i \in 1..Len(g) : g[i] = h[i]
  BY PrefixElements DEF Digest
<1>4. \A i \in 1..Len(g) : g[i] = Append(h, x)[i]
  <2>1. \A i \in 1..Len(g) : i \in 1..Len(h)
    BY <1>3
  <2> QED
    BY <1>2, <1>3, <2>1
<1>5. Len(g) <= Len(Append(h, x))
  BY <1>1, <1>3
<1> QED
  BY <1>1, <1>4, <1>5, PrefixElements

\* A prefix of a prefix is one.
LEMMA PrefixTransitive ==
  ASSUME NEW f \in Digest, NEW g \in Digest, NEW h \in Digest,
         IsPrefix(f, g), IsPrefix(g, h)
  PROVE  IsPrefix(f, h)
<1>1. /\ Len(f) \in Nat /\ Len(g) \in Nat /\ Len(h) \in Nat
      /\ Len(f) <= Len(g) /\ \A i \in 1..Len(f) : f[i] = g[i]
      /\ Len(g) <= Len(h) /\ \A i \in 1..Len(g) : g[i] = h[i]
  BY PrefixElements, HeadElements DEF Digest
<1>2. Len(f) <= Len(h) /\ \A i \in 1..Len(f) : i \in 1..Len(g)
  BY <1>1
<1>3. \A i \in 1..Len(f) : f[i] = h[i]
  BY <1>1, <1>2
<1> QED
  BY <1>2, <1>3, PrefixElements

\* The records of a prefix are those of the whole.
LEMMA RecordOfPrefix ==
  ASSUME NEW g \in Digest, NEW h \in Digest, IsPrefix(g, h), NEW i \in 1..Len(g)
  PROVE  RecordOf(g, i) = RecordOf(h, i)
<1>1. Len(g) \in Nat /\ Len(h) \in Nat /\ Len(g) <= Len(h) /\ \A j \in 1..Len(g) : g[j] = h[j]
  BY PrefixElements, HeadElements
<1>2. /\ i \in 0..Len(g) /\ i \in 0..Len(h) /\ i - 1 \in 0..Len(g) /\ i - 1 \in 0..Len(h)
  BY <1>1
<1>3. SubSeq(g, 1, i) = SubSeq(h, 1, i)
  <2>1. /\ SubSeq(g, 1, i) = [j \in 1..i |-> g[j]]
        /\ SubSeq(h, 1, i) = [j \in 1..i |-> h[j]]
    BY <1>2, HeadElements
  <2> QED
    BY <1>1, <1>2, <2>1
<1>4. SubSeq(g, 1, i - 1) = SubSeq(h, 1, i - 1)
  <2>1. /\ SubSeq(g, 1, i - 1) = [j \in 1..(i - 1) |-> g[j]]
        /\ SubSeq(h, 1, i - 1) = [j \in 1..(i - 1) |-> h[j]]
    BY <1>2, HeadElements
  <2> QED
    BY <1>1, <1>2, <2>1
<1> QED
  BY <1>1, <1>3, <1>4 DEF RecordOf

\* A head of n links is the head of n - 1 links and the n-th link.
LEMMA LastLink ==
  ASSUME NEW h \in Digest, NEW n \in 1..Len(h)
  PROVE  SubSeq(h, 1, n) = Append(SubSeq(h, 1, n - 1), h[n])
<1>1. SubSeq(h, 1, n) = SubSeq(h, 1, n - 1) \o << h[n] >>
  BY SubSeqRecursiveSecond, LenProperties DEF Digest
<1>2. SubSeq(h, 1, n - 1) \in Seq(Link) /\ h[n] \in Link
  BY DEF Digest
<1> QED
  BY <1>1, <1>2, AppendIsConcat

\* The list of the records of a chain is one of records.
LEMMA RecordsOfType ==
  ASSUME NEW h \in Digest
  PROVE  /\ RecordsOf(h) \in Seq(Line) /\ RecordsOf(h) \in Seq(Record)
         /\ Len(RecordsOf(h)) = Len(h)
         /\ \A i \in 1..Len(h) : RecordOf(h, i) \in Line
<1>1. Len(h) \in Nat
  BY DEF Digest
<1>2. ASSUME NEW i \in 1..Len(h)
      PROVE  RecordOf(h, i) \in Line
  <2>1. h[i] \in Link /\ i \in 0..Len(h) /\ i - 1 \in 0..Len(h)
    BY <1>1 DEF Digest
  <2>2. SubSeq(h, 1, i) \in Digest /\ SubSeq(h, 1, i - 1) \in Digest
    BY <2>1, HeadElements
  <2> QED
    BY <2>1, <2>2 DEF RecordOf, Line, Receipt, Link
<1>3. RecordsOf(h) \in [1..Len(h) -> Line]
  BY <1>2 DEF RecordsOf
<1>4. Line \subseteq Record
  BY DEF Line, Record
<1> QED
  BY <1>1, <1>2, <1>3, <1>4, SeqDef, LenProperties

\* A set of numbers that is not empty has a least one.
LEMMA LeastNumber ==
  ASSUME NEW T, T \subseteq Nat, T # {}
  PROVE  \E x \in T : \A y \in T : ~(y < x)
<1> DEFINE R == {p \in Nat \X Nat : p[1] < p[2]}
<1>1. IsWellFoundedOn(R, Nat)
  BY NatLessThanWellFounded DEF OpToRel
<1>2. \E x \in T : \A y \in T : <<y, x>> \notin R
  <2> HIDE DEF R
  <2> QED
    BY <1>1, WFMin
<1>3. \A x, y \in Nat : y < x => <<y, x>> \in R
  OBVIOUS
<1> QED
  BY <1>2, <1>3

-----------------------------------------------------------------------------
(* Verification is exact *)

\* Equal heads have equal previous heads and equal last links.
LEMMA LinkInjective ==
  ASSUME NEW g \in Seq(Link), NEW h \in Seq(Link), NEW x \in Link, NEW y \in Link,
         Append(g, x) = Append(h, y)
  PROVE  g = h /\ x = y
BY AppendInjective

\* A list that is accepted has the heads of the chain: they are compared
\* from the last one back, and the MAC is injective.
LEMMA HeadsAgree ==
  ASSUME NEW st \in State, Chained(st), NEW records \in Seq(Record),
         VerifyChain(st, records), NEW k \in 0..Len(st.head)
  PROVE  PreviousOf(records, k + 1) = SubSeq(st.head, 1, k)
<1> DEFINE h == st.head
           n == Len(h)
           T == {j \in 0..n : PreviousOf(records, n - j + 1) # SubSeq(h, 1, n - j)}
<1>1. h \in Digest /\ n \in Nat /\ SubSeq(h, 1, n) = h
  BY HeadElements DEF State, Digest
<1>2. Len(records) = n /\ PreviousOf(records, n + 1) = h
  BY DEF VerifyChain, Chained
<1>3. ASSUME NEW i \in 1..n, PreviousOf(records, i + 1) = SubSeq(h, 1, i)
      PROVE  PreviousOf(records, i) = SubSeq(h, 1, i - 1)
  <2> DEFINE r == records[i].receipt
             x == [key |-> st.key, sequence |-> r.sequence, alert |-> r.alert_hash,
                   model |-> r.model_hash]
  <2>1. i \in DOMAIN records /\ records[i] \in Record
    BY <1>2
  <2>2. r \in Receipt /\ r.previous_head = PreviousOf(records, i) /\ Genuine(st, r)
    BY <2>1 DEF VerifyChain, Record
  <2>3. PreviousOf(records, i + 1) = r.head
    BY <1>1 DEF PreviousOf
  <2>4. Append(r.previous_head, x) = Append(SubSeq(h, 1, i - 1), h[i])
    BY <1>1, <1>3, <2>2, <2>3, LastLink DEF Genuine, ComputeHmac
  <2>5. /\ r.previous_head \in Seq(Link) /\ x \in Link
        /\ SubSeq(h, 1, i - 1) \in Seq(Link) /\ h[i] \in Link
    <3>1. i - 1 \in 0..Len(h) /\ i \in 1..Len(h)
      BY <1>1
    <3>2. SubSeq(h, 1, i - 1) \in Seq(Link) /\ h[i] \in Link
      BY <1>1, <3>1, HeadElements DEF Digest
    <3>3. r.previous_head \in Seq(Link)
      BY <2>2 DEF Receipt, Digest
    <3>4. x \in Link
      BY <2>2 DEF Receipt, Link, State
    <3> QED
      BY <3>2, <3>3, <3>4
  <2>6. r.previous_head = SubSeq(h, 1, i - 1)
    <3> HIDE DEF x, r, h
    <3> QED
      BY <2>4, <2>5, LinkInjective
  <2> QED
    BY <2>2, <2>6
<1>4. T = {}
  <2> SUFFICES ASSUME T # {} PROVE FALSE
    OBVIOUS
  <2>1. PICK j \in T : \A y \in T : ~(y < j)
    <3>1. T \subseteq Nat
      BY <1>1
    <3> HIDE DEF T
    <3> QED
      BY <3>1, LeastNumber
  <2>2. j \in 0..n /\ PreviousOf(records, n - j + 1) # SubSeq(h, 1, n - j)
    BY <2>1
  <2>3. j # 0
    BY <1>1, <1>2, <2>2
  <2>4. j - 1 \in 0..n /\ j - 1 \notin T
    <3>1. j \in Nat /\ j - 1 \in 0..n /\ j - 1 < j
      BY <1>1, <2>2, <2>3
    <3> HIDE DEF T
    <3> QED
      BY <2>1, <3>1
  <2>5. PreviousOf(records, n - (j - 1) + 1) = SubSeq(h, 1, n - (j - 1))
    BY <2>4
  <2>6. /\ n - j + 1 \in 1..n /\ n - (j - 1) = n - j + 1 /\ (n - j + 1) - 1 = n - j
    BY <1>1, <2>2, <2>3
  <2>7. PreviousOf(records, n - j + 1) = SubSeq(h, 1, (n - j + 1) - 1)
    <3> HIDE DEF n, h, T
    <3> QED
      BY <1>3, <2>5, <2>6
  <2> QED
    BY <2>2, <2>6, <2>7
<1>5. n - k \in 0..n /\ n - (n - k) = k
  BY <1>1
<1> QED
  <2>1. n - k \notin T
    BY <1>4
  <2>2. PreviousOf(records, n - (n - k) + 1) = SubSeq(h, 1, n - (n - k))
    BY <1>5, <2>1
  <2> QED
    BY <1>5, <2>2

\* verify_chain accepts the complete list of the records of its chain.
LEMMA CompleteAccepted ==
  ASSUME NEW st \in State, Chained(st)
  PROVE  VerifyChain(st, RecordsOf(st.head))
<1> DEFINE h == st.head
           records == RecordsOf(h)
<1>1. /\ h \in Digest /\ Len(h) \in Nat /\ Len(h) = st.sequence
      /\ SubSeq(h, 1, Len(h)) = h /\ SubSeq(h, 1, 0) = << >>
  BY HeadElements DEF State, Digest, Chained
<1>2. Len(records) = Len(h) /\ \A i \in 1..Len(h) : records[i] = RecordOf(h, i)
  BY <1>1, RecordsOfType DEF RecordsOf
<1>3. ASSUME NEW i \in 1..(Len(h) + 1)
      PROVE  PreviousOf(records, i) = SubSeq(h, 1, i - 1)
  <2>1. CASE i = 1
    BY <1>1, <2>1 DEF PreviousOf, ZeroHead
  <2>2. CASE i # 1
    <3>1. i - 1 \in 1..Len(h)
      BY <1>1, <2>2
    <3>2. PreviousOf(records, i) = records[i - 1].receipt.head
      BY <2>2 DEF PreviousOf
    <3>3. records[i - 1] = RecordOf(h, i - 1)
      BY <1>2, <3>1
    <3>4. RecordOf(h, i - 1).receipt.head = SubSeq(h, 1, i - 1)
      BY DEF RecordOf
    <3> HIDE DEF records, h
    <3> QED
      BY <3>2, <3>3, <3>4
  <2> QED
    BY <2>1, <2>2
<1>4. ASSUME NEW i \in DOMAIN records
      PROVE  LET r == records[i].receipt
             IN  /\ r # NoReceipt
                 /\ r.sequence = i
                 /\ r.previous_head = PreviousOf(records, i)
                 /\ r.model_hash = st.model_hash
                 /\ r.alert_hash = records[i].alert
                 /\ Genuine(st, r)
  <2> DEFINE r == records[i].receipt
  <2>1. i \in 1..Len(h) /\ records[i] = RecordOf(h, i)
    BY <1>1, <1>2, RecordsOfType
  <2>2. r \in Receipt
    BY <1>1, <2>1, RecordsOfType DEF Line
  <2>3. h[i] = [key |-> st.key, sequence |-> i, alert |-> h[i].alert,
                model |-> st.model_hash]
    BY <1>1, <2>1 DEF Chained
  <2>4. /\ r.sequence = i /\ r.previous_head = SubSeq(h, 1, i - 1)
        /\ r.model_hash = h[i].model /\ r.alert_hash = h[i].alert
        /\ records[i].alert = h[i].alert /\ r.head = SubSeq(h, 1, i)
    BY <2>1 DEF RecordOf
  <2>5. h[i].model = st.model_hash
    BY <2>3
  <2>6. r.head = Append(r.previous_head, h[i])
    BY <1>1, <2>1, <2>4, LastLink
  <2>7. ComputeHmac(st, r.sequence, r.previous_head, r.alert_hash, r.model_hash) = r.head
    BY <2>3, <2>4, <2>5, <2>6 DEF ComputeHmac
  <2>8. PreviousOf(records, i) = SubSeq(h, 1, i - 1)
    BY <1>1, <1>3, <2>1
  <2> HIDE DEF r, records, h
  <2> QED
    BY <2>2, <2>4, <2>5, <2>7, <2>8, NoReceiptAssumption DEF Genuine, r
<1>5. PreviousOf(records, Len(records) + 1) = h
  BY <1>1, <1>2, <1>3
<1> QED
  BY <1>1, <1>2, <1>4, <1>5 DEF VerifyChain

\* And accepts no other list.
LEMMA VerifyExact ==
  ASSUME NEW st \in State, Chained(st), NEW records \in Seq(Record)
  PROVE  VerifyChain(st, records) <=> records = RecordsOf(st.head)
<1> SUFFICES ASSUME VerifyChain(st, records) PROVE records = RecordsOf(st.head)
  BY CompleteAccepted
<1> DEFINE h == st.head
<1>1. /\ h \in Digest /\ Len(h) \in Nat /\ Len(records) = Len(h)
  BY DEF State, Digest, Chained, VerifyChain
<1>2. ASSUME NEW i \in 1..Len(h)
      PROVE  records[i] = RecordOf(h, i)
  <2> DEFINE r == records[i].receipt
  <2>1. i \in DOMAIN records /\ records[i] \in Record
    BY <1>1
  <2>2. /\ r \in Receipt /\ r.sequence = i /\ r.previous_head = PreviousOf(records, i)
        /\ r.model_hash = st.model_hash /\ r.alert_hash = records[i].alert
        /\ Genuine(st, r)
    BY <2>1 DEF VerifyChain, Record
  <2>3. PreviousOf(records, i) = SubSeq(h, 1, i - 1)
    <3>1. i - 1 \in 0..Len(h) /\ (i - 1) + 1 = i
      BY <1>1
    <3> QED
      BY <3>1, HeadsAgree
  <2>4. r.head = SubSeq(h, 1, i)
    <3>1. i \in 0..Len(h) /\ PreviousOf(records, i + 1) = r.head
      BY <1>1 DEF PreviousOf
    <3> QED
      BY <3>1, HeadsAgree
  <2>5. h[i] = [key |-> st.key, sequence |-> i, alert |-> h[i].alert,
                model |-> st.model_hash]
    BY <1>1 DEF Chained
  <2> DEFINE x == [key |-> st.key, sequence |-> r.sequence, alert |-> r.alert_hash,
                   model |-> r.model_hash]
  <2>6. h[i] = x
    <3>1. Append(SubSeq(h, 1, i - 1), x) = Append(SubSeq(h, 1, i - 1), h[i])
      BY <1>1, <2>2, <2>3, <2>4, LastLink DEF Genuine, ComputeHmac
    <3>2. i - 1 \in 0..Len(h) /\ i \in 1..Len(h)
      BY <1>1
    <3>3. SubSeq(h, 1, i - 1) \in Seq(Link) /\ h[i] \in Link
      BY <1>1, <3>2, HeadElements DEF Digest
    <3>4. x \in Link
      BY <2>2 DEF Receipt, Link, State
    <3> HIDE DEF x, r, h
    <3> QED
      BY <3>1, <3>3, <3>4, LinkInjective
  <2>7. h[i].alert = r.alert_hash /\ h[i].model = r.model_hash
    BY <2>6
  <2>8. r = [sequence |-> i, previous_head |-> SubSeq(h, 1, i - 1), alert_hash |-> h[i].alert,
             model_hash |-> h[i].model, head |-> SubSeq(h, 1, i)]
    <3> HIDE DEF x, h
    <3> QED
      BY <2>2, <2>3, <2>4, <2>7 DEF Receipt
  <2>9. records[i] = [alert |-> h[i].alert, receipt |-> r]
    BY <2>1, <2>2, <2>7 DEF Record
  <2> QED
    <3> HIDE DEF r, x, h
    <3> QED
      BY <2>8, <2>9 DEF RecordOf
<1>3. records = [i \in 1..Len(h) |-> records[i]]
  BY <1>1
<1> QED
  BY <1>2, <1>3 DEF RecordsOf

-----------------------------------------------------------------------------
(* Chains and what is saved *)

\* A stored chain has as many links as its sequence number says.
LEMMA ChainedLength ==
  ASSUME NEW st \in State, Chained(st)
  PROVE  /\ st.head \in Digest /\ Len(st.head) \in Nat /\ st.sequence \in Nat
         /\ Len(st.head) = st.sequence /\ DOMAIN st.head = 1..Len(st.head)
BY DEF State, Digest, Chained

\* A fresh chain is chained.
LEMMA FreshChained ==
  ASSUME NEW k \in Keys
  PROVE  FreshState(k) \in State /\ Chained(FreshState(k)) /\ FreshState(k) # NoFile
<1>1. FreshState(k) \in State
  BY DEF FreshState, State, Digest, ZeroHead
<1>2. Len(<< >>) = 0
  OBVIOUS
<1>3. Chained(FreshState(k))
  BY <1>2 DEF FreshState, ZeroHead, Chained
<1> QED
  BY <1>1, <1>3, NoFileAssumption

\* To register a model leaves the links as they are.
LEMMA RegisteredChained ==
  ASSUME NEW st \in State, Chained(st), NEW m \in Models, ~ModelConflict(st, m)
  PROVE  /\ Registered(st, m) \in State /\ Chained(Registered(st, m))
         /\ Registered(st, m).head = st.head
<1> DEFINE next == Registered(st, m)
<1>1. /\ next \in State /\ next.key = st.key /\ next.sequence = st.sequence
      /\ next.head = st.head /\ next.model_hash = m
  BY RegisteredType DEF Registered, State
<1>2. st.sequence \in Nat /\ (st.sequence > 0 => st.model_hash = m)
  BY DEF State, ModelConflict
<1>3. ASSUME NEW i \in 1..st.sequence
      PROVE  st.head[i] = [key |-> st.key, sequence |-> i, alert |-> st.head[i].alert,
                           model |-> m]
  <2>1. st.model_hash = m
    BY <1>2
  <2> QED
    BY <2>1 DEF Chained
<1> HIDE DEF next
<1> QED
  BY <1>1, <1>3 DEF Chained, next

\* To append an alert adds one link, of which the receipt is the record.
LEMMA AppendedChained ==
  ASSUME NEW st \in State, Chained(st), st.model_registered, NEW a \in Alerts
  PROVE  LET r == NextReceipt(st, a)
             next == AfterReceipt(st, r)
         IN  /\ r \in Receipt /\ next \in State /\ Chained(next)
             /\ \E x \in Link : next.head = Append(st.head, x)
             /\ r.sequence \in DOMAIN next.head
             /\ r = RecordOf(next.head, r.sequence).receipt
<1> DEFINE r == NextReceipt(st, a)
           next == AfterReceipt(st, r)
           n == st.sequence
           x == [key |-> st.key, sequence |-> n + 1, alert |-> a, model |-> st.model_hash]
<1>1. r \in Receipt /\ next \in State
  BY ReceiptTypes
<1>2. x \in Link /\ n \in Nat /\ st.head \in Digest /\ Len(st.head) = n
  BY ChainedLength DEF Link, State
<1>3. /\ next.head = Append(st.head, x) /\ next.sequence = n + 1 /\ next.key = st.key
      /\ next.model_hash = st.model_hash /\ next.model_registered = st.model_registered
      /\ r.sequence = n + 1
  BY DEF AfterReceipt, NextReceipt, ComputeHmac, State
<1>4. /\ Len(Append(st.head, x)) = n + 1 /\ Append(st.head, x)[n + 1] = x
      /\ \A i \in 1..n : Append(st.head, x)[i] = st.head[i]
      /\ DOMAIN Append(st.head, x) = 1..(n + 1)
  BY <1>2 DEF Digest
<1>5. Chained(next)
  <2>1. ASSUME NEW i \in 1..(n + 1)
        PROVE  next.head[i] = [key |-> st.key, sequence |-> i, alert |-> next.head[i].alert,
                               model |-> st.model_hash]
    <3>1. CASE i = n + 1
      BY <1>3, <1>4, <3>1
    <3>2. CASE i # n + 1
      <4>1. i \in 1..n
        BY <1>2, <3>2
      <4>2. next.head[i] = st.head[i]
        BY <1>3, <1>4, <4>1
      <4> QED
        BY <4>1, <4>2 DEF Chained
    <3> QED
      BY <3>1, <3>2
  <2> HIDE DEF x, r, next
  <2> QED
    BY <1>3, <1>4, <2>1 DEF Chained
<1>6. r = RecordOf(next.head, n + 1).receipt
  <2>1. [alert |-> a, receipt |-> r] = RecordOf(next.head, Len(next.head))
    BY <1>2, NewRecord
  <2>2. Len(next.head) = n + 1
    BY <1>3, <1>4
  <2> HIDE DEF r, next
  <2>3. [alert |-> a, receipt |-> r].receipt = RecordOf(next.head, n + 1).receipt
    BY <2>1, <2>2
  <2> QED
    BY <2>3
<1>7. r.sequence \in DOMAIN next.head
  BY <1>2, <1>3, <1>4
<1> HIDE DEF r, next, x
<1> QED
  BY <1>1, <1>2, <1>3, <1>5, <1>6, <1>7 DEF r, next, n

\* A receipt that stands for an entry stands for it when the chain grows.
LEMMA StoredGrows ==
  ASSUME NEW g \in Digest, NEW h \in Digest, IsPrefix(g, h), NEW r,
         r.sequence \in DOMAIN g, r = RecordOf(g, r.sequence).receipt
  PROVE  r.sequence \in DOMAIN h /\ r = RecordOf(h, r.sequence).receipt
<1>1. /\ Len(g) \in Nat /\ Len(h) \in Nat /\ Len(g) <= Len(h)
      /\ DOMAIN g = 1..Len(g) /\ DOMAIN h = 1..Len(h)
  BY PrefixElements DEF Digest
<1>2. r.sequence \in 1..Len(g)
  BY <1>1
<1>3. RecordOf(g, r.sequence) = RecordOf(h, r.sequence)
  BY <1>2, RecordOfPrefix
<1> QED
  BY <1>1, <1>2, <1>3

\* What a change of the object means for the file when it is saved.
LEMMA Change ==
  ASSUME IInv, NEW p \in Processes, pc[p] \in Saving
  PROVE  /\ p \in Writers
         /\ file \in State /\ file # NoFile /\ Chained(file)
         /\ state[p] \in State /\ state[p] # NoFile /\ Chained(state[p])
         /\ state[p].head \in Digest /\ file.head \in Digest
         /\ IsPrefix(file.head, state[p].head)
         /\ receipt[p] # NoReceipt =>
              /\ receipt[p].sequence \in DOMAIN state[p].head
              /\ receipt[p] = RecordOf(state[p].head, receipt[p].sequence).receipt
<1>1. /\ p \in Writers /\ (Registering(p) \/ Appending(p))
      /\ file # NoFile /\ file \in State /\ Chained(file)
      /\ state[p] \in State
  BY DEF IInv, ProcessInv, FileInv, TypeOK, Saving, Creating
<1>2. file.head \in Digest /\ state[p].head \in Digest /\ state[p] # NoFile
  BY <1>1, NoFileAssumption DEF State
<1>3. IsPrefix(file.head, file.head)
  <2>1. Len(file.head) \in Nat
    BY <1>2, HeadElements DEF Digest
  <2> QED
    BY <1>2, <2>1, PrefixElements
<1>4. CASE Registering(p)
  <2>1. PICK m \in Models : ~ModelConflict(file, m) /\ state[p] = Registered(file, m)
    BY <1>4 DEF Registering
  <2>2. Chained(state[p]) /\ state[p].head = file.head
    BY <1>1, <2>1, RegisteredChained
  <2>3. receipt[p] = NoReceipt
    BY <1>4 DEF Registering
  <2> QED
    BY <1>1, <1>2, <1>3, <2>2, <2>3
<1>5. CASE Appending(p)
  <2>1. PICK a \in Alerts : /\ file.model_registered
                            /\ receipt[p] = NextReceipt(file, a)
                            /\ state[p] = AfterReceipt(file, receipt[p])
    BY <1>5 DEF Appending
  <2>2. /\ Chained(state[p])
        /\ \E x \in Link : state[p].head = Append(file.head, x)
        /\ receipt[p].sequence \in DOMAIN state[p].head
        /\ receipt[p] = RecordOf(state[p].head, receipt[p].sequence).receipt
    BY <1>1, <2>1, AppendedChained
  <2>3. IsPrefix(file.head, state[p].head)
    BY <1>2, <1>3, <2>2, PrefixGrows
  <2> QED
    BY <1>1, <1>2, <2>2, <2>3
<1> QED
  BY <1>1, <1>4, <1>5

-----------------------------------------------------------------------------
(* The invariant *)

\* What every step leaves alone: the state of the other processes.
LEMMA OthersAlone ==
  ASSUME TypeOK, NEW p \in Processes, Step(p), NEW q \in Processes, q # p
  PROVE  /\ pc'[q] = pc[q] /\ state'[q] = state[q] /\ receipt'[q] = receipt[q]
         /\ presented'[q] = presented[q] /\ valid'[q] = valid[q]
<1>1. /\ DOMAIN pc = Processes /\ DOMAIN state = Processes /\ DOMAIN receipt = Processes
      /\ DOMAIN presented = Processes /\ DOMAIN valid = Processes
  BY DEF TypeOK
<1> QED
  BY <1>1 DEF Step, Goto, Load, Create, RegisterModel, AppendAlert, Truncate, Write, Replace,
     Return, Exit, Forget, Verify, Resume

\* What a rename puts at the path.
LEMMA Renamed ==
  ASSUME OneWriter, IInv, NEW p \in Processes, Replace(p)
  PROVE  /\ file' = state[p] /\ file' \in State /\ file' # NoFile /\ Chained(file')
         /\ pc[p] = "replace first" => file = NoFile /\ receipts = {}
         /\ pc[p] = "replace" => /\ p \in Writers /\ file \in State /\ file # NoFile
                                 /\ file.head \in Digest /\ file'.head \in Digest
                                 /\ IsPrefix(file.head, file'.head)
<1>1. file' = state[p]
  BY DEF Replace, IInv, ProcessInv
<1>2. CASE pc[p] = "replace first"
  <2>1. file = NoFile /\ receipts = {} /\ \E k \in Keys : state[p] = FreshState(k)
    BY <1>2 DEF IInv, ProcessInv, FileInv, Creating
  <2>2. state[p] \in State /\ Chained(state[p]) /\ state[p] # NoFile
    BY <2>1, FreshChained
  <2> QED
    BY <1>1, <1>2, <2>1, <2>2
<1>3. CASE pc[p] = "replace"
  <2>1. pc[p] \in Saving
    BY <1>3 DEF Saving
  <2> QED
    BY <1>1, <1>3, <2>1, Change
<1> QED
  BY <1>2, <1>3 DEF Replace

\* The types, of which the one that matters is the file: it is never left
\* incomplete.
LEMMA TypeNext ==
  ASSUME OneWriter, IInv, NEW p \in Processes, Step(p)
  PROVE  TypeOK'
<1>t. TypeOK
  BY DEF IInv
<1>s. pc[p] # "closed" => state[p] \in State
  BY DEF IInv, ProcessInv
<1>1. CASE Load(p)
  <2>1. file \in State
    BY <1>1, <1>t DEF Load, TypeOK
  <2> QED
    BY <1>1, <1>t, <2>1 DEF Load, Goto, TypeOK
<1>2. CASE Create(p)
  <2>1. PICK k \in Keys : state' = [state EXCEPT ![p] = FreshState(k)]
    BY <1>2 DEF Create
  <2>2. FreshState(k) \in State
    BY FreshChained
  <2> QED
    BY <1>2, <1>t, <2>1, <2>2 DEF Create, Goto, TypeOK
<1>3. ASSUME NEW m \in Models, RegisterModel(p, m)
      PROVE  TypeOK'
  <2>1. Registered(state[p], m) \in State
    BY <1>3, <1>s, RegisteredType DEF RegisterModel
  <2> QED
    BY <1>3, <1>t, <2>1 DEF RegisterModel, Goto, TypeOK
<1>4. ASSUME NEW a \in Alerts, AppendAlert(p, a)
      PROVE  TypeOK'
  <2>1. /\ NextReceipt(state[p], a) \in Receipt
        /\ AfterReceipt(state[p], NextReceipt(state[p], a)) \in State
    BY <1>4, <1>s, ReceiptTypes DEF AppendAlert
  <2> QED
    BY <1>4, <1>t, <2>1 DEF AppendAlert, Goto, TypeOK
<1>5. CASE Truncate(p)
  BY <1>5, <1>t DEF Truncate, Goto, TypeOK
<1>6. CASE Write(p)
  BY <1>6, <1>t DEF Write, Goto, TypeOK
<1>7. CASE Replace(p)
  <2>1. file' \in State
    BY <1>7, Renamed
  <2> QED
    BY <1>7, <1>t, <2>1 DEF Replace, Goto, TypeOK
<1>8. CASE Return(p)
  BY <1>8, <1>t DEF Return, Goto, TypeOK
<1>9. CASE Exit(p)
  <2>1. << >> \in Seq(Record)
    OBVIOUS
  <2> QED
    BY <1>9, <1>t, <2>1 DEF Exit, Forget, Goto, TypeOK
<1>10. CASE Verify(p)
  <2>1. file \in State
    BY <1>10, <1>t DEF Verify, TypeOK
  <2>2. RecordsOf(file.head) \in Seq(Line)
    BY <2>1, RecordsOfType DEF State
  <2>3. EditedLists(file.key, RecordsOf(file.head)) \subseteq Seq(Record)
    BY <2>2, EditedListsType
  <2>4. PICK records \in Seq(Record) :
          /\ presented' = [presented EXCEPT ![p] = records]
          /\ valid' = [valid EXCEPT ![p] = VerifyChain(state[p], records)]
    BY <1>10, <2>3 DEF Verify
  <2>5. VerifyChain(state[p], records) \in BOOLEAN
    BY DEF VerifyChain
  <2> QED
    BY <1>10, <1>t, <2>4, <2>5 DEF Verify, Goto, TypeOK
<1>11. CASE Resume(p)
  <2>1. << >> \in Seq(Record)
    OBVIOUS
  <2> QED
    BY <1>11, <1>t, <2>1 DEF Resume, Goto, TypeOK
<1> QED
  BY <1>1, <1>2, <1>3, <1>4, <1>5, <1>6, <1>7, <1>8, <1>9, <1>10, <1>11 DEF Step

\* The file stays a chain and keeps every entry a receipt stands for.
LEMMA FileNext ==
  ASSUME OneWriter, IInv, NEW p \in Processes, Step(p)
  PROVE  FileInv'
<1>1. CASE Replace(p)
  <2>1. receipts' = receipts /\ Chained(file') /\ file' # NoFile
    BY <1>1, Renamed DEF Replace
  <2>2. ASSUME NEW r \in receipts
        PROVE  Stored(r)'
    <3>1. pc[p] = "replace"
      BY <1>1, Renamed DEF Replace
    <3>2. r.sequence \in DOMAIN file.head /\ r = RecordOf(file.head, r.sequence).receipt
      BY DEF IInv, FileInv, Stored
    <3>3. r.sequence \in DOMAIN file'.head /\ r = RecordOf(file'.head, r.sequence).receipt
      BY <1>1, <3>1, <3>2, Renamed, StoredGrows
    <3> QED
      BY <3>3 DEF Stored
  <2> QED
    BY <2>1, <2>2 DEF FileInv, Chained
<1>2. CASE Return(p)
  <2>1. file' = file /\ file # NoFile /\ (receipt[p] # NoReceipt => Stored(receipt[p]))
    BY <1>2 DEF Return, IInv, ProcessInv, Creating
  <2>2. \A r \in receipts' : Stored(r)
    BY <1>2, <2>1 DEF Return, IInv, FileInv
  <2> QED
    BY <2>1, <2>2 DEF IInv, FileInv, Chained, Stored
<1>3. CASE ~ Replace(p) /\ ~ Return(p)
  <2>1. file' = file /\ receipts' = receipts
    BY <1>3 DEF Step, Load, Create, RegisterModel, AppendAlert, Truncate, Write, Exit, Verify,
       Resume
  <2> QED
    BY <2>1 DEF IInv, FileInv, Chained, Stored
<1> QED
  BY <1>1, <1>2, <1>3

\* A process is not disturbed by what another one does.
LEMMA OthersNext ==
  ASSUME OneWriter, IInv, NEW p \in Processes, Step(p), NEW q \in Processes, q # p
  PROVE  ProcessInv(q)'
<1>o. /\ pc'[q] = pc[q] /\ state'[q] = state[q] /\ receipt'[q] = receipt[q]
      /\ ProcessInv(q) /\ ProcessInv(p)
  BY OthersAlone DEF IInv
<1>w. ~ (p \in Writers /\ q \in Writers)
  BY DEF OneWriter
<1>c. pc[q] \notin Creating
  <2>1. SUFFICES ASSUME pc[q] \in Creating PROVE FALSE
    OBVIOUS
  <2>2. file = NoFile /\ pc[p] = "closed" /\ pc[q] # "closed"
    BY <1>o, <2>1 DEF ProcessInv, Creating
  <2> QED
    BY <2>2 DEF Step, Load, Create, RegisterModel, AppendAlert, Truncate, Write, Replace,
       Return, Exit, Verify, Resume
<1>d. pc[p] \in Creating => pc[q] = "closed"
  BY <1>o DEF ProcessInv
<1>1. CASE Replace(p)
  <2>1. file' # NoFile
    BY <1>1, Renamed
  <2>2. CASE pc[q] = "closed"
    BY <1>o, <2>1, <2>2 DEF ProcessInv, Creating, Saving
  <2>3. CASE pc[q] # "closed"
    <3>1. pc[p] = "replace"
      BY <1>1, <1>d, <2>3 DEF Replace, Creating
    <3>2. /\ p \in Writers /\ file.head \in Digest /\ file'.head \in Digest
          /\ IsPrefix(file.head, file'.head) /\ q \notin Writers
      BY <1>1, <1>w, <3>1, Renamed
    <3>3. pc[q] \in {"open", "verified"}
      <4>1. pc[q] \notin Saving /\ pc[q] # "return"
        BY <1>o, <3>2 DEF ProcessInv
      <4>2. pc[q] \in {"closed", "create", "write first", "replace first", "open",
                       "truncate", "write", "replace", "return", "verified"}
        BY DEF IInv, TypeOK
      <4> QED
        BY <1>c, <2>3, <4>1, <4>2 DEF Saving, Creating
    <3>4. /\ state[q] \in State /\ Chained(state[q]) /\ IsPrefix(state[q].head, file.head)
          /\ receipt[q] = NoReceipt
      BY <1>o, <3>3 DEF ProcessInv, Saving
    <3>5. IsPrefix(state[q].head, file'.head)
      <4>1. state[q].head \in Digest
        BY <3>4 DEF State
      <4> QED
        BY <3>2, <3>4, <4>1, PrefixTransitive
    <3>6. Chained(state[q])'
      BY <1>o, <3>4 DEF Chained
    <3> QED
      BY <1>o, <2>1, <3>2, <3>3, <3>4, <3>5, <3>6 DEF ProcessInv, Creating, Saving
  <2> QED
    BY <2>2, <2>3
<1>2. CASE ~ Replace(p)
  <2>1. file' = file
    BY <1>2 DEF Step, Load, Create, RegisterModel, AppendAlert, Truncate, Write, Return, Exit,
       Verify, Resume
  <2>2. pc[q] \in {"replace", "replace first"} => temporary' = temporary
    <3>1. SUFFICES ASSUME pc[q] = "replace" PROVE temporary' = temporary
      BY <1>c DEF Creating
    <3>2. q \in Writers
      BY <1>o, <3>1 DEF ProcessInv, Saving
    <3>3. pc[p] \notin Saving \union Creating
      BY <1>o, <1>w, <1>d, <3>1, <3>2 DEF ProcessInv
    <3> QED
      BY <1>2, <3>3 DEF Step, Load, Create, RegisterModel, AppendAlert, Truncate, Write, Return,
         Exit, Verify, Resume, Creating, Saving
  <2>3. /\ Registering(q)' <=> Registering(q)
        /\ Appending(q)' <=> Appending(q)
        /\ Chained(state[q])' <=> Chained(state[q])
        /\ Stored(receipt[q])' <=> Stored(receipt[q])
    BY <1>o, <2>1 DEF Registering, Appending, Chained, Stored
  <2> QED
    BY <1>o, <1>c, <2>1, <2>2, <2>3 DEF ProcessInv
<1> QED
  BY <1>1, <1>2

\* A process of which every label says something loses nothing by its step.
LEMMA OwnNext ==
  ASSUME OneWriter, IInv, NEW p \in Processes, Step(p)
  PROVE  ProcessInv(p)'
<1>t. /\ TypeOK /\ TypeOK' /\ ProcessInv(p) /\ FileInv
      /\ p \in DOMAIN pc /\ p \in DOMAIN state /\ p \in DOMAIN receipt
  BY TypeNext DEF IInv, TypeOK
<1>f. file # NoFile => file \in State /\ Chained(file) /\ IsPrefix(file.head, file.head)
  <2>1. SUFFICES ASSUME file # NoFile
                 PROVE  file \in State /\ Chained(file) /\ IsPrefix(file.head, file.head)
    OBVIOUS
  <2>2. file \in State /\ Chained(file) /\ file.head \in Digest
    BY <1>t, <2>1 DEF TypeOK, FileInv, State
  <2> QED
    BY <2>2, PrefixElements, HeadElements DEF Digest
<1>1. CASE Load(p)
  <2>1. /\ pc'[p] = "open" /\ state'[p] = file /\ file' = file /\ file # NoFile
        /\ receipt'[p] = NoReceipt
    BY <1>1, <1>t DEF Load, Goto, ProcessInv, Saving
  <2>2. Chained(state[p])'
    BY <1>f, <2>1 DEF Chained
  <2> QED
    BY <1>f, <2>1, <2>2 DEF ProcessInv, Creating, Saving
<1>2. CASE Create(p)
  <2>1. /\ pc'[p] = "create" /\ file = NoFile /\ file' = file
        /\ \E k \in Keys : state'[p] = FreshState(k)
        /\ receipt'[p] = NoReceipt
        /\ \A q \in Processes \ {p} : pc'[q] = "closed"
    BY <1>2, <1>t DEF Create, Goto, ProcessInv, Saving, TypeOK
  <2>2. state'[p] \in State
    BY <2>1, FreshChained
  <2> QED
    BY <2>1, <2>2 DEF ProcessInv, Creating, Saving
<1>3. ASSUME p \in Writers, NEW m \in Models, RegisterModel(p, m)
      PROVE  ProcessInv(p)'
  <2>1. /\ pc'[p] = "truncate" /\ file # NoFile /\ file' = file /\ state[p] = file
        /\ ~ModelConflict(file, m) /\ state'[p] = Registered(file, m)
        /\ receipt'[p] = NoReceipt
    BY <1>3, <1>t DEF RegisterModel, Goto, ProcessInv, Creating, Saving
  <2>2. Registering(p)'
    BY <2>1 DEF Registering
  <2>3. state'[p] \in State
    BY <1>f, <2>1, RegisteredType
  <2> QED
    BY <1>3, <2>1, <2>2, <2>3 DEF ProcessInv, Creating, Saving
<1>4. ASSUME p \in Writers, NEW a \in Alerts, AppendAlert(p, a)
      PROVE  ProcessInv(p)'
  <2>1. /\ pc'[p] = "truncate" /\ file # NoFile /\ file' = file /\ state[p] = file
        /\ file.model_registered
        /\ receipt'[p] = NextReceipt(file, a)
        /\ state'[p] = AfterReceipt(file, receipt'[p])
    BY <1>4, <1>t DEF AppendAlert, Goto, ProcessInv, Creating
  <2>2. Appending(p)'
    BY <2>1 DEF Appending
  <2>3. state'[p] \in State
    BY <1>f, <2>1, ReceiptTypes
  <2> QED
    BY <1>4, <2>1, <2>2, <2>3 DEF ProcessInv, Creating, Saving
<1>5. ASSUME Truncate(p) \/ Write(p)
      PROVE  ProcessInv(p)'
  <2>1. file' = file /\ state' = state /\ receipt' = receipt
    BY <1>5 DEF Truncate, Write
  <2>2. \/ /\ pc[p] \in Creating /\ pc'[p] \in Creating
           /\ pc' = [pc EXCEPT ![p] = pc'[p]]
        \/ /\ pc[p] \in Saving /\ pc'[p] \in Saving
    BY <1>5, <1>t DEF Truncate, Write, Goto, Creating, Saving
  <2>3. pc'[p] \in {"replace", "replace first"} => temporary' = state'[p]
    BY <1>5, <1>t DEF Truncate, Write, Goto
  <2>4. /\ Registering(p)' <=> Registering(p)
        /\ Appending(p)' <=> Appending(p)
    BY <2>1 DEF Registering, Appending
  <2>5. CASE pc[p] \in Creating /\ pc'[p] \in Creating /\ pc' = [pc EXCEPT ![p] = pc'[p]]
    <3>1. /\ file = NoFile /\ state[p] \in State /\ receipt[p] = NoReceipt
          /\ \E k \in Keys : state[p] = FreshState(k)
          /\ \A q \in Processes \ {p} : pc[q] = "closed"
      BY <1>t, <2>5 DEF ProcessInv, Creating, Saving
    <3>2. \A q \in Processes \ {p} : pc'[q] = "closed"
      BY <1>t, <2>5, <3>1 DEF TypeOK
    <3> QED
      BY <2>1, <2>3, <2>5, <3>1, <3>2 DEF ProcessInv, Creating, Saving
  <2>6. CASE pc[p] \in Saving /\ pc'[p] \in Saving
    BY <1>t, <2>1, <2>3, <2>4, <2>6 DEF ProcessInv, Creating, Saving
  <2> QED
    BY <2>2, <2>5, <2>6
<1>6. CASE Replace(p)
  <2>1. /\ file' = state[p] /\ state' = state /\ receipt' = receipt /\ file' # NoFile
        /\ file' \in State /\ Chained(file')
    BY <1>6, Renamed DEF Replace
  <2>2. Chained(state[p])'
    BY <2>1 DEF Chained
  <2>3. CASE pc[p] = "replace"
    <3>1. pc'[p] = "return" /\ pc[p] \in Saving
      BY <1>6, <1>t, <2>3 DEF Replace, Goto, Saving
    <3>2. /\ p \in Writers
          /\ receipt[p] # NoReceipt =>
               /\ receipt[p].sequence \in DOMAIN state[p].head
               /\ receipt[p] = RecordOf(state[p].head, receipt[p].sequence).receipt
      BY <3>1, Change
    <3>3. receipt'[p] # NoReceipt => Stored(receipt[p])'
      BY <2>1, <3>2 DEF Stored
    <3> QED
      BY <2>1, <3>1, <3>2, <3>3 DEF ProcessInv, Creating, Saving
  <2>4. CASE pc[p] = "replace first"
    <3>1. pc'[p] = "open" /\ receipt[p] = NoReceipt
      BY <1>6, <1>t, <2>4 DEF Replace, Goto, ProcessInv, Saving
    <3>2. IsPrefix(file'.head, file'.head)
      <4>1. file'.head \in Digest
        BY <2>1 DEF State
      <4> QED
        BY <4>1, PrefixElements, HeadElements DEF Digest
    <3> QED
      BY <2>1, <2>2, <3>1, <3>2 DEF ProcessInv, Creating, Saving
  <2> QED
    BY <1>6, <2>3, <2>4 DEF Replace
<1>7. CASE Return(p)
  <2>1. /\ pc'[p] = "open" /\ receipt'[p] = NoReceipt /\ file' = file /\ state' = state
        /\ state[p] = file /\ file # NoFile
    BY <1>7, <1>t DEF Return, Goto, ProcessInv, Creating
  <2>2. Chained(state[p])'
    BY <1>f, <2>1 DEF Chained
  <2> QED
    BY <1>f, <2>1, <2>2 DEF ProcessInv, Creating, Saving
<1>8. CASE Exit(p)
  BY <1>8, <1>t DEF Exit, Forget, Goto, ProcessInv, Creating, Saving
<1>9. ASSUME Verify(p) \/ Resume(p)
      PROVE  ProcessInv(p)'
  <2>1. /\ pc[p] \in {"open", "verified"} /\ pc'[p] \in {"open", "verified"}
        /\ file' = file /\ state' = state /\ receipt' = receipt
    BY <1>9, <1>t DEF Verify, Resume, Goto
  <2>2. Chained(state[p])' <=> Chained(state[p])
    BY <2>1 DEF Chained
  <2> QED
    BY <1>t, <2>1, <2>2 DEF ProcessInv, Creating, Saving
<1> QED
  BY <1>1, <1>2, <1>3, <1>4, <1>5, <1>6, <1>7, <1>8, <1>9 DEF Step

\* What verify_chain said stands as long as the process stands on it.
LEMMA VerdictNext ==
  ASSUME OneWriter, IInv, NEW p \in Processes, Step(p)
  PROVE  ValidExact'
<1>t. TypeOK /\ TypeOK'
  BY TypeNext DEF IInv
<1>1. ASSUME NEW q \in Processes, q # p, pc'[q] = "verified"
      PROVE  valid'[q] <=> presented'[q] = RecordsOf(state'[q].head)
  BY <1>1, <1>t, OthersAlone DEF IInv, ValidExact
<1>2. ASSUME pc'[p] = "verified"
      PROVE  valid'[p] <=> presented'[p] = RecordsOf(state'[p].head)
  <2>1. Verify(p)
    BY <1>2, <1>t DEF Step, Goto, Load, Create, RegisterModel, AppendAlert, Truncate, Write,
       Replace, Return, Exit, Forget, Resume, TypeOK
  <2>2. PICK records : /\ presented' = [presented EXCEPT ![p] = records]
                       /\ valid' = [valid EXCEPT ![p] = VerifyChain(state[p], records)]
    BY <2>1 DEF Verify
  <2>3. /\ presented'[p] = records /\ valid'[p] = VerifyChain(state[p], records)
        /\ records \in Seq(Record) /\ state' = state
    BY <1>t, <2>1, <2>2 DEF TypeOK, Verify
  <2>4. state[p] \in State /\ Chained(state[p])
    BY <2>1 DEF Verify, IInv, ProcessInv
  <2>5. VerifyChain(state[p], records) <=> records = RecordsOf(state[p].head)
    BY <2>3, <2>4, VerifyExact
  <2> QED
    BY <2>3, <2>5
<1> QED
  BY <1>1, <1>2 DEF ValidExact

\* The invariant holds initially.
LEMMA InvInit == Init => IInv
<1> SUFFICES ASSUME Init PROVE IInv
  OBVIOUS
<1>1. TypeOK
  <2>1. << >> \in Seq(Record)
    OBVIOUS
  <2> QED
    BY <2>1 DEF Init, TypeOK
<1>2. FileInv
  BY DEF Init, FileInv
<1>3. ASSUME NEW p \in Processes
      PROVE  ProcessInv(p)
  BY DEF Init, ProcessInv, Creating, Saving
<1>4. ValidExact
  BY DEF Init, ValidExact
<1> QED
  BY <1>1, <1>2, <1>3, <1>4 DEF IInv

\* And is preserved by every step.
LEMMA InvNext ==
  ASSUME OneWriter
  PROVE  IInv /\ [Next]_vars => IInv'
<1> SUFFICES ASSUME IInv, [Next]_vars PROVE IInv'
  OBVIOUS
<1>1. ASSUME NEW p \in Processes, Step(p)
      PROVE  IInv'
  <2>1. TypeOK' /\ FileInv' /\ ValidExact'
    BY <1>1, TypeNext, FileNext, VerdictNext
  <2>2. ASSUME NEW q \in Processes
        PROVE  ProcessInv(q)'
    BY <1>1, OthersNext, OwnNext
  <2> QED
    BY <2>1, <2>2 DEF IInv
<1>2. CASE UNCHANGED vars
  <2>1. TypeOK' /\ FileInv' /\ ValidExact'
    BY <1>2 DEF vars, IInv, TypeOK, FileInv, Chained, Stored, ValidExact
  <2>2. ASSUME NEW q \in Processes
        PROVE  ProcessInv(q)'
    BY <1>2 DEF vars, IInv, ProcessInv, Registering, Appending, Chained, Stored
  <2> QED
    BY <2>1, <2>2 DEF IInv
<1> QED
  BY <1>1, <1>2 DEF Next

-----------------------------------------------------------------------------
(* What is said of the store *)

\* A valid list starts the stored one.
LEMMA ValidStored == IInv => ValidIsStored
<1> SUFFICES ASSUME IInv, NEW p \in Processes, pc[p] = "verified", valid[p]
             PROVE  IsPrefix(presented[p], RecordsOf(file.head))
  BY DEF ValidIsStored
<1> DEFINE g == state[p].head
           h == file.head
<1>1. /\ state[p] \in State /\ IsPrefix(g, h) /\ file # NoFile /\ file \in State
      /\ presented[p] = RecordsOf(g)
  BY DEF IInv, ProcessInv, Creating, TypeOK, ValidExact
<1>2. g \in Digest /\ h \in Digest
  BY <1>1 DEF State
<1>3. Len(g) \in Nat /\ Len(h) \in Nat /\ Len(g) <= Len(h)
  BY <1>1, <1>2, PrefixElements, HeadElements DEF Digest
<1>4. \A i \in 1..Len(g) : RecordOf(g, i) = RecordOf(h, i)
  BY <1>1, <1>2, RecordOfPrefix
<1>5. /\ RecordsOf(h) \in Seq(Record) /\ Len(RecordsOf(h)) = Len(h)
      /\ Len(RecordsOf(g)) = Len(g)
  BY <1>2, RecordsOfType
<1>6. SubSeq(RecordsOf(h), 1, Len(g)) = [i \in 1..Len(g) |-> RecordsOf(h)[i]]
  BY <1>3, <1>5
<1>7. \A i \in 1..Len(g) : RecordsOf(h)[i] = RecordOf(g, i)
  BY <1>3, <1>4 DEF RecordsOf
<1>8. SubSeq(RecordsOf(h), 1, Len(g)) = RecordsOf(g)
  BY <1>6, <1>7 DEF RecordsOf
<1>9. IsPrefix(RecordsOf(g), RecordsOf(h))
  <2> HIDE DEF g, h
  <2> QED
    BY <1>3, <1>5, <1>8 DEF IsPrefix
<1> QED
  BY <1>1, <1>9

\* The inductive invariant: a process that saves is one call ahead of the
\* file, and of what a reader has loaded the file is a continuation.
THEOREM Invariant ==
  ASSUME OneWriter
  PROVE  Spec => []IInv
<1>1. Init => IInv
  BY InvInit
<1>2. IInv /\ [Next]_vars => IInv'
  BY InvNext
<1> QED
  BY <1>1, <1>2, PTL DEF Spec

\* The path never holds an incomplete file, whatever is interrupted when
\* (audit_store.py:42-49).
THEOREM TypeCorrect ==
  ASSUME OneWriter
  PROVE  Spec => []TypeOK
<1>1. IInv => TypeOK
  BY DEF IInv
<1> QED
  BY <1>1, Invariant, PTL

\* Every receipt that append returned is in the file (audit_store.py:65-84).
THEOREM ReturnedIsStored ==
  ASSUME OneWriter
  PROVE  Spec => []ReceiptsStored
<1>1. IInv => ReceiptsStored
  BY DEF IInv, FileInv, Stored, ReceiptsStored
<1> QED
  BY <1>1, Invariant, PTL

\* verify_chain accepts the records of the chain of its object and no other
\* list (audit_store.py:86-118).
THEOREM VerificationExact ==
  ASSUME OneWriter
  PROVE  Spec => []ValidExact
<1>1. IInv => ValidExact
  BY DEF IInv
<1> QED
  BY <1>1, Invariant, PTL

\* What a reader that loaded the file earlier accepts is in the file, from
\* the first record on (audit_store.py:101-118).
THEOREM VerifiedIsStored ==
  ASSUME OneWriter
  PROVE  Spec => []ValidIsStored
BY ValidStored, Invariant, PTL

-----------------------------------------------------------------------------
(* The store implements the log *)

EntryOf(x) == [alert |-> x.alert, model |-> x.model]

LogOf(head) == [i \in 1..Len(head) |-> EntryOf(head[i])]

\* The store starts as an empty log.
LEMMA LogInit == Init => Log!Init
<1> SUFFICES ASSUME Init PROVE LogNow = << >> /\ ModelNow = NoModel /\ Acknowledged = {}
  BY DEF Log!Init
<1> QED
  BY DEF Init, LogNow, ModelNow, Acknowledged

\* Appending a link appends its entry.
LEMMA LogOfAppend ==
  ASSUME NEW h \in Digest, NEW x \in Link
  PROVE  LogOf(Append(h, x)) = Append(LogOf(h), EntryOf(x))
BY AppendProperties, LenProperties DEF LogOf, Digest

\* Every step is a step of the log or invisible in it.
LEMMA LogNext ==
  ASSUME OneWriter, IInv, [Next]_vars
  PROVE  [Log!Next]_<<LogNow, ModelNow, Acknowledged>>
<1>1. ASSUME UNCHANGED <<file, receipts>>
      PROVE  UNCHANGED <<LogNow, ModelNow, Acknowledged>>
  BY <1>1 DEF LogNow, ModelNow, Acknowledged
<1>2. ASSUME NEW p \in Processes, Replace(p)
      PROVE  Log!Next \/ UNCHANGED <<LogNow, ModelNow, Acknowledged>>
  <2>1. file' = state[p] /\ file' # NoFile /\ Acknowledged' = Acknowledged
    BY <1>2, Renamed DEF Replace, Acknowledged
  <2>2. LogNow' = LogOf(file'.head) /\ ModelNow' = file'.model_hash
    BY <2>1 DEF LogNow, ModelNow, LogOf, EntryOf
  <2>3. CASE pc[p] = "replace first"
    <3>1. file = NoFile /\ \E k \in Keys : file' = FreshState(k)
      BY <1>2, <2>1, <2>3, Renamed DEF IInv, ProcessInv, Creating
    <3>2. file'.head = ZeroHead /\ file'.model_hash = NoModel
      BY <3>1 DEF FreshState
    <3>3. LogOf(ZeroHead) = << >>
      BY EmptySeq DEF LogOf, ZeroHead
    <3>4. LogNow' = LogNow /\ ModelNow' = ModelNow
      BY <2>2, <3>1, <3>2, <3>3 DEF LogNow, ModelNow
    <3> QED
      BY <2>1, <3>4
  <2>4. CASE pc[p] = "replace"
    <3>1. /\ Registering(p) \/ Appending(p)
          /\ file \in State /\ file # NoFile /\ Chained(file) /\ file.head \in Digest
      BY <1>2, <2>4, Renamed DEF IInv, ProcessInv, FileInv, Saving
    <3>2. LogNow = LogOf(file.head) /\ ModelNow = file.model_hash
      BY <3>1 DEF LogNow, ModelNow, LogOf, EntryOf
    <3>3. CASE Registering(p)
      <4>1. PICK m \in Models : ~ModelConflict(file, m) /\ file' = Registered(file, m)
        BY <2>1, <3>3 DEF Registering
      <4>2. file'.head = file.head /\ file'.model_hash = m
        BY <3>1, <4>1 DEF Registered, State
      <4>3. LogNow = << >> \/ ModelNow = m
        <5>1. CASE file.sequence > 0
          BY <3>2, <4>1, <5>1 DEF ModelConflict
        <5>2. CASE ~ (file.sequence > 0)
          <6>1. Len(file.head) = 0
            BY <3>1, <5>2, ChainedLength
          <6> QED
            BY <3>2, <6>1 DEF LogOf
        <5> QED
          BY <5>1, <5>2
      <4>4. Log!Register(m)
        BY <2>1, <2>2, <3>2, <4>2, <4>3 DEF Log!Register
      <4> QED
        BY <4>4 DEF Log!Next
    <3>4. CASE Appending(p)
      <4>1. PICK a \in Alerts : /\ file.model_registered
                                /\ file' = AfterReceipt(file, NextReceipt(file, a))
        BY <2>1, <3>4 DEF Appending
      <4> DEFINE x == [key |-> file.key, sequence |-> file.sequence + 1, alert |-> a,
                       model |-> file.model_hash]
      <4>2. x \in Link
        BY <3>1 DEF Link, State
      <4>3. file'.head = Append(file.head, x) /\ file'.model_hash = file.model_hash
        BY <3>1, <4>1 DEF AfterReceipt, NextReceipt, ComputeHmac, State
      <4>4. file.model_hash \in Models
        BY <3>1, <4>1 DEF Chained
      <4>5. LogNow' = Append(LogNow, EntryOf(x))
        BY <2>2, <3>1, <3>2, <4>2, <4>3, LogOfAppend
      <4>6. EntryOf(x) = [alert |-> a, model |-> ModelNow]
        BY <3>2 DEF EntryOf
      <4>7. Log!Accept(a)
        BY <2>1, <2>2, <3>2, <4>3, <4>4, <4>5, <4>6 DEF Log!Accept
      <4> QED
        BY <4>7 DEF Log!Next
    <3> QED
      BY <3>1, <3>3, <3>4
  <2> QED
    BY <1>2, <2>3, <2>4 DEF Replace
<1>3. ASSUME NEW p \in Processes, Return(p)
      PROVE  Log!Next \/ UNCHANGED <<LogNow, ModelNow, Acknowledged>>
  <2>1. LogNow' = LogNow /\ ModelNow' = ModelNow
    BY <1>3 DEF Return, LogNow, ModelNow
  <2>2. CASE receipt[p] = NoReceipt
    <3>1. receipts' = receipts
      BY <1>3, <2>2 DEF Return
    <3> QED
      BY <2>1, <3>1 DEF Acknowledged
  <2>3. CASE receipt[p] # NoReceipt
    <3> DEFINE r == receipt[p]
    <3>1. /\ receipts' = receipts \union {r} /\ Stored(r)
          /\ file # NoFile /\ file \in State /\ Chained(file)
      BY <1>3, <2>3 DEF Return, IInv, ProcessInv, FileInv, TypeOK, Creating
    <3>2. /\ r.sequence \in 1..Len(file.head) /\ Len(file.head) \in Nat
          /\ r = RecordOf(file.head, r.sequence).receipt
      BY <3>1, ChainedLength DEF Stored
    <3>3. LogNow = LogOf(file.head)
      BY <3>1 DEF LogNow, LogOf, EntryOf
    <3>4. /\ r.sequence \in 1..Len(LogNow)
          /\ LogNow[r.sequence] = EntryOf(file.head[r.sequence])
      BY <3>2, <3>3 DEF LogOf
    <3>5. /\ r.alert_hash = file.head[r.sequence].alert
          /\ r.model_hash = file.head[r.sequence].model
      <4> DEFINE i == r.sequence
      <4>1. /\ RecordOf(file.head, i).receipt.alert_hash = file.head[i].alert
            /\ RecordOf(file.head, i).receipt.model_hash = file.head[i].model
        BY DEF RecordOf
      <4> HIDE DEF r
      <4> QED
        BY <3>2, <4>1
    <3>6. EntryOf(file.head[r.sequence]) = [alert |-> r.alert_hash, model |-> r.model_hash]
      BY <3>5 DEF EntryOf
    <3>7. Acknowledged' = Acknowledged \union
            {<<r.sequence, [alert |-> r.alert_hash, model |-> r.model_hash]>>}
      BY <3>1 DEF Acknowledged
    <3>8. Log!Acknowledge(r.sequence)
      BY <2>1, <3>4, <3>6, <3>7 DEF Log!Acknowledge
    <3> QED
      BY <3>4, <3>8 DEF Log!Next
  <2> QED
    BY <2>2, <2>3
<1>4. UNCHANGED <<file, receipts>> \/ \E p \in Processes : Replace(p) \/ Return(p)
  BY DEF Next, Step, vars, Load, Create, RegisterModel, AppendAlert, Truncate, Write, Exit,
     Verify, Resume
<1> QED
  BY <1>1, <1>2, <1>3, <1>4

\* The store implements the append-only log of AuditLog, as the TA does
\* (audit_store.py:1).
THEOREM Refinement ==
  ASSUME OneWriter
  PROVE  Spec => ImplementsLog
<1>1. Init => Log!Init
  BY LogInit
<1>2. IInv /\ [Next]_vars => [Log!Next]_<<LogNow, ModelNow, Acknowledged>>
  BY LogNext
<1> QED
  BY <1>1, <1>2, Invariant, PTL DEF Spec, ImplementsLog, Log!Spec, Log!logVars

=============================================================================
