------------------------------- MODULE KVStore -------------------------------
(***************************************************************************)
(* What the gateway promises to the clients of its socket: one shared map  *)
(* of keys to values on which each call takes effect at most once, at one  *)
(* moment between the call and its answer, and every answer is the result  *)
(* of that effect.  A call may also never take effect or never be answered.*)
(***************************************************************************)
CONSTANTS
  Calls,         \* one identity per call of some client
  Keys,          \* object identifiers
  Values,        \* object contents
  NoValue,       \* no object under a key; no value in an answer
  NotYet         \* no call made, no effect taken, no answer received

VARIABLES
  store,         \* the map
  call,          \* what each call asks for
  outcome,       \* what each call resulted in when it took effect
  answer         \* what the client of each call was told

kvVars == <<store, call, outcome, answer>>

Request ==
  [op : {"PUT"}, key : Keys, value : Values]
  \union [op : {"GET", "DELETE"}, key : Keys]
  \union [op : {"MALFORMED"}]

Answer(status, value) == [status |-> status, value |-> value]

Found(st, r) == st[r.key] # NoValue

\* The answer to a request, and the map after it.
AnswerTo(st, r) ==
  CASE r.op = "PUT"    -> Answer("OK", NoValue)
    [] r.op = "GET"    -> IF Found(st, r) THEN Answer("OK", st[r.key])
                                          ELSE Answer("NOT_FOUND", NoValue)
    [] r.op = "DELETE" -> IF Found(st, r) THEN Answer("OK", NoValue)
                                          ELSE Answer("NOT_FOUND", NoValue)

StoreAfter(st, r) ==
  CASE r.op = "PUT"    -> [st EXCEPT ![r.key] = r.value]
    [] r.op = "GET"    -> st
    [] r.op = "DELETE" -> [st EXCEPT ![r.key] = NoValue]

Init ==
  /\ store \in [Keys -> Values \union {NoValue}]
  /\ call = [c \in Calls |-> NotYet]
  /\ outcome = [c \in Calls |-> NotYet]
  /\ answer = [c \in Calls |-> NotYet]

Make(c, r) ==
  /\ call[c] = NotYet
  /\ call' = [call EXCEPT ![c] = r]
  /\ UNCHANGED <<store, outcome, answer>>

TakeEffect(c) ==
  /\ call[c] # NotYet
  /\ call[c].op # "MALFORMED"
  /\ outcome[c] = NotYet
  /\ outcome' = [outcome EXCEPT ![c] = AnswerTo(store, call[c])]
  /\ store' = StoreAfter(store, call[c])
  /\ UNCHANGED <<call, answer>>

\* The storage refuses: the map is as before and the client is told so.
Refuse(c) ==
  /\ call[c] # NotYet
  /\ call[c].op # "MALFORMED"
  /\ outcome[c] = NotYet
  /\ outcome' = [outcome EXCEPT ![c] = Answer("BACKEND_ERROR", NoValue)]
  /\ UNCHANGED <<store, call, answer>>

Tell(c) ==
  /\ outcome[c] # NotYet
  /\ answer[c] = NotYet
  /\ answer' = [answer EXCEPT ![c] = outcome[c]]
  /\ UNCHANGED <<store, call, outcome>>

Next ==
  \E c \in Calls :
    \/ \E r \in Request : Make(c, r)
    \/ TakeEffect(c) \/ Refuse(c) \/ Tell(c)

Spec == Init /\ [][Next]_kvVars

=============================================================================
