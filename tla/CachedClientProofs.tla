-------------------------- MODULE CachedClientProofs --------------------------
(* The trigger client's Get answers as if it read the URL in one step.      *)
EXTENDS CachedClient, TLAPS

\* A call under way has a URL; only a 200 carries a body, and nothing is left of
\* an answer that is retried.
RecordOK(r) ==
  /\ r.pc # "returned" => r.url \in Urls
  /\ r.pc = "sent" => r.status = 0 /\ r.body = None
  /\ r.pc = "answered" /\ r.status # 200 => r.body = None
  /\ r.pc = "returned" => r.status = 0

Good == {r \in Call : RecordOK(r)}

IInv == TypeOK /\ \A c \in Callers : RecordOK(call[c])

LEMMA RetriesType == Retries \in Nat
  BY RetriesAssumption DEF Retries

LEMMA InitInv == Init => IInv
  BY RetriesType DEF Init, IInv, TypeOK, RecordOK, NoCall, Call

LEMMA AnsweredFields ==
  ASSUME NEW r \in Call, NEW s, NEW b
  PROVE  LET t == Answered(r, s, b)
         IN  /\ t.pc = "answered" /\ t.status = s /\ t.body = b
             /\ t.url = r.url /\ t.entry = r.entry
             /\ s \in {200, 304, 429, 500, 503} /\ b \in Contents \cup {None} => t \in Call
  BY DEF Answered, Call

LEMMA ReturnedFields ==
  ASSUME NEW r \in Call, NEW b \in Contents \cup {None}
  PROVE  LET t == Returned(r, b)
         IN  /\ t.pc = "returned" /\ t.status = 0 /\ t.body = b /\ t.url = r.url
             /\ t \in Good
  BY RetriesType DEF Returned, NoCall, Call, Good, RecordOK

LEMMA ResentFields ==
  ASSUME NEW r \in Call, r.body = None, r.url \in Urls
  PROVE  LET t == Resent(r)
         IN  /\ t.pc = "sent" /\ t.status = 0 /\ t.body = None /\ t.url = r.url
             /\ r.attempt < Retries => t \in Good
  BY RetriesType DEF Resent, Call, Good, RecordOK

\* A step that gives one caller a good record and leaves content and cache typed.
LEMMA OneRecord ==
  ASSUME IInv, NEW c \in Callers, NEW r \in Good, call' = [call EXCEPT ![c] = r],
         content' = content, cache' \in [Urls -> Contents \cup {None}]
  PROVE  IInv'
<1>1. call' \in [Callers -> Call]
  BY DEF IInv, TypeOK, Good
<1>2. \A d \in Callers : call'[d] = IF d = c THEN r ELSE call[d]
  BY DEF IInv, TypeOK
<1>3. \A d \in Callers : RecordOK(call'[d])
  BY <1>2 DEF IInv, Good
<1>4. QED
  BY <1>1, <1>3 DEF IInv, TypeOK, RecordOK

LEMMA NextInv == IInv /\ [Next]_vars => IInv'
<1> SUFFICES ASSUME IInv, [Next]_vars PROVE IInv'
  OBVIOUS
<1>0. cache \in [Urls -> Contents \cup {None}]
  BY DEF IInv, TypeOK
<1>1. CASE Change
  BY <1>1 DEF Change, IInv, TypeOK, RecordOK
<1>2. ASSUME NEW c \in Callers, Get(c) PROVE IInv'
  <2>1. PICK u \in Urls : call' = [call EXCEPT ![c] = NewCall(u)]
    BY <1>2 DEF Get
  <2>2. NewCall(u) \in Good
    BY RetriesType DEF NewCall, Call, Good, RecordOK, IInv, TypeOK
  <2>3. QED
    BY <1>0, <1>2, <2>1, <2>2, OneRecord DEF Get
<1>3. ASSUME NEW c \in Callers, Respond(c) PROVE IInv'
  <2>1. PICK s \in {200, 304, 429, 500, 503}, b \in Contents \cup {None} :
          Answer(c, s, b) /\ (s # 200 => b = None)
    <3>1. content[call[c].url] \in Contents
      BY <1>3 DEF Respond, IInv, TypeOK, RecordOK
    <3>2. QED
      BY <1>3, <3>1 DEF Respond
  <2>2. call[c] \in Call /\ call[c].url \in Urls
    BY <1>3 DEF Respond, IInv, TypeOK, RecordOK
  <2>3. Answered(call[c], s, b) \in Good
    BY <2>1, <2>2, AnsweredFields DEF Good, RecordOK
  <2>4. content' = content /\ cache' = cache
    BY <1>3 DEF Respond
  <2>5. call' = [call EXCEPT ![c] = Answered(call[c], s, b)]
    BY <2>1 DEF Answer
  <2>6. QED
    BY <1>0, <2>3, <2>4, <2>5, OneRecord
<1>4. ASSUME NEW c \in Callers, NotModified(c) PROVE IInv'
  <2>1. call[c] \in Call /\ call[c].entry \in Contents \cup {None}
    BY DEF IInv, TypeOK, Call
  <2>2. Returned(call[c], call[c].entry) \in Good
    BY <2>1, ReturnedFields
  <2>3. QED
    BY <1>0, <1>4, <2>2, OneRecord DEF NotModified, Return
<1>5. ASSUME NEW c \in Callers, Retry(c) PROVE IInv'
  <2>1. /\ call[c] \in Call /\ call[c].body = None /\ call[c].attempt < Retries
        /\ call[c].url \in Urls
    BY <1>5 DEF Retry, IInv, TypeOK, RecordOK
  <2>2. Resent(call[c]) \in Good
    BY <2>1, ResentFields
  <2>3. QED
    BY <1>0, <1>5, <2>2, OneRecord DEF Retry
<1>6. ASSUME NEW c \in Callers, Fail(c) PROVE IInv'
  <2>1. Returned(call[c], None) \in Good
    BY ReturnedFields DEF IInv, TypeOK
  <2>2. QED
    BY <1>0, <1>6, <2>1, OneRecord DEF Fail, Return
<1>7. ASSUME NEW c \in Callers, Store(c) PROVE IInv'
  <2>1. call[c] \in Call /\ call[c].body \in Contents \cup {None}
        /\ call[c].url \in Urls
    BY <1>7 DEF Store, IInv, TypeOK, Call, RecordOK
  <2>2. PICK b \in {call[c].body, None} : Return(c, b)
    BY <1>7 DEF Store
  <2>3. Returned(call[c], b) \in Good
    BY <2>1, ReturnedFields
  <2>4. cache' \in [Urls -> Contents \cup {None}]
    BY <1>0, <1>7, <2>1 DEF Store
  <2>5. QED
    BY <1>7, <2>2, <2>3, <2>4, OneRecord DEF Store, Return
<1>8. CASE UNCHANGED vars
  BY <1>8 DEF vars, IInv, TypeOK, RecordOK
<1>9. QED
  BY <1>1, <1>2, <1>3, <1>4, <1>5, <1>6, <1>7, <1>8 DEF Next, Step

LEMMA Invariance == Spec => []IInv
<1>1. Init => IInv
  BY InitInv
<1>2. IInv /\ [Next]_vars => IInv'
  BY NextInv
<1>3. QED
  BY <1>1, <1>2, PTL DEF Spec

\* However often the server asks for patience, a call is sent at most Retries + 1
\* times, and what it holds has its type.
THEOREM ClientTypeCorrect == Spec => []TypeOK
<1>1. IInv => TypeOK
  BY DEF IInv
<1>2. QED
  BY <1>1, Invariance, PTL

-----------------------------------------------------------------------------
\* The calls as AtomicFetch sees them.
SeenCall == [c \in Callers |-> Seen(call[c])]

LEMMA OneCaller ==
  ASSUME IInv, NEW c \in Callers, NEW r, call' = [call EXCEPT ![c] = r]
  PROVE  SeenCall' = [SeenCall EXCEPT ![c] = Seen(r)]
<1>1. /\ call'[c] = r
      /\ \A d \in Callers \ {c} : call'[d] = call[d]
  BY DEF IInv, TypeOK
<1>2. SeenCall'[c] = Seen(r)
  BY <1>1 DEF SeenCall, Seen
<1>3. ASSUME NEW d \in Callers \ {c} PROVE SeenCall'[d] = SeenCall[d]
  BY <1>1 DEF SeenCall, Seen
<1>4. SeenCall' = [d \in Callers |-> SeenCall'[d]] /\ SeenCall = [d \in Callers |-> SeenCall[d]]
  BY DEF SeenCall
<1>5. QED
  BY <1>2, <1>3, <1>4

LEMMA SeenRecord ==
  /\ \A u \in Urls : Seen(NewCall(u)) = Fetch!Pending(u, None)
  /\ \A r : Seen(Answered(r, 304, None)) = Fetch!Pending(r.url, r.entry)
  /\ \A r, s, b : s # 304 => Seen(Answered(r, s, b)) = Fetch!Pending(r.url, b)
  /\ \A r, b : Seen(Returned(r, b)) = Fetch!Answer(r.url, b)
  /\ \A r : Seen(Resent(r)) = Fetch!Pending(r.url, None)
  BY DEF Seen, NewCall, Answered, Returned, Resent, Fetch!Pending, Fetch!Answer

\* What AtomicFetch sees of a call under way.
LEMMA SeenNow ==
  ASSUME IInv, NEW c \in Callers, call[c].pc # "returned"
  PROVE  /\ ~SeenCall[c].over
         /\ SeenCall[c].url = call[c].url
         /\ SeenCall[c].read = IF call[c].pc = "answered" /\ call[c].status = 304
                                 THEN call[c].entry ELSE call[c].body
         /\ SeenCall[c] = Fetch!Pending(SeenCall[c].url, SeenCall[c].read)
<1>1. call[c].url \in Urls
  BY DEF IInv, RecordOK
<1>2. QED
  BY <1>1 DEF SeenCall, Seen, Fetch!Pending

LEMMA GetRefines ==
  ASSUME IInv, NEW c \in Callers, Get(c)
  PROVE  Fetch!Begin(c)
<1>1. PICK u \in Urls : call' = [call EXCEPT ![c] = NewCall(u)]
  BY DEF Get
<1>2. SeenCall' = [SeenCall EXCEPT ![c] = Fetch!Pending(u, None)]
  <2>1. SeenCall' = [SeenCall EXCEPT ![c] = Seen(NewCall(u))]
    BY <1>1, OneCaller
  <2>2. QED
    BY <2>1, SeenRecord
<1>3. SeenCall[c].over
  BY DEF Get, SeenCall, Seen
<1>4. content' = content
  BY DEF Get
<1>5. QED
  BY <1>2, <1>3, <1>4 DEF Fetch!Begin, SeenCall

\* A 304 reads the entry, which is the content; a 200 reads the content.
LEMMA RespondRefines ==
  ASSUME IInv, NEW c \in Callers, Respond(c)
  PROVE  Fetch!Read(c) \/ (SeenCall' = SeenCall /\ content' = content)
<1> DEFINE x == content[call[c].url]
<1>1. call[c].pc = "sent" /\ call[c].body = None /\ content' = content
  BY DEF IInv, RecordOK, Respond
<1>2. /\ ~SeenCall[c].over /\ SeenCall[c].url = call[c].url /\ SeenCall[c].read = None
      /\ SeenCall[c] = Fetch!Pending(call[c].url, None)
  BY <1>1, SeenNow
<1>3. ASSUME NEW s, NEW b, Answer(c, s, b),
             Seen(Answered(call[c], s, b)) = Fetch!Pending(call[c].url, x)
      PROVE  Fetch!Read(c)
  <2>1. SeenCall' = [SeenCall EXCEPT ![c] = Fetch!Pending(SeenCall[c].url, content[SeenCall[c].url])]
    BY <1>2, <1>3, OneCaller DEF Answer
  <2>2. QED
    BY <1>1, <1>2, <2>1 DEF Fetch!Read, SeenCall
<1>4. CASE call[c].entry = x /\ Answer(c, 304, None)
  <2>1. Seen(Answered(call[c], 304, None)) = Fetch!Pending(call[c].url, x)
    BY <1>4, SeenRecord
  <2>2. QED
    BY <1>3, <1>4, <2>1
<1>5. CASE Answer(c, 200, x)
  <2>1. Seen(Answered(call[c], 200, x)) = Fetch!Pending(call[c].url, x)
    BY SeenRecord
  <2>2. QED
    BY <1>3, <1>5, <2>1
<1>6. ASSUME NEW s \in {429, 500, 503}, Answer(c, s, None)
      PROVE  SeenCall' = SeenCall
  <2>1. Seen(Answered(call[c], s, None)) = Fetch!Pending(call[c].url, None)
    BY SeenRecord
  <2>2. Seen(Answered(call[c], s, None)) = SeenCall[c]
    BY <1>2, <2>1
  <2>3. call' = [call EXCEPT ![c] = Answered(call[c], s, None)]
    BY <1>6 DEF Answer
  <2>4. SeenCall' = [SeenCall EXCEPT ![c] = Seen(Answered(call[c], s, None))]
    BY <2>3, OneCaller
  <2>5. SeenCall' = [SeenCall EXCEPT ![c] = SeenCall[c]]
    BY <2>2, <2>4
  <2>6. SeenCall = [d \in Callers |-> SeenCall[d]]
    BY DEF SeenCall
  <2>7. QED
    BY <2>5, <2>6
<1>7. QED
  BY <1>1, <1>4, <1>5, <1>6 DEF Respond

\* What a call returns is what AtomicFetch sees it to have read, or None.
LEMMA ReturnRefines ==
  ASSUME IInv, NEW c \in Callers, call[c].pc # "returned", content' = content,
         NEW b \in {None, SeenCall[c].read}, Return(c, b)
  PROVE  Fetch!Return(c)
<1>1. SeenCall' = [SeenCall EXCEPT ![c] = Fetch!Answer(call[c].url, b)]
  <2>1. call' = [call EXCEPT ![c] = Returned(call[c], b)]
    BY DEF Return
  <2>2. SeenCall' = [SeenCall EXCEPT ![c] = Seen(Returned(call[c], b))]
    BY <2>1, OneCaller
  <2>3. Seen(Returned(call[c], b)) = Fetch!Answer(call[c].url, b)
    BY SeenRecord
  <2>4. QED
    BY <2>2, <2>3
<1>2. ~SeenCall[c].over /\ SeenCall[c].url = call[c].url
  BY SeenNow
<1>3. QED
  BY <1>1, <1>2 DEF Fetch!Return, SeenCall

LEMMA RetryRefines ==
  ASSUME IInv, NEW c \in Callers, Retry(c)
  PROVE  SeenCall' = SeenCall
<1>1. call[c].pc = "answered" /\ call[c].status # 304 /\ call[c].body = None
  BY DEF Retry, IInv, RecordOK
<1>2. SeenCall[c] = Fetch!Pending(call[c].url, None)
  BY <1>1, SeenNow
<1>3. Seen(Resent(call[c])) = Fetch!Pending(call[c].url, None)
  BY SeenRecord
<1>4. SeenCall' = [SeenCall EXCEPT ![c] = Seen(Resent(call[c]))]
  BY OneCaller DEF Retry
<1>5. SeenCall' = [SeenCall EXCEPT ![c] = SeenCall[c]]
  BY <1>2, <1>3, <1>4
<1>6. SeenCall = [d \in Callers |-> SeenCall[d]]
  BY DEF SeenCall
<1>7. QED
  BY <1>5, <1>6

LEMMA NextRefines ==
  ASSUME IInv, [Next]_vars
  PROVE  [Fetch!Next]_<<content, SeenCall>>
<1>1. CASE Change
  BY <1>1 DEF Change, Fetch!Next, Fetch!Change, SeenCall
<1>2. ASSUME NEW c \in Callers, Get(c) PROVE Fetch!Next
  BY <1>2, GetRefines DEF Fetch!Next
<1>3. ASSUME NEW c \in Callers, Respond(c)
      PROVE  Fetch!Next \/ (SeenCall' = SeenCall /\ content' = content)
  BY <1>3, RespondRefines DEF Fetch!Next
<1>4. ASSUME NEW c \in Callers, NotModified(c) PROVE Fetch!Next
  <2>1. SeenCall[c].read = call[c].entry
    BY <1>4, SeenNow DEF NotModified
  <2>2. QED
    BY <1>4, <2>1, ReturnRefines DEF NotModified, Fetch!Next
<1>5. ASSUME NEW c \in Callers, Retry(c) PROVE SeenCall' = SeenCall /\ content' = content
  BY <1>5, RetryRefines DEF Retry
<1>6. ASSUME NEW c \in Callers, Fail(c) PROVE Fetch!Next
  BY <1>6, ReturnRefines DEF Fail, Fetch!Next
<1>7. ASSUME NEW c \in Callers, Store(c) PROVE Fetch!Next
  <2>1. SeenCall[c].read = call[c].body
    BY <1>7, SeenNow DEF Store
  <2>2. QED
    BY <1>7, <2>1, ReturnRefines DEF Store, Fetch!Next
<1>8. CASE UNCHANGED vars
  BY <1>8 DEF vars, SeenCall
<1>9. QED
  BY <1>1, <1>2, <1>3, <1>4, <1>5, <1>6, <1>7, <1>8 DEF Next, Step

LEMMA InitRefines == Init => Fetch!Init
<1>1. Seen(NoCall) = Fetch!Answer(None, None)
  BY DEF Seen, NoCall, Fetch!Answer
<1>2. QED
  BY <1>1 DEF Init, Fetch!Init

\* For every set of URLs, contents and callers and every limit of retries: what a
\* call of Get returns is an error or what its URL held at one moment of the call.
THEOREM ClientIsAtomic == Spec => ImplementsAtomicFetch
<1>1. Init => Fetch!Init
  BY InitRefines
<1>2. IInv /\ [Next]_vars => [Fetch!Next]_Fetch!vars
  BY NextRefines DEF Fetch!vars, SeenCall
<1>3. QED
  BY <1>1, <1>2, Invariance, PTL DEF Spec, ImplementsAtomicFetch, Fetch!Spec
=============================================================================
