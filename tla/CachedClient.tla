----------------------------- MODULE CachedClient -----------------------------
(***************************************************************************)
(* The conditional GET of internal/trigger/client.go, called concurrently  *)
(* by the pollers, the reconcilers and the dashboard.  The mutex protects  *)
(* the map and not the call: an entry is read at the start, the request    *)
(* and its answer take their time, and the answer is stored at the end, so *)
(* an older answer may be stored after a newer one.                        *)
(***************************************************************************)
EXTENDS Integers

CONSTANTS
  Urls,
  Contents,    \* what a URL may hold; the server derives the ETag from it
  Callers,     \* goroutines
  MaxRetries,  \* CachedClient.MaxRetries
  None         \* no URL, no entry, no body

ASSUME RetriesAssumption == MaxRetries \in Int
ASSUME NoneAssumption == None \notin Urls /\ None \notin Contents

\* A limit that is not positive means 2.
Retries == IF MaxRetries <= 0 THEN 2 ELSE MaxRetries

VARIABLES
  content,  \* what each URL holds now (external)
  cache,    \* CachedClient.cache: the content of the stored answer, or None
  call      \* the callers' progress in Get

vars == <<content, cache, call>>

\* entry is the cache entry read at the start.  ETag and body are stored and
\* sent together, so one content stands for both.  status and body are the
\* answer that is on its way.
Call == [pc : {"returned", "sent", "answered"}, url : Urls \cup {None},
         entry : Contents \cup {None}, attempt : 0 .. Retries,
         status : {0, 200, 304, 429, 500, 503}, body : Contents \cup {None}]

NoCall == [pc |-> "returned", url |-> None, entry |-> None, attempt |-> 0,
           status |-> 0, body |-> None]

NewCall(u) == [pc |-> "sent", url |-> u, entry |-> cache[u], attempt |-> 0,
               status |-> 0, body |-> None]

Init ==
  /\ content \in [Urls -> Contents]
  /\ cache = [u \in Urls |-> None]
  /\ call = [c \in Callers |-> NoCall]

Change ==
  /\ \E u \in Urls, x \in Contents : x # content[u] /\ content' = [content EXCEPT ![u] = x]
  /\ UNCHANGED <<cache, call>>

Get(c) ==
  /\ call[c].pc = "returned"
  /\ \E u \in Urls : call' = [call EXCEPT ![c] = NewCall(u)]
  /\ UNCHANGED <<content, cache>>

\* The server: the content is unchanged, is sent whole, or something is wrong.
\* 503 and 429 are retried, 500 stands for every other failure.
Answered(r, status, body) ==
  [pc |-> "answered", url |-> r.url, entry |-> r.entry, attempt |-> r.attempt,
   status |-> status, body |-> body]
Answer(c, status, body) == call' = [call EXCEPT ![c] = Answered(call[c], status, body)]

Respond(c) ==
  /\ call[c].pc = "sent"
  /\ LET x == content[call[c].url]
     IN  \/ call[c].entry = x /\ Answer(c, 304, None)
         \/ call[c].entry # x /\ Answer(c, 200, x)
         \/ \E status \in {429, 500, 503} : Answer(c, status, None)
  /\ UNCHANGED <<content, cache>>

Returned(r, body) ==
  [pc |-> "returned", url |-> r.url, entry |-> None, attempt |-> 0,
   status |-> 0, body |-> body]
Return(c, body) == call' = [call EXCEPT ![c] = Returned(call[c], body)]

\* Broken variant of NotModified: the entry is looked up again.
NotModifiedNow(c) ==
  /\ call[c].pc = "answered"
  /\ call[c].status = 304
  /\ Return(c, cache[call[c].url])
  /\ UNCHANGED <<content, cache>>

NotModified(c) ==
  /\ call[c].pc = "answered"
  /\ call[c].status = 304
  /\ Return(c, call[c].entry)
  /\ UNCHANGED <<content, cache>>

Resent(r) ==
  [pc |-> "sent", url |-> r.url, entry |-> r.entry, attempt |-> r.attempt + 1,
   status |-> 0, body |-> None]

\* Broken variant of Retry: no limit.
RetryForever(c) ==
  /\ call[c].pc = "answered"
  /\ call[c].status \in {429, 503}
  /\ call' = [call EXCEPT ![c] = [Resent(call[c]) EXCEPT !.attempt = 0]]
  /\ UNCHANGED <<content, cache>>

\* The same conditional request again, after a pause.
Retry(c) ==
  /\ call[c].pc = "answered"
  /\ call[c].status \in {429, 503}
  /\ call[c].attempt < Retries
  /\ call' = [call EXCEPT ![c] = Resent(call[c])]
  /\ UNCHANGED <<content, cache>>

\* The retries are used up, the pause is cancelled, or the status is another.
Fail(c) ==
  /\ call[c].pc = "answered"
  /\ call[c].status \in {429, 500, 503}
  /\ Return(c, None)
  /\ UNCHANGED <<content, cache>>

\* The answer replaces whatever is stored; the server may send no ETag, and
\* then nothing is stored.  The body may also break off.
Store(c) ==
  /\ call[c].pc = "answered"
  /\ call[c].status = 200
  /\ \/ /\ cache' \in {cache, [cache EXCEPT ![call[c].url] = call[c].body]}
        /\ Return(c, call[c].body)
     \/ /\ Return(c, None)
        /\ UNCHANGED cache
  /\ UNCHANGED content

Step(c) == Respond(c) \/ NotModified(c) \/ Retry(c) \/ Fail(c) \/ Store(c)

Next == Change \/ \E c \in Callers : Get(c) \/ Step(c)

Spec == Init /\ [][Next]_vars

\* Callers go on, and requests end: an assumption about the network, since
\* http.DefaultClient has no timeout.
FairSpec == Spec /\ \A c \in Callers : WF_vars(Step(c))

-----------------------------------------------------------------------------
\* Every variable keeps its type, and a call is never sent more often than the
\* limit allows.
TypeOK ==
  /\ content \in [Urls -> Contents]
  /\ cache \in [Urls -> Contents \cup {None}]
  /\ call \in [Callers -> Call]

\* The moment that counts is when the server answers.
Seen(r) == [url  |-> r.url,
            read |-> IF r.pc = "answered" /\ r.status = 304 THEN r.entry ELSE r.body,
            over |-> r.pc = "returned"]
Fetch == INSTANCE AtomicFetch WITH call <- [c \in Callers |-> Seen(call[c])]

\* However calls overlap and in whatever order their answers are stored, a caller
\* gets what the URL held at some moment during its call, or an error (Get).
ImplementsAtomicFetch == Fetch!Spec

\* Every call returns: 503 and 429 are not retried for ever.
CallReturns == \A c \in Callers : call[c].pc # "returned" ~> call[c].pc = "returned"
=============================================================================
