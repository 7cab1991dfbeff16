------------------------------ MODULE AtomicFetch ------------------------------
(***************************************************************************)
(* What a caller of the trigger client relies on: an answer is the content *)
(* the URL had at one moment between the call and its return, however the  *)
(* calls overlap.  CachedClient implements this.                           *)
(***************************************************************************)
CONSTANTS Urls, Contents, Callers, None

VARIABLES
  content,  \* what each URL holds now
  call      \* each caller's call: its URL, what it has read, whether it is over

vars == <<content, call>>

Answer(u, x) == [url |-> u, read |-> x, over |-> TRUE]
Pending(u, x) == [url |-> u, read |-> x, over |-> FALSE]

Init ==
  /\ content \in [Urls -> Contents]
  /\ call = [c \in Callers |-> Answer(None, None)]

Change ==
  /\ \E u \in Urls, x \in Contents : content' = [content EXCEPT ![u] = x]
  /\ UNCHANGED call

Begin(c) ==
  /\ call[c].over
  /\ \E u \in Urls : call' = [call EXCEPT ![c] = Pending(u, None)]
  /\ UNCHANGED content

Read(c) ==
  /\ ~call[c].over
  /\ call[c].read = None
  /\ call' = [call EXCEPT ![c] = Pending(call[c].url, content[call[c].url])]
  /\ UNCHANGED content

\* With what was read, or with an error.
Return(c) ==
  /\ ~call[c].over
  /\ \E x \in {None, call[c].read} :
       call' = [call EXCEPT ![c] = Answer(call[c].url, x)]
  /\ UNCHANGED content

Next == Change \/ \E c \in Callers : Begin(c) \/ Read(c) \/ Return(c)

Spec == Init /\ [][Next]_vars
=============================================================================
