------------------------------ MODULE PipelineForm ------------------------------
(***************************************************************************)
(* The page that creates a pipeline (dashboard/src/pages/PipelineCreate.tsx)*)
(* with its YAML editor (components/YamlEditor.tsx), against the handler    *)
(* that creates it (handleCreatePipeline in internal/dashboard/server.go).  *)
(*                                                                          *)
(* The form keeps what was filled in under a type, trigger or repository    *)
(* mode when another one is selected; buildSpec decides what of it goes     *)
(* into the spec.  The editor keeps a document of its own beside the state  *)
(* of the page: they are brought together by a setState, a render and an    *)
(* effect, three moments between which the visitor may type.                *)
(***************************************************************************)
EXTENDS Integers, FiniteSets, SequencesExt

CONSTANTS
  Names,     \* names of pipelines, "my-pipeline" of switchToYaml among them
  Default,   \* "my-pipeline"
  NoName,    \* the empty string
  MaxEdits,  \* bound of the changes made in the form, for each of its sections
  MaxTyped,  \* bound of the changes typed in the editor
  MaxPosts,  \* bound of the POSTs in flight
  MaxLost    \* bound of the answers that are lost

Sections == {"sources", "steps"}

ASSUME PipelineFormAssumption ==
  /\ Default \in Names /\ NoName \notin Names
  /\ MaxEdits \in [Sections -> Nat] /\ MaxTyped \in Nat /\ MaxPosts \in Nat /\ MaxLost \in Nat

VARIABLES
  section,     \* bound: beside the name the visitor changes the steps or the rest
  form,        \* the fields of the form
  edits,       \* changes made in the form
  mode,        \* what is shown: the form or the YAML
  content,     \* yamlContent as the page was last rendered with
  editor,      \* the document of the editor and what is on its way to or from it
  typed,       \* changes typed in the editor
  submitting,  \* the submit buttons are disabled
  err,         \* an error is shown
  posts,       \* POSTs in flight
  at,          \* where the visitor is
  made,        \* the names of the pipelines the page has created
  lost         \* answers to creations that were lost

fields == <<section, form, edits>>
yaml == <<mode, content, editor, typed>>
requests == <<submitting, err, posts, at, made, lost>>
vars == <<section, form, edits, mode, content, editor, typed,
          submitting, err, posts, at, made, lost>>

-----------------------------------------------------------------------------
(* The form.                                                               *)

StepTypes == {"git-checkout", "ai", "shell", "git-push", "triage"}
RetryFields == {"onFailure", "maxRetries"}
StepFields ==
  {"branchTemplate", "promptTemplate", "confidenceThreshold", "commands", "image"}
    \cup RetryFields
Triggers == {"github", "jira"}

\* filled: the fields that are not empty.
Step == [named : BOOLEAN, type : StepTypes, filled : SUBSET StepFields]
EmptyStep == [named |-> FALSE, type |-> "ai", filled |-> {"confidenceThreshold"}]

\* A repository is told by whether its optional fields are filled, a variable by
\* whether it has a key.
Form == [name : Names \cup {NoName}, trigger : Triggers, filled : SUBSET Triggers,
         multi : BOOLEAN, repo : BOOLEAN, repos : Seq(BOOLEAN),
         secret : BOOLEAN, env : Seq(BOOLEAN), steps : Seq(Step)]
EmptyForm == [name |-> NoName, trigger |-> "github", filled |-> {},
              multi |-> FALSE, repo |-> FALSE, repos |-> <<FALSE>>,
              secret |-> FALSE, env |-> <<>>, steps |-> <<>>]

Spec0 == [trigger : Triggers, filled : SUBSET Triggers, multi : BOOLEAN,
          repos : Seq(BOOLEAN), secret : BOOLEAN, env : Seq(BOOLEAN), steps : Seq(Step)]

\* The fields that buildSpec takes from a step of a type.
Taken(type) ==
  (CASE type = "git-checkout" -> {"branchTemplate"}
     [] type = "ai"           -> {"promptTemplate"}
     [] type = "triage"       -> {"promptTemplate", "confidenceThreshold"}
     [] type = "shell"        -> {"commands", "image"}
     [] OTHER                 -> {}) \cup RetryFields

\* Broken variant of StepSpec: what was filled in before the type was changed goes
\* along, as it does with the two retry fields.
StepSpecOfAll(s) == s

StepSpec(s) == [s EXCEPT !.filled = @ \cap Taken(s.type)]

\* A variable without a key is left out.
Keyed(env) == SelectSeq(env, LAMBDA keyed : keyed)

buildSpec(f) ==
  [trigger |-> f.trigger, filled |-> f.filled \cap {f.trigger},
   multi |-> f.multi, repos |-> IF f.multi THEN f.repos ELSE <<f.repo>>,
   secret |-> f.secret, env |-> Keyed(f.env),
   steps |-> [i \in DOMAIN f.steps |-> StepSpec(f.steps[i])]]

\* The form reacts while it is shown, also while a POST is under way.  Bound: what
\* was typed in the YAML is not followed by changes in the form.
Edit(f) ==
  /\ at = "form" /\ mode = "form"
  /\ edits < MaxEdits[section] /\ edits' = edits + 1 /\ typed = 0
  /\ form' = f
  /\ UNCHANGED <<section, yaml, requests>>

SetName(n) == n # form.name /\ Edit([form EXCEPT !.name = n])

SetTrigger(t) == t # form.trigger /\ Edit([form EXCEPT !.trigger = t])

FillTrigger ==
  /\ form.trigger \notin form.filled
  /\ Edit([form EXCEPT !.filled = @ \cup {form.trigger}])

SetRepoMode == Edit([form EXCEPT !.multi = ~@])

FillRepo ==
  \/ ~form.multi /\ ~form.repo /\ Edit([form EXCEPT !.repo = TRUE])
  \/ form.multi /\ \E i \in DOMAIN form.repos :
       ~form.repos[i] /\ Edit([form EXCEPT !.repos[i] = TRUE])

AddRepo == form.multi /\ Edit([form EXCEPT !.repos = Append(@, FALSE)])

removeMultiRepo(i) == form.multi /\ Edit([form EXCEPT !.repos = RemoveAt(@, i)])

FillSecret == Edit([form EXCEPT !.secret = ~@])

AddEnvVar == Edit([form EXCEPT !.env = Append(@, FALSE)])

updateEnvVar(i) == Edit([form EXCEPT !.env[i] = ~@])

RemoveEnvVar(i) == Edit([form EXCEPT !.env = RemoveAt(@, i)])

AddStep == Edit([form EXCEPT !.steps = Append(@, EmptyStep)])

\* The fields that the form shows for a step of a type.
ShownFields(type) ==
  (CASE type = "git-checkout" -> {"branchTemplate"}
     [] type = "ai"           -> {"promptTemplate"}
     [] type = "triage"       -> {"promptTemplate", "confidenceThreshold"}
     [] type = "shell"        -> {"commands", "image"}
     [] OTHER                 -> {})
  \cup (IF type \in {"git-checkout", "git-push"} THEN {} ELSE RetryFields)

updateStep(i) ==
  \/ Edit([form EXCEPT !.steps[i].named = ~@])
  \/ \E t \in StepTypes \ {form.steps[i].type} : Edit([form EXCEPT !.steps[i].type = t])
  \/ \E x \in ShownFields(form.steps[i].type) :
       /\ x \notin form.steps[i].filled
       /\ Edit([form EXCEPT !.steps[i].filled = @ \cup {x}])

removeStep(i) == Edit([form EXCEPT !.steps = RemoveAt(@, i)])

\* The arrow down of step i and the arrow up of the next one.
moveStep(i) ==
  /\ i < Len(form.steps)
  /\ Edit([form EXCEPT !.steps[i] = form.steps[i + 1], !.steps[i + 1] = form.steps[i]])

EditSources ==
  \/ \E t \in Triggers : SetTrigger(t)
  \/ FillTrigger \/ SetRepoMode \/ FillRepo \/ AddRepo \/ FillSecret \/ AddEnvVar
  \/ \E i \in DOMAIN form.repos : removeMultiRepo(i)
  \/ \E i \in DOMAIN form.env : updateEnvVar(i) \/ RemoveEnvVar(i)

EditSteps ==
  AddStep \/ \E i \in DOMAIN form.steps : updateStep(i) \/ removeStep(i) \/ moveStep(i)

\* Bound: once something was sent only the name is changed.
Unsent == posts = {} /\ made = {} /\ lost = 0

EditForm ==
  \/ \E n \in Names \cup {NoName} : SetName(n)
  \/ section = "sources" /\ Unsent /\ EditSources
  \/ section = "steps" /\ Unsent /\ EditSteps

-----------------------------------------------------------------------------
(* The YAML: a text stands for the name and the spec it says, and for what  *)
(* was typed into it.  A text without a name cannot be sent.                *)

Text == [name : Names \cup {NoName}, spec : Spec0, typed : 0 .. MaxTyped]

\* queue: the setYamlContent that waits for a render; due: the value that the
\* effect of the last render has yet to compare with the document.
Editor == [doc : Text, queue : SUBSET Text, due : SUBSET Text]

Generated(f) == [name |-> IF f.name = NoName THEN Default ELSE f.name,
                 spec |-> buildSpec(f), typed |-> 0]
Blank == [name |-> NoName, spec |-> buildSpec(EmptyForm), typed |-> 0]
NewEditor(t) == [doc |-> t, queue |-> {}, due |-> {}]

\* The effect on [value]: a dispatch into the document calls onChange, as typing
\* does.  Effects that are due run before the next render.
Synced(e) ==
  IF \E t \in e.due : t # e.doc
  THEN [doc |-> CHOOSE t \in e.due : TRUE, queue |-> e.due, due |-> {}]
  ELSE [e EXCEPT !.due = {}]

\* Bound: the visitor gets to a button only after the page has rendered what was
\* typed.  (A click on YAML before that generates the text that the page already
\* has, so that no effect runs and the editor keeps what was typed.)
Rendered == editor.queue = {}

\* The mode and the text change together.  A click on YAML where the YAML is shown
\* already generates it again, whatever was typed.
switchToYaml ==
  /\ at = "form" /\ Rendered
  /\ LET g == Generated(form)
     IN /\ content' = g
        /\ editor' = IF mode = "form" THEN NewEditor(g)
                     ELSE [editor EXCEPT !.due = IF g # content THEN {g} ELSE @]
  /\ mode' = "yaml"
  /\ UNCHANGED <<fields, typed, requests>>

\* The text stays in the state of the page, but nothing reads it until a click on
\* YAML has replaced it.
SwitchToForm ==
  /\ at = "form" /\ mode = "yaml" /\ Rendered
  /\ mode' = "form" /\ content' = Blank /\ editor' = NewEditor(Blank)
  /\ UNCHANGED <<fields, typed, requests>>

\* The update listener passes every change of the document to the page.  Bound: not
\* in the section of the steps.
Type(n) ==
  /\ at = "form" /\ mode = "yaml" /\ typed < MaxTyped /\ section = "sources"
  /\ typed' = typed + 1
  /\ LET t == [editor.doc EXCEPT !.name = n, !.typed = typed + 1]
     IN editor' = [editor EXCEPT !.doc = t, !.queue = {t}]
  /\ UNCHANGED <<fields, mode, content, requests>>

RenderValue ==
  /\ at = "form" /\ ~Rendered
  /\ LET e == Synced(editor)
         t == CHOOSE x \in e.queue : TRUE
     IN /\ content' = t
        /\ editor' = [doc |-> e.doc, queue |-> {},
                      due |-> IF t # content THEN {t} ELSE {}]
  /\ UNCHANGED <<fields, mode, typed, requests>>

RunEffect ==
  /\ at = "form" /\ editor.due # {}
  /\ editor' = Synced(editor)
  /\ UNCHANGED <<fields, mode, content, typed, requests>>

-----------------------------------------------------------------------------
(* Requests.                                                               *)

Post == [how : {"form", "yaml"}, name : Names, spec : Spec0,
         st : {"sent", "made", "refused"}]

Rejected ==
  /\ err' = TRUE
  /\ UNCHANGED <<fields, yaml, submitting, posts, at, made, lost>>

Sent(how, n, s) ==
  /\ Cardinality(posts) < MaxPosts
  /\ posts' = posts \cup {[how |-> how, name |-> n, spec |-> s, st |-> "sent"]}
  /\ UNCHANGED <<fields, yaml, at, made, lost>>

handleSubmit ==
  /\ at = "form" /\ mode = "form" /\ ~submitting
  /\ IF form.name = NoName \/ form.steps = <<>> \/ \E i \in DOMAIN form.steps : ~form.steps[i].named
     THEN Rejected
     ELSE /\ submitting' = TRUE /\ err' = FALSE
          /\ Sent("form", form.name, buildSpec(form))

\* Broken variant of handleYamlSubmit: the button is not disabled.
YamlSubmitKeepsOpen ==
  /\ at = "form" /\ mode = "yaml" /\ ~submitting /\ Rendered
  /\ content.name # NoName
  /\ submitting' = FALSE /\ err' = FALSE
  /\ Sent("yaml", content.name, content.spec)

handleYamlSubmit ==
  /\ at = "form" /\ mode = "yaml" /\ ~submitting /\ Rendered
  /\ IF content.name = NoName
     THEN Rejected
     ELSE /\ submitting' = TRUE /\ err' = FALSE
          /\ Sent("yaml", content.name, content.spec)

With(p, st) == (posts \ {p}) \cup {[p EXCEPT !.st = st]}

\* A name that is taken is a conflict; the API server may refuse any spec.
handleCreatePipeline(p) ==
  /\ p.st = "sent"
  /\ \/ p.name \notin made /\ posts' = With(p, "made") /\ made' = made \cup {p.name}
     \/ posts' = With(p, "refused") /\ UNCHANGED made
  /\ UNCHANGED <<fields, yaml, submitting, err, at, lost>>

\* A page that has been left still goes to the new pipeline.
Answered(p) ==
  /\ p.st # "sent"
  /\ posts' = posts \ {p} /\ submitting' = FALSE
  /\ IF p.st = "made" THEN at' = "pipeline" /\ UNCHANGED err
                      ELSE err' = TRUE /\ UNCHANGED at
  /\ UNCHANGED <<fields, yaml, made, lost>>

\* The request or its answer gets lost.
PostLost(p) ==
  /\ lost < MaxLost
  /\ posts' = posts \ {p} /\ submitting' = FALSE /\ err' = TRUE
  /\ lost' = lost + 1
  /\ UNCHANGED <<fields, yaml, at, made>>

Cancel ==
  /\ at = "form"
  /\ at' = "left"
  /\ UNCHANGED <<fields, yaml, submitting, err, posts, made, lost>>

-----------------------------------------------------------------------------
Init ==
  /\ section \in Sections
  /\ form = EmptyForm /\ edits = 0
  /\ mode = "form" /\ content = Blank /\ editor = NewEditor(Blank) /\ typed = 0
  /\ submitting = FALSE /\ err = FALSE /\ posts = {}
  /\ at = "form" /\ made = {} /\ lost = 0

EditYaml ==
  \/ switchToYaml \/ SwitchToForm \/ RenderValue \/ RunEffect
  \/ \E n \in Names \cup {NoName} : Type(n)

Submit == handleSubmit \/ handleYamlSubmit

Answer == \E p \in posts : handleCreatePipeline(p) \/ Answered(p) \/ PostLost(p)

Next == EditForm \/ EditYaml \/ Submit \/ Answer \/ Cancel

Spec == Init /\ [][Next]_vars

-----------------------------------------------------------------------------
(* Properties.                                                             *)

TypeOK ==
  /\ form \in Form /\ section \in Sections /\ edits \in 0 .. MaxEdits[section]
  /\ mode \in {"form", "yaml"} /\ content \in Text /\ editor \in Editor
  /\ typed \in 0 .. MaxTyped
  /\ submitting \in BOOLEAN /\ err \in BOOLEAN /\ posts \subseteq Post
  /\ at \in {"form", "left", "pipeline"} /\ made \subseteq Names /\ lost \in 0 .. MaxLost

\* However often the visitor clicks, changes the name while the page waits, or goes
\* from the form to the YAML and back, a page creates one pipeline, and one more
\* only when the answer to an earlier creation was lost.
OnePipelineEach == Cardinality(made) <= 1 + lost

\* Nothing is queued between the editor and the page.
AtRest == editor.queue = {} /\ editor.due = {}

\* Once it is at rest the editor shows the text that a click would send.
EditorSettles == mode = "yaml" /\ AtRest => editor.doc = content

\* What the form shows: of each step the fields of its type, of trigger and
\* repository those of the selected kind.
OnScreen(f) ==
  [trigger |-> f.trigger, filled |-> f.filled \ (Triggers \ {f.trigger}),
   multi |-> f.multi, repos |-> IF f.multi THEN f.repos ELSE <<f.repo>>,
   secret |-> f.secret, env |-> Keyed(f.env),
   steps |-> [i \in DOMAIN f.steps |->
                [f.steps[i] EXCEPT !.filled = @ \cap ShownFields(f.steps[i].type)]]]

\* The retry fields of a step stay in the spec when its type hides them.
NoRetry(s) ==
  [s EXCEPT !.steps = [i \in DOMAIN s.steps |->
     [s.steps[i] EXCEPT !.filled = s.steps[i].filled \ RetryFields]]]

Faithful(p) ==
  IF p.how = "form" THEN p.name = form.name /\ NoRetry(p.spec) = NoRetry(OnScreen(form))
  ELSE AtRest => p.name = editor.doc.name /\ p.spec = editor.doc.spec

\* What is posted is what the visitor sees when clicking: nothing that was filled
\* in under another type, trigger or mode, and nothing of what is shown left out,
\* the retry fields apart; of the YAML the text in the editor.
SentIsShown == [][\A p \in posts' \ posts : p.st = "sent" => Faithful(p)]_vars
=============================================================================
