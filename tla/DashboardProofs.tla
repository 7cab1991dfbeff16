---------------------------- MODULE DashboardProofs ----------------------------
(***************************************************************************)
(* Theorems about the pages of the dashboard, for any names, pipelines,    *)
(* issues, runs and bounds.  The page that creates a pipeline: its editor  *)
(* settles on the text of the page, it creates one pipeline, and posts     *)
(* what it shows.  Then the lists and the history.                         *)
(***************************************************************************)
EXTENDS Dashboard, FiniteSetTheorems, SequenceTheorems, TLAPS

-----------------------------------------------------------------------------
(* The editor.                                                             *)

\* What is queued is the document, and what is due is the text of the page: there
\* is never a third text.
EditorInv ==
  /\ mode \in {"form", "yaml"}
  /\ editor = [doc |-> editor.doc, queue |-> editor.queue, due |-> editor.due]
  /\ editor.queue \in {{}, {editor.doc}}
  /\ editor.due \in {{}, {content}}
  /\ EditorSettles

LEMMA ChooseOnly ==
  ASSUME NEW x
  PROVE  (CHOOSE t \in {x} : TRUE) = x
OBVIOUS

\* The effect brings the document to the text of the page, or finds it there.
LEMMA SyncedEditor ==
  ASSUME EditorInv
  PROVE  \/ /\ editor.due = {content} /\ content # editor.doc
            /\ Synced(editor) = [doc |-> content, queue |-> {content}, due |-> {}]
         \/ /\ editor.due = {} \/ content = editor.doc
            /\ Synced(editor) = [doc |-> editor.doc, queue |-> editor.queue, due |-> {}]
<1>1. CASE editor.due = {content} /\ content # editor.doc
  <2>1. (CHOOSE t \in editor.due : TRUE) = content
    BY <1>1, ChooseOnly
  <2> QED  BY <1>1, <2>1 DEF Synced
<1>2. CASE editor.due = {} \/ content = editor.doc
  <2>1. Synced(editor) = [editor EXCEPT !.due = {}]
    BY <1>2 DEF Synced, EditorInv
  <2> QED  BY <1>2, <2>1 DEF EditorInv
<1> QED  BY <1>1, <1>2 DEF EditorInv

LEMMA EditorInit == Init => EditorInv
BY DEF Init, EditorInv, EditorSettles, NewEditor

LEMMA EditorNext == EditorInv /\ [Next]_vars => EditorInv'
<1> SUFFICES ASSUME EditorInv, [Next]_vars
             PROVE  EditorInv'
  OBVIOUS
<1>1. ASSUME UNCHANGED yaml
      PROVE  EditorInv'
  BY <1>1 DEF yaml, EditorInv, EditorSettles, AtRest
<1>2. ASSUME switchToYaml
      PROVE  EditorInv'
  <2> DEFINE g == Generated(form)
  <2>1. content' = g /\ mode' = "yaml" /\ editor.queue = {}
    BY <1>2 DEF switchToYaml, Rendered
  <2>2. CASE mode = "form"
    BY <1>2, <2>1, <2>2 DEF switchToYaml, NewEditor, EditorInv, EditorSettles
  <2>3. CASE mode # "form"
    <3>1. editor' = [doc |-> editor.doc, queue |-> {},
                     due |-> IF g # content THEN {g} ELSE editor.due]
      BY <1>2, <2>1, <2>3 DEF switchToYaml, EditorInv
    <3>2. mode = "yaml"
      BY <2>3 DEF EditorInv
    <3> QED  BY <2>1, <3>1, <3>2 DEF EditorInv, EditorSettles, AtRest
  <2> QED  BY <2>2, <2>3
<1>3. ASSUME SwitchToForm
      PROVE  EditorInv'
  BY <1>3 DEF SwitchToForm, NewEditor, EditorInv, EditorSettles
<1>4. ASSUME NEW n, Type(n)
      PROVE  EditorInv'
  <2> DEFINE t == [editor.doc EXCEPT !.name = n, !.typed = typed + 1]
  <2>1. editor' = [doc |-> t, queue |-> {t}, due |-> editor.due]
        /\ content' = content /\ mode' = mode
    BY <1>4 DEF Type, EditorInv
  <2> HIDE DEF t
  <2> QED  BY <2>1 DEF EditorInv, EditorSettles, AtRest
<1>5. ASSUME RenderValue
      PROVE  EditorInv'
  <2>0. mode' = mode
    BY <1>5 DEF RenderValue
  <2>1. CASE Synced(editor) = [doc |-> content, queue |-> {content}, due |-> {}]
    <3>1. content' = content
      BY <1>5, <2>1, ChooseOnly DEF RenderValue
    <3>2. editor' = [doc |-> content, queue |-> {}, due |-> {}]
      BY <1>5, <2>1, <3>1, ChooseOnly DEF RenderValue
    <3> QED  BY <2>0, <3>1, <3>2 DEF EditorInv, EditorSettles
  <2>2. CASE Synced(editor) = [doc |-> editor.doc, queue |-> editor.queue, due |-> {}]
    <3>1. editor.queue = {editor.doc}
      BY <1>5 DEF RenderValue, Rendered, EditorInv
    <3>2. content' = editor.doc
      BY <1>5, <2>2, <3>1, ChooseOnly DEF RenderValue
    <3>3. editor' = [doc |-> editor.doc, queue |-> {},
                     due |-> IF editor.doc # content THEN {editor.doc} ELSE {}]
      BY <1>5, <2>2, <3>1, <3>2, ChooseOnly DEF RenderValue
    <3> QED  BY <2>0, <3>2, <3>3 DEF EditorInv, EditorSettles
  <2> QED  BY <2>1, <2>2, SyncedEditor
<1>6. ASSUME RunEffect
      PROVE  EditorInv'
  <2>1. editor' = Synced(editor) /\ content' = content /\ mode' = mode
    BY <1>6 DEF RunEffect
  <2>2. editor.due = {content}
    BY <1>6 DEF RunEffect, EditorInv
  <2> QED  BY <2>1, <2>2, SyncedEditor DEF EditorInv, EditorSettles, AtRest
<1>7. EditForm => UNCHANGED yaml
  BY DEF EditForm, EditSources, EditSteps, SetName, SetTrigger, FillTrigger, SetRepoMode,
         FillRepo, AddRepo, FillSecret, AddEnvVar, AddStep, removeMultiRepo, updateEnvVar,
         RemoveEnvVar, updateStep, removeStep, moveStep, Edit
<1>8. Submit \/ Answer \/ Cancel \/ UNCHANGED vars => UNCHANGED yaml
  BY DEF Submit, Answer, Cancel, handleSubmit, handleYamlSubmit, Rejected, Sent,
         handleCreatePipeline, Answered, PostLost, vars, yaml
<1> QED
  BY <1>1, <1>2, <1>3, <1>4, <1>5, <1>6, <1>7, <1>8 DEF Next, EditYaml

\* Whenever nothing is on its way between them, the editor shows the text that the
\* page would send (the two effects of YamlEditor).
THEOREM EditorIsSettled == Spec => []EditorSettles
<1>1. EditorInv => EditorSettles
  BY DEF EditorInv
<1> QED  BY <1>1, EditorInit, EditorNext, PTL DEF Spec

-----------------------------------------------------------------------------
(* The requests.                                                           *)

\* One POST at a time, for which the buttons of a page that is still there are
\* disabled; and each pipeline but one is paid for by a lost answer.
PostInv ==
  /\ posts = {} \/ \E p : posts = {p}
  /\ \A p \in posts : p = [how |-> p.how, name |-> p.name, spec |-> p.spec, st |-> p.st]
  /\ at = "form" /\ posts # {} => submitting
  /\ at = "pipeline" => posts = {}
  /\ IsFiniteSet(made) /\ lost \in Nat
  /\ Cardinality(made)
       <= lost + IF at = "pipeline" \/ \E p \in posts : p.st = "made" THEN 1 ELSE 0

LEMMA PostInit == Init => PostInv
BY FS_EmptySet DEF Init, PostInv

\* Whatever is done in the page leaves the requests alone.
LEMMA EditingIsLocal == EditForm \/ EditYaml => UNCHANGED requests
BY DEF EditForm, EditSources, EditSteps, SetName, SetTrigger, FillTrigger, SetRepoMode,
       FillRepo, AddRepo, FillSecret, AddEnvVar, AddStep, removeMultiRepo, updateEnvVar,
       RemoveEnvVar, updateStep, removeStep, moveStep, Edit, EditYaml, switchToYaml,
       SwitchToForm, RenderValue, RunEffect, Type

LEMMA PostNext == PostInv /\ [Next]_vars => PostInv'
<1> SUFFICES ASSUME PostInv, [Next]_vars
             PROVE  PostInv'
  OBVIOUS
<1>1. ASSUME UNCHANGED requests
      PROVE  PostInv'
  BY <1>1 DEF requests, PostInv
<1>2. ASSUME NEW how, NEW n, NEW s, Sent(how, n, s), submitting' = TRUE,
             at = "form", ~submitting
      PROVE  PostInv'
  <2> DEFINE q == [how |-> how, name |-> n, spec |-> s, st |-> "sent"]
  <2>1. posts = {}
    BY <1>2 DEF PostInv
  <2>2. posts' = {q} /\ at' = at /\ made' = made /\ lost' = lost
    BY <1>2, <2>1 DEF Sent
  <2>3. q = [how |-> q.how, name |-> q.name, spec |-> q.spec, st |-> q.st] /\ q.st = "sent"
    OBVIOUS
  <2> HIDE DEF q
  <2> QED  BY <1>2, <2>1, <2>2, <2>3 DEF PostInv
<1>3. ASSUME Rejected
      PROVE  PostInv'
  BY <1>3 DEF Rejected, PostInv
<1>4. CASE Submit
  BY <1>2, <1>3, <1>4 DEF Submit, handleSubmit, handleYamlSubmit
<1>5. ASSUME NEW p \in posts, handleCreatePipeline(p)
      PROVE  PostInv'
  <2> DEFINE Now(st) == [how |-> p.how, name |-> p.name, spec |-> p.spec, st |-> st]
  <2>1. posts = {p} /\ at # "pipeline" /\ p.st = "sent"
    BY <1>5 DEF PostInv, handleCreatePipeline
  <2>2. \A st : [p EXCEPT !.st = st] = Now(st)
    BY <2>1 DEF PostInv
  <2>3. \A st : With(p, st) = {Now(st)}
    BY <2>1, <2>2 DEF With
  <2>4. UNCHANGED <<at, submitting, lost>>
    BY <1>5 DEF handleCreatePipeline
  <2>5. Cardinality(made) <= lost
    BY <2>1 DEF PostInv
  <2>6. CASE p.name \notin made /\ posts' = With(p, "made") /\ made' = made \cup {p.name}
    <3>1. IsFiniteSet(made') /\ Cardinality(made') = Cardinality(made) + 1
      BY <2>6, FS_AddElement DEF PostInv
    <3>2. posts' = {Now("made")}
      BY <2>6, <2>3
    <3>3. Cardinality(made) \in Nat
      BY FS_CardinalityType DEF PostInv
    <3> QED  BY <2>1, <2>4, <2>5, <3>1, <3>2, <3>3 DEF PostInv
  <2>7. CASE posts' = With(p, "refused") /\ UNCHANGED made
    <3>1. posts' = {Now("refused")}
      BY <2>7, <2>3
    <3>3. Cardinality(made) \in Nat /\ made' = made
      BY <2>7, FS_CardinalityType DEF PostInv
    <3>4. Cardinality(made') <= lost'
      BY <2>4, <2>5, <3>3
    <3>5. lost' \in Nat /\ IsFiniteSet(made')
      BY <2>4, <3>3 DEF PostInv
    <3>6. Cardinality(made') \in Nat
      BY <3>3
    <3> DEFINE extra == IF at' = "pipeline" \/ \E x \in posts' : x.st = "made" THEN 1 ELSE 0
    <3>7. Cardinality(made') <= lost' + extra
      BY <3>4, <3>5, <3>6
    <3>8. at' = "form" => submitting'
      BY <2>1, <2>4 DEF PostInv
    <3> QED  BY <2>1, <2>4, <3>1, <3>5, <3>7, <3>8 DEF PostInv
  <2> QED  BY <1>5, <2>6, <2>7 DEF handleCreatePipeline
<1>6. ASSUME NEW p \in posts, Answered(p)
      PROVE  PostInv'
  <2>1. posts = {p} /\ at # "pipeline"
    BY <1>6 DEF PostInv
  <2>2. posts' = {} /\ made' = made /\ lost' = lost
    BY <1>6, <2>1 DEF Answered
  <2>3. CASE p.st = "made"
    BY <1>6, <2>1, <2>2, <2>3 DEF Answered, PostInv
  <2>4. CASE p.st # "made"
    BY <1>6, <2>1, <2>2, <2>4 DEF Answered, PostInv
  <2> QED  BY <2>3, <2>4
<1>7. ASSUME NEW p \in posts, PostLost(p)
      PROVE  PostInv'
  <2>1. posts = {p} /\ at # "pipeline"
    BY <1>7 DEF PostInv
  <2>2. posts' = {} /\ made' = made /\ lost' = lost + 1 /\ at' = at
    BY <1>7, <2>1 DEF PostLost
  <2>3. Cardinality(made) \in Nat
    BY FS_CardinalityType DEF PostInv
  <2> QED  BY <2>1, <2>2, <2>3 DEF PostInv
<1>8. CASE Cancel
  BY <1>8 DEF Cancel, PostInv
<1>9. CASE UNCHANGED vars
  BY <1>9 DEF vars, PostInv
<1> QED
  BY <1>1, <1>4, <1>5, <1>6, <1>7, <1>8, <1>9, EditingIsLocal DEF Next, Answer

\* A page creates one pipeline, and one more for each lost answer: the buttons of
\* both modes are disabled by one `submitting' (handleSubmit, handleYamlSubmit).
THEOREM OnePipeline == Spec => []OnePipelineEach
<1>1. PostInv => OnePipelineEach
  BY FS_CardinalityType DEF PostInv, OnePipelineEach
<1> QED  BY <1>1, PostInit, PostNext, PTL DEF Spec

-----------------------------------------------------------------------------
(* The form.                                                               *)

FormInv == form \in Form

LEMMA RemoveAtSeq ==
  ASSUME NEW S, NEW s \in Seq(S), NEW i \in DOMAIN s
  PROVE  RemoveAt(s, i) \in Seq(S)
<1>1. i \in 1 .. Len(s) /\ Len(s) \in Nat /\ \A j \in 1 .. Len(s) : s[j] \in S
  BY LenProperties, ElementOfSeq
<1>2. SubSeq(s, 1, i - 1) \in Seq(S)
  BY <1>1, SubSeqProperties
<1>3. SubSeq(s, i + 1, Len(s)) \in Seq(S)
  BY <1>1, SubSeqProperties
<1> QED  BY <1>2, <1>3, ConcatProperties DEF RemoveAt

\* A change of one part of the form gives a form.
LEMMA FormWith ==
  ASSUME FormInv
  PROVE  /\ \A r \in Seq(BOOLEAN) : [form EXCEPT !.repos = r] \in Form
         /\ \A e \in Seq(BOOLEAN) : [form EXCEPT !.env = e] \in Form
         /\ \A t \in Seq(Step) : [form EXCEPT !.steps = t] \in Form
BY DEF FormInv, Form

LEMMA SourcesEdited == FormInv /\ EditSources => FormInv'
<1> SUFFICES ASSUME FormInv, EditSources
             PROVE  form' \in Form
  BY DEF FormInv
<1>0. form.repos \in Seq(BOOLEAN) /\ form.env \in Seq(BOOLEAN) /\ form.multi \in BOOLEAN
  BY DEF FormInv, Form
<1>1. ASSUME NEW t \in Triggers, SetTrigger(t)
      PROVE  form' \in Form
  BY <1>1 DEF SetTrigger, Edit, FormInv, Form
<1>2. CASE FillTrigger
  BY <1>2 DEF FillTrigger, Edit, FormInv, Form
<1>3. CASE SetRepoMode
  BY <1>3, <1>0 DEF SetRepoMode, Edit, FormInv, Form
<1>4. ASSUME NEW i \in DOMAIN form.repos, Edit([form EXCEPT !.repos[i] = TRUE])
      PROVE  form' \in Form
  <2>1. [form.repos EXCEPT ![i] = TRUE] \in Seq(BOOLEAN)
    BY <1>0, LenProperties, ExceptSeq
  <2>2. form' = [form EXCEPT !.repos = [form.repos EXCEPT ![i] = TRUE]]
    BY <1>4 DEF Edit
  <2> QED  BY <2>1, <2>2, FormWith
<1>5. CASE FillRepo
  <2>1. CASE Edit([form EXCEPT !.repo = TRUE])
    BY <2>1 DEF Edit, FormInv, Form
  <2> QED  BY <1>4, <1>5, <2>1 DEF FillRepo
<1>6. CASE AddRepo
  <2>1. Append(form.repos, FALSE) \in Seq(BOOLEAN)
    BY <1>0
  <2> QED  BY <1>6, <2>1, FormWith DEF AddRepo, Edit
<1>7. CASE FillSecret
  BY <1>7 DEF FillSecret, Edit, FormInv, Form
<1>8. CASE AddEnvVar
  <2>1. Append(form.env, FALSE) \in Seq(BOOLEAN)
    BY <1>0
  <2> QED  BY <1>8, <2>1, FormWith DEF AddEnvVar, Edit
<1>9. ASSUME NEW i \in DOMAIN form.repos, removeMultiRepo(i)
      PROVE  form' \in Form
  BY <1>0, <1>9, RemoveAtSeq, FormWith DEF removeMultiRepo, Edit
<1>10. ASSUME NEW i \in DOMAIN form.env, updateEnvVar(i)
       PROVE  form' \in Form
  <2> DEFINE e == [form.env EXCEPT ![i] = ~form.env[i]]
  <2>1. e \in Seq(BOOLEAN)
    BY <1>0, LenProperties, ExceptSeq
  <2>2. form' = [form EXCEPT !.env = e]
    BY <1>10 DEF updateEnvVar, Edit
  <2> QED  BY <2>1, <2>2, FormWith
<1>11. ASSUME NEW i \in DOMAIN form.env, RemoveEnvVar(i)
       PROVE  form' \in Form
  BY <1>0, <1>11, RemoveAtSeq, FormWith DEF RemoveEnvVar, Edit
<1> QED
  BY <1>1, <1>2, <1>3, <1>5, <1>6, <1>7, <1>8, <1>9, <1>10, <1>11 DEF EditSources

LEMMA StepsEdited == FormInv /\ EditSteps => FormInv'
<1> SUFFICES ASSUME FormInv, EditSteps
             PROVE  form' \in Form
  BY DEF FormInv
<1>0. form.steps \in Seq(Step)
  BY DEF FormInv, Form
<1>1. \A i \in DOMAIN form.steps : i \in 1 .. Len(form.steps) /\ form.steps[i] \in Step
  BY <1>0, LenProperties, ElementOfSeq
<1>2. CASE AddStep
  <2>1. Append(form.steps, EmptyStep) \in Seq(Step)
    BY <1>0 DEF EmptyStep, Step, StepTypes, StepFields, RetryFields
  <2> QED  BY <1>2, <2>1, FormWith DEF AddStep, Edit
<1>3. ASSUME NEW i \in DOMAIN form.steps, NEW s \in Step,
             form' = [form EXCEPT !.steps = [form.steps EXCEPT ![i] = s]]
      PROVE  form' \in Form
  BY <1>0, <1>1, <1>3, ExceptSeq, FormWith
<1>4. ASSUME NEW i \in DOMAIN form.steps, updateStep(i)
      PROVE  form' \in Form
  <2> DEFINE s == form.steps[i]
  <2>1. CASE Edit([form EXCEPT !.steps[i].named = ~@])
    <3>1. [s EXCEPT !.named = ~s.named] \in Step
      BY <1>1 DEF Step
    <3>2. form' = [form EXCEPT !.steps = [form.steps EXCEPT ![i] =
                     [s EXCEPT !.named = ~s.named]]]
      BY <2>1 DEF Edit
    <3> QED  BY <1>3, <3>1, <3>2
  <2>2. ASSUME NEW t \in StepTypes, Edit([form EXCEPT !.steps[i].type = t])
        PROVE  form' \in Form
    <3>1. [s EXCEPT !.type = t] \in Step
      BY <1>1 DEF Step
    <3>2. form' = [form EXCEPT !.steps = [form.steps EXCEPT ![i] = [s EXCEPT !.type = t]]]
      BY <2>2 DEF Edit
    <3> QED  BY <1>3, <3>1, <3>2
  <2>3. ASSUME NEW x \in ShownFields(s.type), Edit([form EXCEPT !.steps[i].filled = @ \cup {x}])
        PROVE  form' \in Form
    <3>1. x \in StepFields
      BY DEF ShownFields, StepFields, RetryFields
    <3>2. [s EXCEPT !.filled = s.filled \cup {x}] \in Step
      BY <1>1, <3>1 DEF Step
    <3>3. form' = [form EXCEPT !.steps = [form.steps EXCEPT ![i] =
                     [s EXCEPT !.filled = s.filled \cup {x}]]]
      BY <2>3 DEF Edit
    <3> QED  BY <1>3, <3>2, <3>3
  <2> QED  BY <1>4, <2>1, <2>2, <2>3 DEF updateStep
<1>5. ASSUME NEW i \in DOMAIN form.steps, removeStep(i)
      PROVE  form' \in Form
  BY <1>0, <1>5, RemoveAtSeq, FormWith DEF removeStep, Edit
<1>6. ASSUME NEW i \in DOMAIN form.steps, moveStep(i)
      PROVE  form' \in Form
  <2> DEFINE a == form.steps[i]
             b == form.steps[i + 1]
             t == [form.steps EXCEPT ![i] = b]
  <2>1. i \in 1 .. Len(form.steps) /\ i + 1 \in 1 .. Len(form.steps) /\ a \in Step /\ b \in Step
    BY <1>0, <1>1, <1>6, LenProperties, ElementOfSeq DEF moveStep
  <2>2. t \in Seq(Step) /\ Len(t) = Len(form.steps)
    BY <1>0, <2>1, ExceptSeq
  <2>3. [t EXCEPT ![i + 1] = a] \in Seq(Step)
    BY <2>1, <2>2, ExceptSeq
  <2>4. form' = [form EXCEPT !.steps = [t EXCEPT ![i + 1] = a]]
    BY <1>6 DEF moveStep, Edit
  <2> QED  BY <2>3, <2>4, FormWith
<1> QED
  BY <1>2, <1>4, <1>5, <1>6 DEF EditSteps

LEMMA FormNext == FormInv /\ [Next]_vars => FormInv'
<1> SUFFICES ASSUME FormInv, [Next]_vars
             PROVE  FormInv'
  OBVIOUS
<1>1. ASSUME NEW n \in Names \cup {NoName}, SetName(n)
      PROVE  FormInv'
  BY <1>1 DEF SetName, Edit, FormInv, Form
<1>2. CASE EditForm
  BY <1>1, <1>2, SourcesEdited, StepsEdited DEF EditForm
<1>3. ASSUME EditYaml \/ Submit \/ Answer \/ Cancel \/ UNCHANGED vars
      PROVE  UNCHANGED form
  BY <1>3 DEF EditYaml, switchToYaml, SwitchToForm, RenderValue, RunEffect, Type, fields,
       Submit, Answer, Cancel, handleSubmit, handleYamlSubmit, Rejected, Sent,
       handleCreatePipeline, Answered, PostLost, vars
<1> QED  BY <1>2, <1>3 DEF Next, FormInv

LEMMA FormInit == Init => FormInv
BY EmptySeq DEF Init, FormInv, Form, EmptyForm, Triggers

-----------------------------------------------------------------------------
(* What is posted.                                                         *)

\* The two retry fields apart, buildSpec takes what the form shows.
LEMMA SpecIsShown ==
  ASSUME FormInv
  PROVE  NoRetry(buildSpec(form)) = NoRetry(OnScreen(form))
<1> DEFINE sent == [i \in DOMAIN form.steps |-> StepSpec(form.steps[i])]
           seen == [i \in DOMAIN form.steps |->
                      [form.steps[i] EXCEPT !.filled = @ \cap ShownFields(form.steps[i].type)]]
           Bare(t) == [i \in DOMAIN t |-> [t[i] EXCEPT !.filled = t[i].filled \ RetryFields]]
<1>1. \A i \in DOMAIN form.steps : form.steps[i] \in Step
  BY LenProperties, ElementOfSeq DEF FormInv, Form
<1>2. \A type \in StepTypes : Taken(type) \ RetryFields = ShownFields(type) \ RetryFields
  BY DEF StepTypes, Taken, ShownFields, RetryFields
<1>3. ASSUME NEW i \in DOMAIN form.steps
      PROVE  [sent[i] EXCEPT !.filled = sent[i].filled \ RetryFields]
               = [seen[i] EXCEPT !.filled = seen[i].filled \ RetryFields]
  <2> DEFINE s == form.steps[i]
  <2>1. s \in Step
    BY <1>1
  <2>2. s.type \in StepTypes
    BY <2>1 DEF Step
  <2>3. (s.filled \cap Taken(s.type)) \ RetryFields
          = (s.filled \cap ShownFields(s.type)) \ RetryFields
    BY <1>2, <2>2
  <2>4. [sent[i] EXCEPT !.filled = sent[i].filled \ RetryFields]
          = [s EXCEPT !.filled = (s.filled \cap Taken(s.type)) \ RetryFields]
    BY <2>1 DEF StepSpec, Step
  <2>5. [seen[i] EXCEPT !.filled = seen[i].filled \ RetryFields]
          = [s EXCEPT !.filled = (s.filled \cap ShownFields(s.type)) \ RetryFields]
    BY <2>1 DEF Step
  <2> QED  BY <2>3, <2>4, <2>5
<1>4. Bare(sent) = Bare(seen)
  BY <1>3
<1>5. form.filled \cap {form.trigger} = form.filled \ (Triggers \ {form.trigger})
  BY DEF FormInv, Form
<1>6. /\ NoRetry(buildSpec(form)) = [buildSpec(form) EXCEPT !.steps = Bare(sent)]
      /\ NoRetry(OnScreen(form)) = [OnScreen(form) EXCEPT !.steps = Bare(seen)]
  BY DEF NoRetry, buildSpec, OnScreen
<1>7. ASSUME NEW x
      PROVE  [buildSpec(form) EXCEPT !.steps = x] = [OnScreen(form) EXCEPT !.steps = x]
  <2> DEFINE r(y) == [trigger |-> form.trigger, filled |-> form.filled \cap {form.trigger},
                      multi |-> form.multi,
                      repos |-> IF form.multi THEN form.repos ELSE <<form.repo>>,
                      secret |-> form.secret, env |-> Keyed(form.env), steps |-> y]
  <2>1. buildSpec(form) = r(sent)
    BY DEF buildSpec
  <2>2. OnScreen(form) = r(seen)
    BY <1>5 DEF OnScreen
  <2>3. ASSUME NEW y
        PROVE  [r(y) EXCEPT !.steps = x] = r(x)
    OBVIOUS
  <2> HIDE DEF r
  <2> QED  BY <2>1, <2>2, <2>3
<1> HIDE DEF sent, seen, Bare
<1> QED  BY <1>4, <1>6, <1>7

SentNow == \A p \in posts' \ posts : p.st = "sent" => Faithful(p)

LEMMA SentStep ==
  ASSUME FormInv, EditorInv, PostInv, Next
  PROVE  SentNow
<1>1. ASSUME posts' \subseteq posts
      PROVE  SentNow
  BY <1>1 DEF SentNow
<1>2. EditForm \/ EditYaml => posts' = posts
  BY EditingIsLocal DEF requests
<1>3. CASE handleSubmit
  <2>1. CASE Rejected
    BY <1>1, <2>1 DEF Rejected
  <2>2. CASE Sent("form", form.name, buildSpec(form))
    <3>1. \A p \in posts' \ posts :
            p = [how |-> "form", name |-> form.name, spec |-> buildSpec(form), st |-> "sent"]
      BY <2>2 DEF Sent
    <3> QED  BY <3>1, SpecIsShown DEF SentNow, Faithful
  <2> QED  BY <1>3, <2>1, <2>2 DEF handleSubmit
<1>4. CASE handleYamlSubmit
  <2>1. CASE Rejected
    BY <1>1, <2>1 DEF Rejected
  <2>2. CASE Sent("yaml", content.name, content.spec)
    <3>1. \A p \in posts' \ posts :
            p = [how |-> "yaml", name |-> content.name, spec |-> content.spec, st |-> "sent"]
      BY <2>2 DEF Sent
    <3>2. AtRest => editor.doc = content
      BY <1>4 DEF handleYamlSubmit, EditorInv, EditorSettles
    <3> QED  BY <3>1, <3>2 DEF SentNow, Faithful
  <2> QED  BY <1>4, <2>1, <2>2 DEF handleYamlSubmit
<1>5. ASSUME NEW p \in posts, handleCreatePipeline(p)
      PROVE  SentNow
  <2>1. p = [how |-> p.how, name |-> p.name, spec |-> p.spec, st |-> p.st]
    BY DEF PostInv
  <2>2. \A st : [p EXCEPT !.st = st].st = st
    BY <2>1
  <2>3. \A q \in posts' \ posts : q.st \in {"made", "refused"}
    BY <1>5, <2>2 DEF handleCreatePipeline, With
  <2> QED  BY <2>3 DEF SentNow
<1>6. ASSUME NEW p \in posts, Answered(p) \/ PostLost(p)
      PROVE  SentNow
  BY <1>1, <1>6 DEF Answered, PostLost
<1>7. CASE Cancel
  BY <1>1, <1>7 DEF Cancel
<1> QED
  BY <1>1, <1>2, <1>3, <1>4, <1>5, <1>6, <1>7 DEF Next, Submit, Answer

\* What is posted is what the visitor sees at the click: the name and the fields of
\* the selected types and modes, or the text in the editor (buildSpec, YamlEditor).
THEOREM PostsWhatIsShown == Spec => SentIsShown
<1>1. FormInv /\ EditorInv /\ PostInv /\ [Next]_vars => [SentNow]_vars
  BY SentStep
<1>2. Init => FormInv /\ EditorInv /\ PostInv
  BY FormInit, EditorInit, PostInit
<1>3. FormInv /\ EditorInv /\ PostInv /\ [Next]_vars => (FormInv /\ EditorInv /\ PostInv)'
  BY FormNext, EditorNext, PostNext
<1> QED  BY <1>1, <1>2, <1>3, PTL DEF Spec, SentIsShown, SentNow

-----------------------------------------------------------------------------
(* The lists of runs (RunList).                                            *)

\* A button keeps what was clicked under the key of its row, which is the run's name.
ClicksInv ==
  /\ \A a \in arming : a.by = a.key
  /\ \A p \in clicks :
       /\ p = [kind |-> p.kind, id |-> p.id, by |-> p.by, key |-> p.key, own |-> p.own,
              served |-> p.served]
       /\ p.by = p.id

LEMMA ClicksInit == List!Init => ClicksInv
BY DEF List!Init, ClicksInv

\* However the rows have moved, a button that is rendered again has its own state.
LEMMA RenderClicks ==
  ASSUME ClicksInv, NEW s, NEW u, List!Render(s, u)
  PROVE  ClicksInv'
<1>1. arming' \subseteq arming
  BY DEF List!Render
<1>2. ASSUME NEW q \in clicks'
      PROVE  /\ q = [kind |-> q.kind, id |-> q.id, by |-> q.by, key |-> q.key, own |-> q.own,
              served |-> q.served]
             /\ q.by = q.id
  <2>1. PICK p \in clicks, own \in BOOLEAN : q = [p EXCEPT !.own = own]
    BY DEF List!Render
  <2>2. p = [kind |-> p.kind, id |-> p.id, by |-> p.by, key |-> p.key, own |-> p.own,
              served |-> p.served]
        /\ p.by = p.id
    BY DEF ClicksInv
  <2>3. q = [kind |-> p.kind, id |-> p.id, by |-> p.by, key |-> p.key, own |-> own,
              served |-> p.served]
    BY <2>1, <2>2
  <2> QED
    BY <2>2, <2>3
<1> QED
  BY <1>1, <1>2 DEF ClicksInv

LEMMA SendsClicks ==
  ASSUME ClicksInv, NEW post, NEW i, NEW key, List!Sends(post, i, i, key), arming' = arming
  PROVE  ClicksInv'
<1> DEFINE q == [kind |-> post, id |-> i, by |-> i, key |-> key, own |-> TRUE,
                served |-> FALSE]
<1>1. clicks' = clicks \cup {q}
  BY DEF List!Sends
<1>2. q = [kind |-> q.kind, id |-> q.id, by |-> q.by, key |-> q.key, own |-> q.own,
              served |-> q.served]
      /\ q.by = q.id
  OBVIOUS
<1> HIDE DEF q
<1> QED
  BY <1>1, <1>2 DEF ClicksInv

LEMMA ClicksNext == ClicksInv /\ [List!Next]_(List!vars) => ClicksInv'
<1> SUFFICES ASSUME ClicksInv, [List!Next]_(List!vars) PROVE ClicksInv'
  OBVIOUS
<1>1. ASSUME arming' \subseteq arming, clicks' \subseteq clicks
      PROVE  ClicksInv'
  BY <1>1 DEF ClicksInv
<1>2. CASE List!Server
  BY <1>1, <1>2 DEF List!Server, List!buttons
<1>3. CASE List!Loads
  BY <1>1, <1>3, RenderClicks DEF List!Loads, List!LoadNow, List!SlowLoad, List!SlowArrives,
     List!LoadFails, List!Serve, List!buttons
<1>4. CASE List!Visitor
  <2>1. CASE List!ToggleActive
    BY <2>1, RenderClicks DEF List!ToggleActive
  <2>2. CASE List!ClickCreate
    BY <1>1, <2>2 DEF List!ClickCreate, List!buttons
  <2>3. ASSUME NEW q \in Pipelines, NEW d \in {-1, 1}, List!Turn(q, d)
        PROVE  ClicksInv'
    BY <2>3, RenderClicks DEF List!Turn
  <2>4. ASSUME NEW i \in Ids, List!ClickDelete(i)
        PROVE  ClicksInv'
    <3> DEFINE key == List!KeyOf(shown, ui, i)
    <3>1. key = i
      BY DEF List!KeyOf
    <3>2. CASE \E a \in {b \in arming : b.key = key} :
                 List!Sends("delete", i, a.by, key) /\ UNCHANGED arming
      <4>1. PICK a \in {b \in arming : b.key = key} :
                   List!Sends("delete", i, a.by, key) /\ UNCHANGED arming
        BY <3>2
      <4>2. a.by = i
        BY <3>1 DEF ClicksInv
      <4> QED
        BY <4>1, <4>2, SendsClicks
    <3>3. CASE arming' = arming \cup {[key |-> key, by |-> i]} /\ clicks' = clicks
      BY <3>1, <3>3 DEF ClicksInv
    <3> QED
      BY <2>4, <3>2, <3>3 DEF List!ClickDelete
  <2>5. ASSUME NEW i \in Ids, NEW post \in {"stop", "retry"}, List!Click(post, i)
        PROVE  ClicksInv'
    BY <2>5, SendsClicks DEF List!Click
  <2> QED
    BY <1>4, <2>1, <2>2, <2>3, <2>4, <2>5 DEF List!Visitor
<1>5. CASE List!Answers
  <2>1. ASSUME NEW p \in clicks, List!ServePost(p)
        PROVE  ClicksInv'
    <3>0. PICK b \in BOOLEAN : b = TRUE
      OBVIOUS
    <3> DEFINE q == [p EXCEPT !.served = b]
    <3>1. clicks' = (clicks \ {p}) \cup {q} /\ arming' = arming
      BY <2>1, <3>0 DEF List!ServePost
    <3>2. /\ p = [kind |-> p.kind, id |-> p.id, by |-> p.by, key |-> p.key, own |-> p.own,
                  served |-> p.served]
          /\ p.by = p.id
      BY DEF ClicksInv
    <3>3. q = [kind |-> p.kind, id |-> p.id, by |-> p.by, key |-> p.key, own |-> p.own,
               served |-> b]
      BY <3>2
    <3> HIDE DEF q
    <3>4. /\ q = [kind |-> q.kind, id |-> q.id, by |-> q.by, key |-> q.key, own |-> q.own,
                  served |-> q.served]
          /\ q.by = q.id
      BY <3>2, <3>3
    <3> QED
      BY <3>1, <3>4 DEF ClicksInv
  <2>2. CASE List!Created \/ \E p \in clicks : List!Answered(p) \/ List!Refused(p)
    BY <1>1, <2>2 DEF List!Created, List!Answered, List!Refused, List!buttons
  <2> QED
    BY <1>5, <2>1, <2>2 DEF List!Answers
<1>6. CASE List!Timers
  BY <1>1, <1>6 DEF List!Timers, List!Disarm
<1>7. CASE UNCHANGED List!vars
  BY <1>1, <1>7 DEF List!vars
<1> QED
  BY <1>2, <1>3, <1>4, <1>5, <1>6, <1>7 DEF List!Next

\* A run is deleted after two clicks on its own button only, however the rows have
\* moved, since React keeps a button's state under the run's name (DeleteButton.tsx).
LEMMA DeletesAreConfirmed == List!Spec => []List!DeletesConfirmed
<1>1. ClicksInv => List!DeletesConfirmed
  BY DEF ClicksInv, List!DeletesConfirmed
<1> QED
  BY <1>1, ClicksInit, ClicksNext, PTL DEF List!Spec

-----------------------------------------------------------------------------
(* The history of issues (IssueHistory).                                   *)

\* The page was not told of the row, or its answer is on its way.
Told(r) == r \in unseen \/ \E c \in calls : c.row = r /\ c.served

\* Nothing is done in the page before its load has arrived.
HistoryLoads ==
  /\ rows.st = "done" <=> page.st # "loading"
  /\ page.st # "shown" => calls = {}
  /\ rows.st = "served" =>
       \A r \in History!Rows : (r \in rows.rows) = (r \in handled) \/ r \in unseen

\* Where one call for a row was under way at a time its answer is about the row as it is.
HistoryCalls ==
  /\ \A c, d \in calls : c.row = d.row => c = d \/ c.row \in unseen
  /\ \A c \in calls : c.served => (c.row \in handled) = (c.kind = "skip") \/ c.row \in unseen
  /\ page.st = "shown" =>
       \A r \in History!Rows : (r \in page.records) = (r \in handled) \/ Told(r)

HistoryInv == History!TypeOK /\ HistoryLoads /\ HistoryCalls

LEMMA HistoryInit == History!Init => HistoryInv
<1> SUFFICES ASSUME History!Init PROVE HistoryInv
  OBVIOUS
<1>1. History!TypeOK
  BY HistoryAssumption DEF History!Init, History!TypeOK, History!Load, History!Page,
     History!NewPage, History!Rows
<1>2. HistoryLoads /\ HistoryCalls
  BY DEF History!Init, History!NewPage, HistoryLoads, HistoryCalls
<1> QED
  BY <1>1, <1>2 DEF HistoryInv

LEMMA HistoryTypes ==
  ASSUME History!TypeOK, History!Next
  PROVE  History!TypeOK'
<1>1. /\ handled \subseteq History!Rows /\ unseen \subseteq History!Rows
      /\ rows \in History!Load /\ page \in History!Page
      /\ asks \subseteq History!Ask /\ calls \subseteq History!Call
  BY DEF History!TypeOK
<1>2. Open \subseteq History!Rows
  BY HistoryAssumption DEF History!Rows
<1>3. CASE History!ServeLoad \/ History!LoadArrives \/ History!LoadFails
  <2>1. CASE History!ServeLoad
    BY <1>1, <2>1 DEF History!ServeLoad, History!TypeOK, History!Load
  <2>2. CASE History!LoadArrives
    <3>1. rows' \in History!Load /\ page' \in History!Page
      BY <1>1, <2>2 DEF History!LoadArrives, History!Load, History!Page
    <3> QED
      BY <1>1, <2>2, <3>1 DEF History!LoadArrives, History!TypeOK
  <2>3. CASE History!LoadFails
    <3>1. rows' \in History!Load /\ page' \in History!Page
      BY <1>1, <2>3 DEF History!LoadFails, History!Load, History!Page
    <3> QED
      BY <1>1, <2>3, <3>1 DEF History!LoadFails, History!TypeOK
  <2> QED
    BY <1>3, <2>1, <2>2, <2>3
<1>4. CASE History!ChoicesArrive \/ History!Deselect
  BY <1>1, <1>4 DEF History!ChoicesArrive, History!Deselect, History!TypeOK, History!Page
<1>5. ASSUME NEW p \in Pipelines, History!Select(p)
      PROVE  History!TypeOK'
  <2>1. [of |-> p, served |-> FALSE, keys |-> {}] \in History!Ask
    BY DEF History!Ask
  <2>2. page' \in History!Page
    BY <1>1, <1>5 DEF History!Select, History!Page
  <2> QED
    BY <1>1, <1>5, <2>1, <2>2 DEF History!Select, History!TypeOK
<1>6. ASSUME NEW a \in asks, History!ServeAsk(a)
      PROVE  History!TypeOK'
  <2>1. PICK keys \in History!PendingOf(a.of) :
               asks' = (asks \ {a}) \cup {[a EXCEPT !.served = TRUE, !.keys = keys]}
    BY <1>6 DEF History!ServeAsk
  <2>2. keys \in SUBSET Keys
    BY DEF History!PendingOf
  <2>3. [a EXCEPT !.served = TRUE, !.keys = keys] \in History!Ask
    BY <1>1, <2>2 DEF History!Ask
  <2> QED
    BY <1>1, <1>6, <2>1, <2>3 DEF History!ServeAsk, History!TypeOK
<1>7. ASSUME NEW a \in asks, History!AskArrives(a) \/ History!AskFails(a)
      PROVE  History!TypeOK'
  BY <1>1, <1>7 DEF History!AskArrives, History!AskFails, History!TypeOK, History!Page,
     History!Ask
<1>8. ASSUME NEW post \in {"skip", "clear"}, NEW r \in History!Rows, History!Send(post, r),
             page' \in History!Page
      PROVE  History!TypeOK'
  <2>1. [kind |-> post, row |-> r, served |-> FALSE] \in History!Call
    BY DEF History!Call
  <2> QED
    BY <1>1, <1>8, <2>1 DEF History!Send, History!TypeOK
<1>9. ASSUME NEW k \in Keys, History!ClickSkip(k) \/ History!EnterSkip(k)
      PROVE  History!TypeOK'
  <2>1. <<page.sel, k>> \in History!Rows
    BY <1>1, <1>9 DEF History!ClickSkip, History!EnterSkip, History!Page, History!Rows
  <2>2. page' \in History!Page
    BY <1>1, <1>9 DEF History!ClickSkip, History!EnterSkip, History!Page
  <2> QED
    BY <1>8, <1>9, <2>1, <2>2 DEF History!ClickSkip, History!EnterSkip
<1>10. ASSUME NEW r \in History!Rows, History!ClickClear(r)
       PROVE  History!TypeOK'
  BY <1>1, <1>8, <1>10 DEF History!ClickClear
<1>11. ASSUME NEW c \in calls, History!ServeCall(c)
       PROVE  History!TypeOK'
  <2>1. [c EXCEPT !.served = TRUE] \in History!Call /\ c.row \in History!Rows
    BY <1>1 DEF History!Call
  <2> QED
    BY <1>1, <1>11, <2>1 DEF History!ServeCall, History!TypeOK
<1>12. ASSUME NEW c \in calls, History!CallAnswered(c)
       PROVE  History!TypeOK'
  <2>1. c.row \in History!Rows
    BY <1>1 DEF History!Call
  <2>2. page' \in History!Page
    BY <1>1, <1>12, <2>1 DEF History!CallAnswered, History!Cleared, History!Page
  <2> QED
    BY <1>1, <1>12, <2>2 DEF History!CallAnswered, History!TypeOK
<1>13. ASSUME NEW c \in calls, History!CallFails(c)
       PROVE  History!TypeOK'
  <2>1. c.row \in History!Rows
    BY <1>1 DEF History!Call
  <2>2. page' \in History!Page
    BY <1>1, <1>13 DEF History!CallFails, History!Page
  <2> QED
    BY <1>1, <1>13, <2>1, <2>2 DEF History!CallFails, History!TypeOK
<1>14. ASSUME NEW r \in Open, History!Others(r)
       PROVE  History!TypeOK'
  BY <1>1, <1>2, <1>14 DEF History!Others, History!TypeOK
<1> QED
  BY <1>3, <1>4, <1>5, <1>6, <1>7, <1>9, <1>10, <1>11, <1>12, <1>13, <1>14 DEF History!Next

LEMMA HistoryOpens ==
  ASSUME HistoryInv, History!TypeOK',
         History!ServeLoad \/ History!LoadArrives \/ History!LoadFails
  PROVE  HistoryInv'
<1>1. rows \in History!Load /\ page \in History!Page
  BY DEF HistoryInv, History!TypeOK
<1>2. handled' = handled /\ calls' = calls
  BY DEF History!ServeLoad, History!LoadArrives, History!LoadFails
<1>3. CASE History!ServeLoad
  <2>1. /\ page' = page /\ rows.st = "sent" /\ unseen' = {}
        /\ rows'.st = "served" /\ rows'.rows = handled
    BY <1>3 DEF History!ServeLoad
  <2>2. page.st = "loading" /\ calls = {}
    BY <2>1 DEF HistoryInv, HistoryLoads
  <2>3. HistoryLoads' /\ HistoryCalls'
    BY <1>2, <2>1, <2>2 DEF HistoryLoads, HistoryCalls
  <2> QED
    BY <2>3 DEF HistoryInv
<1>4. CASE History!LoadArrives \/ History!LoadFails
  <2>1. rows.st # "done" /\ rows'.st = "done" /\ unseen' = unseen
    BY <1>4 DEF History!LoadArrives, History!LoadFails
  <2>2. \/ page'.st = "error"
        \/ page'.st = "shown" /\ page'.records = rows.rows /\ rows.st = "served"
    <3>1. CASE History!LoadArrives
      BY <1>1, <3>1 DEF History!LoadArrives, History!Page
    <3>2. CASE History!LoadFails
      BY <1>1, <3>2 DEF History!LoadFails, History!Page
    <3> QED
      BY <1>4, <3>1, <3>2
  <2>3. page.st = "loading" /\ calls = {}
    BY <2>1 DEF HistoryInv, HistoryLoads
  <2>4. HistoryLoads'
    BY <1>2, <2>1, <2>2, <2>3 DEF HistoryLoads
  <2>5. HistoryCalls'
    BY <1>2, <2>1, <2>2, <2>3 DEF HistoryInv, HistoryLoads, HistoryCalls, Told, History!Rows
  <2> QED
    BY <2>4, <2>5 DEF HistoryInv
<1> QED
  BY <1>3, <1>4

\* The choices, the selection and the pending issues leave the table as it is.
LEMMA HistoryPending ==
  ASSUME HistoryInv, History!TypeOK',
         \/ History!ChoicesArrive \/ History!Deselect
         \/ \E p \in Pipelines : History!Select(p)
         \/ \E a \in asks : History!ServeAsk(a) \/ History!AskArrives(a) \/ History!AskFails(a)
  PROVE  HistoryInv'
<1>1. page \in History!Page
  BY DEF HistoryInv, History!TypeOK
<1>2. /\ handled' = handled /\ rows' = rows /\ calls' = calls /\ unseen' = unseen
      /\ page'.st = page.st /\ page'.records = page.records
  <2>1. CASE \E a \in asks :
               History!ServeAsk(a) \/ History!AskArrives(a) \/ History!AskFails(a)
    BY <1>1, <2>1 DEF History!ServeAsk, History!AskArrives, History!AskFails, History!Page
  <2>2. CASE \/ History!ChoicesArrive \/ History!Deselect
             \/ \E p \in Pipelines : History!Select(p)
    BY <1>1, <2>2 DEF History!ChoicesArrive, History!Deselect, History!Select, History!Page
  <2> QED
    BY <2>1, <2>2
<1>3. HistoryLoads' /\ HistoryCalls'
  BY <1>2 DEF HistoryInv, HistoryLoads, HistoryCalls, Told, History!Rows
<1> QED
  BY <1>3 DEF HistoryInv

\* A call about a row that another call is about is one that the page loses track of.
LEMMA HistorySends ==
  ASSUME HistoryInv, History!TypeOK', page.st = "shown",
         NEW post, NEW r, History!Send(post, r),
         page'.st = page.st, page'.records = page.records
  PROVE  HistoryInv'
<1> DEFINE d == [kind |-> post, row |-> r, served |-> FALSE]
<1>1. /\ handled' = handled /\ rows' = rows /\ calls' = calls \cup {d}
      /\ unseen' = IF \E c \in calls : c.row = r THEN unseen \cup {r} ELSE unseen
  BY DEF History!Send, History!InFlight
<1>2. d.row = r /\ ~d.served
  OBVIOUS
<1> HIDE DEF d
<1>3. unseen \subseteq unseen' /\ (r \in unseen' \/ \A c \in calls : c.row # r)
  BY <1>1
<1>4. \A x : Told(x) => Told(x)'
  BY <1>1, <1>3 DEF Told
<1>5. HistoryLoads'
  BY <1>1, <1>3 DEF HistoryInv, HistoryLoads, History!Rows
<1>6. HistoryCalls'
  <2>1. \A a, b \in calls' : a.row = b.row => a = b \/ a.row \in unseen'
    BY <1>1, <1>2, <1>3 DEF HistoryInv, HistoryCalls
  <2>2. \A c \in calls' :
          c.served => (c.row \in handled) = (c.kind = "skip") \/ c.row \in unseen'
    BY <1>1, <1>2, <1>3 DEF HistoryInv, HistoryCalls
  <2> QED
    BY <1>1, <1>4, <2>1, <2>2 DEF HistoryInv, HistoryCalls, History!Rows
<1> QED
  BY <1>5, <1>6 DEF HistoryInv

LEMMA HistoryClicks ==
  ASSUME HistoryInv, History!TypeOK',
         \/ \E k \in Keys : History!ClickSkip(k) \/ History!EnterSkip(k)
         \/ \E r \in History!Rows : History!ClickClear(r)
  PROVE  HistoryInv'
<1>1. page \in History!Page
  BY DEF HistoryInv, History!TypeOK
<1>2. page.st = "shown"
  BY DEF History!ClickSkip, History!EnterSkip, History!ClickClear, History!Shown
<1>3. page'.st = page.st /\ page'.records = page.records
  BY <1>1 DEF History!ClickSkip, History!EnterSkip, History!ClickClear, History!Page
<1>4. PICK post \in {"skip", "clear"} : \E r : History!Send(post, r)
  BY DEF History!ClickSkip, History!EnterSkip, History!ClickClear
<1> QED
  BY <1>2, <1>3, <1>4, HistorySends

\* When a call is served its row changes in the server, which its answer will tell.
LEMMA HistoryServes ==
  ASSUME HistoryInv, History!TypeOK', NEW c \in calls, History!ServeCall(c)
  PROVE  HistoryInv'
<1> DEFINE d == [c EXCEPT !.served = TRUE]
<1>1. /\ rows' = rows /\ unseen' = unseen /\ page' = page
      /\ calls' = (calls \ {c}) \cup {d} /\ ~c.served
      /\ handled' = IF c.kind = "skip" THEN handled \cup {c.row} ELSE handled \ {c.row}
  BY DEF History!ServeCall
<1>2. d.row = c.row /\ d.kind = c.kind /\ d.served
  BY DEF HistoryInv, History!TypeOK, History!Call
<1> HIDE DEF d
<1>3. /\ page.st = "shown" /\ rows.st = "done"
      /\ \A b \in calls : b.row = c.row => b = c \/ c.row \in unseen
  BY DEF HistoryInv, HistoryLoads, HistoryCalls, History!TypeOK, History!Page
<1>4. /\ \A r : r # c.row => (r \in handled' <=> r \in handled)
      /\ c.row \in handled' <=> c.kind = "skip"
  BY <1>1
<1>5. \A r : Told(r) => Told(r)'
  <2> SUFFICES ASSUME NEW r, Told(r) PROVE Told(r)'
    OBVIOUS
  <2>1. CASE r \in unseen
    BY <1>1, <2>1 DEF Told
  <2>2. CASE \E b \in calls : b.row = r /\ b.served
    BY <1>1, <2>2 DEF Told
  <2> QED
    BY <2>1, <2>2 DEF Told
<1>6. Told(c.row)'
  BY <1>1, <1>2 DEF Told
<1>7. HistoryLoads'
  BY <1>1, <1>3 DEF HistoryInv, HistoryLoads
<1>8. HistoryCalls'
  <2>1. \A a, b \in calls' : a.row = b.row => a = b \/ a.row \in unseen'
    BY <1>1, <1>2, <1>3 DEF HistoryInv, HistoryCalls
  <2>2. ASSUME NEW b \in calls', b.served
        PROVE  (b.row \in handled') = (b.kind = "skip") \/ b.row \in unseen'
    <3>1. CASE b = d
      BY <1>2, <1>4, <3>1
    <3>2. CASE b # d
      <4>1. b \in calls /\ b # c
        BY <1>1, <3>2
      <4>2. CASE b.row = c.row
        BY <1>1, <1>3, <4>1, <4>2
      <4>3. CASE b.row # c.row
        BY <1>1, <1>4, <2>2, <4>1, <4>3 DEF HistoryInv, HistoryCalls
      <4> QED
        BY <4>2, <4>3
    <3> QED
      BY <3>1, <3>2
  <2>3. \A r \in History!Rows : (r \in page.records) = (r \in handled') \/ Told(r)'
    BY <1>3, <1>4, <1>5, <1>6 DEF HistoryInv, HistoryCalls
  <2> QED
    BY <1>1, <2>1, <2>2, <2>3 DEF HistoryCalls, History!Rows
<1> QED
  BY <1>7, <1>8 DEF HistoryInv

\* The answer brings the row of the table to what the call has made of it.
LEMMA HistoryAnswered ==
  ASSUME HistoryInv, History!TypeOK', NEW c \in calls, History!CallAnswered(c)
  PROVE  HistoryInv'
<1>1. /\ rows' = rows /\ unseen' = unseen /\ handled' = handled
      /\ calls' = calls \ {c} /\ c.served
  BY DEF History!CallAnswered
<1>2. /\ page \in History!Page /\ c.kind \in {"skip", "clear"} /\ c.row \in History!Rows
  BY DEF HistoryInv, History!TypeOK, History!Call
<1>3. /\ page.st = "shown" /\ rows.st = "done"
      /\ (c.row \in handled) = (c.kind = "skip") \/ c.row \in unseen
  BY <1>1 DEF HistoryInv, HistoryLoads, HistoryCalls, History!TypeOK, History!Page
<1>4. page'.st = page.st
  BY <1>2 DEF History!CallAnswered, History!Page
<1>5. page'.records = IF c.kind = "skip" THEN page.records \cup {c.row}
                      ELSE page.records \ {c.row}
  BY <1>2 DEF History!CallAnswered, History!Cleared, History!Page
<1>6. \A r : r # c.row /\ Told(r) => Told(r)'
  BY <1>1 DEF Told
<1>7. HistoryLoads'
  BY <1>1, <1>3, <1>4 DEF HistoryLoads
<1>8. HistoryCalls'
  <2>1. ASSUME NEW r \in History!Rows
        PROVE  (r \in page'.records) = (r \in handled) \/ Told(r)'
    <3>1. CASE r = c.row
      BY <1>1, <1>3, <1>5, <3>1 DEF Told
    <3>2. CASE r # c.row
      BY <1>3, <1>5, <1>6, <3>2 DEF HistoryInv, HistoryCalls
    <3> QED
      BY <3>1, <3>2
  <2> QED
    BY <1>1, <2>1 DEF HistoryInv, HistoryCalls, History!Rows
<1> QED
  BY <1>7, <1>8 DEF HistoryInv

\* An answer that is lost leaves the page without what the server has done.
LEMMA HistoryFails ==
  ASSUME HistoryInv, History!TypeOK', NEW c \in calls, History!CallFails(c)
  PROVE  HistoryInv'
<1>1. /\ rows' = rows /\ handled' = handled /\ calls' = calls \ {c}
      /\ unseen' = IF c.served THEN unseen \cup {c.row} ELSE unseen
  BY DEF History!CallFails
<1>2. page \in History!Page
  BY DEF HistoryInv, History!TypeOK
<1>3. page.st = "shown" /\ rows.st = "done"
  BY DEF HistoryInv, HistoryLoads, History!TypeOK, History!Page
<1>4. page'.st = page.st /\ page'.records = page.records
  BY <1>2 DEF History!CallFails, History!Page
<1>5. \A r : Told(r) => Told(r)'
  BY <1>1 DEF Told
<1>6. HistoryLoads'
  BY <1>1, <1>3, <1>4 DEF HistoryLoads
<1>7. HistoryCalls'
  BY <1>1, <1>4, <1>5 DEF HistoryInv, HistoryCalls, History!Rows
<1> QED
  BY <1>6, <1>7 DEF HistoryInv

LEMMA HistoryOthers ==
  ASSUME HistoryInv, History!TypeOK', NEW r \in Open, History!Others(r)
  PROVE  HistoryInv'
<1>1. /\ rows' = rows /\ calls' = calls /\ page' = page /\ unseen' = unseen \cup {r}
      /\ \A x : x # r => (x \in handled' <=> x \in handled)
  BY DEF History!Others
<1>2. \A x : (Told(x) => Told(x)') /\ Told(r)'
  BY <1>1 DEF Told
<1>3. HistoryLoads'
  BY <1>1 DEF HistoryInv, HistoryLoads, History!Rows
<1>4. HistoryCalls'
  BY <1>1, <1>2 DEF HistoryInv, HistoryCalls, History!Rows
<1> QED
  BY <1>3, <1>4 DEF HistoryInv

LEMMA HistoryNext == HistoryInv /\ [History!Next]_(History!vars) => HistoryInv'
<1> SUFFICES ASSUME HistoryInv, [History!Next]_(History!vars) PROVE HistoryInv'
  OBVIOUS
<1>1. CASE UNCHANGED History!vars
  BY <1>1 DEF History!vars, HistoryInv, HistoryLoads, HistoryCalls, Told,
     History!TypeOK, History!Rows, History!Load, History!Page, History!Ask, History!Call
<1>2. CASE History!Next
  <2>1. History!TypeOK'
    BY <1>2, HistoryTypes DEF HistoryInv
  <2> QED
    BY <1>2, <2>1, HistoryOpens, HistoryPending, HistoryClicks,
       HistoryServes, HistoryAnswered, HistoryFails, HistoryOthers DEF History!Next
<1> QED
  BY <1>1, <1>2

\* The table of the history alone.
LEMMA HistoryKeepsUp == History!Spec => []History!RecordsMatch
<1>1. HistoryInv => History!RecordsMatch
  BY DEF HistoryInv, HistoryCalls, Told, History!RecordsMatch, History!Shown, History!InFlight
<1> QED
  BY <1>1, HistoryInit, HistoryNext, PTL DEF History!Spec

-----------------------------------------------------------------------------
(* The dashboard                                                           *)

\* A route mounts one page and leaves the others as they are (App.tsx), so that a
\* visit to the dashboard is a behaviour of each of its pages.
LEMMA DashboardIsItsPages ==
  DashboardSpec => History!Spec /\ List!Spec
<1>1. DashboardInit => History!Init /\ List!Init
  BY DEF DashboardInit
<1>2. [DashboardNext]_all => [History!Next]_(History!vars) /\ [List!Next]_(List!vars)
  BY DEF DashboardNext, VisitForm, VisitHistory, VisitList, VisitText, all, history, list,
     History!vars, List!vars
<1> QED
  BY <1>1, <1>2, PTL DEF DashboardSpec, History!Spec, List!Spec

\* The table of the history and the server drift apart only where a call is under
\* way, the page was not told, or two calls crossed, for every number of pipelines,
\* issues and calls (handleSkip, handleClear of IssueHistory.tsx).
THEOREM TableMatchesHistory == DashboardSpec => []RecordsMatch
BY DashboardIsItsPages, HistoryKeepsUp, PTL DEF RecordsMatch

\* No run is deleted but by two clicks on its own button, however the rows of a list
\* have moved between them (DeleteButton.tsx under the key of its row).
THEOREM DeletesNeedTwoClicks == DashboardSpec => []DeletesConfirmed
BY DashboardIsItsPages, DeletesAreConfirmed, PTL DEF DeletesConfirmed
=============================================================================
