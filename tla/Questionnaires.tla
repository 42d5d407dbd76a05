--------------------------- MODULE Questionnaires ---------------------------
(***************************************************************************)
(* What a respondent's answers become: the controls of a mounted page      *)
(* (formValues, normalizeValue), the survey and form engines that judge    *)
(* them and build a submission (validateSurvey, buildSurveySubmission,     *)
(* validateForm, buildIntakeSubmission), CodestraIntakeClient, which sends *)
(* it, the adapter's check of its tenant, and calculateNps over what has   *)
(* been stored.  Other callers hand the engines answers of their own.      *)
(*                                                                         *)
(* An answer is a pair of its JavaScript type and a value; texts are the   *)
(* few that rules tell apart, "long" being over every maxLength.           *)
(***************************************************************************)
EXTENDS Integers, FiniteSets, Sequences

CONSTANTS Surveys,   \* survey definitions
          Forms,     \* form definitions
          Unset,     \* no rule, no bound, nothing rendered
          Undefined, \* an answer that is not there
          Given,     \* what callers other than the page hand over, by definition
          Blank,     \* a control left empty, a radio group or checkbox left alone
          NaN, Half, \* numbers that are not whole: NaN, and 7.5
          MaxStored  \* bound on submissions kept

(* What is undefined is no text; no bound and what is not whole no whole number. *)
ASSUME ValuesAssumption ==
  /\ NaN \notin Int /\ Half \notin Int /\ Unset \notin Int
  /\ \A survey \in Surveys : \A q \in survey.questions :
       q.visibleWhen # Unset => Undefined # <<"string", q.visibleWhen.value>>

(* assertDefinition refuses two questions of one identifier. *)
ASSUME SurveysAreBuilt ==
  \A survey \in Surveys :
    IsFiniteSet(survey.questions) /\ \A q, r \in survey.questions : q.id = r.id => q = r

(* Where a page asks for a required score, it asks for a number, insists on  *)
(* it, and the browser lets no fraction through: there is no step.          *)
ASSUME PagesAskForScores ==
  \A survey \in Surveys : \A q \in survey.questions : q.type = "nps" /\ q.required =>
    \A c \in survey.controls : c.id = q.id =>
      c.type = "nps" /\ c.required /\ c.inputs \ {Blank} \subseteq Int

ASSUME StoredAssumption == MaxStored \in Nat

VARIABLES page,   \* the survey or form that is rendered, and what its controls hold
          closed, \* whether the surveys' expiresAt has passed
          stored, \* submissions the gateway has taken, in order
          refused \* why the last submission was not taken

contentVars == <<page, closed, stored, refused>>

Text(t) == <<"string", t>>
Number(n) == <<"number", n>>
Bool(b) == <<"boolean", b>>
List(items) == <<"list", items>>

Answer(answers, id) == IF id \in DOMAIN answers THEN answers[id] ELSE Undefined
IsA(value, type) == value # Undefined /\ value[1] = type
RangeOf(seq) == {seq[i] : i \in DOMAIN seq}

-----------------------------------------------------------------------------
(* The page.                                                               *)

Numeric(control) == control.type \in {"number", "rating", "nps"}

(* normalizeValue: Number("") is 0. *)
NormalizeValue(control, raw) ==
  IF Numeric(control) THEN Number(IF raw = Blank THEN 0 ELSE raw)
  ELSE Text(IF raw = Blank THEN "" ELSE raw)

(* formValues: a radio group without selection has no entry, a checkbox is   *)
(* a boolean whether it is checked or not.                                  *)
FormValues(controls, held) ==
  [id \in {c.id : c \in {c \in controls : c.type # "radio" \/ held[c.id] # Blank}} |->
     LET control == CHOOSE c \in controls : c.id = id IN
     IF control.type = "checkbox" THEN Bool(held[id] # Blank) ELSE NormalizeValue(control, held[id])]

(* What form.reportValidity() lets through: no required control blank.      *)
ReportsValid(controls, held) ==
  \A c \in controls : c.required => held[c.id] # Blank

-----------------------------------------------------------------------------
(* intake-survey.                                                          *)

(* isVisible looks at the other question's answer, not at its visibility;    *)
(* a rule's value is a string, so no number is ever equal to it.            *)
Visible(question, answers) ==
  \/ question.visibleWhen = Unset
  \/ LET rule == question.visibleWhen
         current == Answer(answers, rule.on)
     IN IF rule.operator = "equals" THEN current = Text(rule.value)
        ELSE IsA(current, "list") /\ rule.value \in current[2]

Empty(value) == value \in {Undefined, Text(""), List({})}

TypeFits(type, value) ==
  CASE type \in {"text", "single_choice", "yes_no"} -> IsA(value, "string")
    [] type = "multiple_choice"                     -> IsA(value, "list")
    [] type \in {"rating", "nps"}                   -> IsA(value, "number")
    [] OTHER                                        -> TRUE

(* Only a comparison that holds is a failure: none holds of NaN. *)
RangeFits(question, value) ==
  ~ IsA(value, "number") \/ value[2] \in {NaN, Half}
    \/ LET lo == IF question.type = "nps" THEN 0 ELSE question.min
           hi == IF question.type = "nps" THEN 10 ELSE question.max
       IN (lo = Unset \/ value[2] >= lo) /\ (hi = Unset \/ value[2] <= hi)

OptionsFit(question, value) ==
  \/ question.options = Unset
  \/ /\ IsA(value, "string") => value[2] \in question.options
     /\ IsA(value, "list") => value[2] \subseteq question.options

ValidAnswer(question, value) ==
  /\ TypeFits(question.type, value)
  /\ IsA(value, "string") => value[2] # "long"
  /\ RangeFits(question, value) /\ OptionsFit(question, value)

ValidSurvey(survey, answers) ==
  /\ ~ closed
  /\ DOMAIN answers \cap survey.prohibited = {}
  /\ \A q \in survey.questions : Visible(q, answers) =>
       LET value == Answer(answers, q.id) IN
       IF Empty(value) THEN ~ q.required ELSE ValidAnswer(q, value)

(* pickVisibleAnswers *)
VisibleAnswersWhole(survey, answers) == answers

VisibleAnswers(survey, answers) ==
  LET ids == {q.id : q \in {q \in survey.questions : Visible(q, answers)}} \cap DOMAIN answers
  IN [id \in ids |-> answers[id]]

(* buildSurveySubmission; an anonymous response loses its contact. *)
SurveySubmission(survey, answers, context) ==
  [kind |-> "survey", of |-> survey, tenant |-> context.tenant,
   anonymous |-> context.anonymous, contact |-> context.contact /\ ~ context.anonymous,
   given |-> answers, answers |-> VisibleAnswers(survey, answers), consent |-> Unset]

BuildsSurvey(survey, answers, context) ==
  ValidSurvey(survey, answers) /\ (context.anonymous => survey.anonymousAllowed)

-----------------------------------------------------------------------------
(* intake-form.                                                            *)

Common == {"name", "email", "privacyConsent", "marketingConsent"}

FieldFits(field, value) ==
  /\ field.type = "checkbox" => IsA(value, "boolean")
  /\ field.type \in {"text", "email"} => IsA(value, "string")
  /\ field.type = "number" => IsA(value, "number")
  /\ IsA(value, "string") =>
       /\ value[2] # "long"
       /\ field.type = "email" => value[2] = "address"
       /\ field.options # Unset => value[2] \in field.options

ValidForm(form, values) ==
  /\ DOMAIN values \cap form.prohibited = {}
  /\ \A field \in form.questions :
       LET value == Answer(values, field.id) IN
       IF value \in {Undefined, Text(""), Bool(FALSE)} THEN ~ field.required ELSE FieldFits(field, value)

(* stringValue: what is no string is dropped, whatever the form declares. *)
Contact(values) == {id \in {"name", "email"} : IsA(Answer(values, id), "string") /\ values[id] # Text("")}

BuildsForm(form, values) ==
  /\ ValidForm(form, values)
  /\ "privacy" \in form.requiredConsents => Answer(values, "privacyConsent") = Bool(TRUE)

(* buildIntakeSubmission: the declared fields, the contact's, the consents. *)
FormSubmission(form, values, context) ==
  LET declared == ({q.id : q \in form.questions} \ Common) \cap DOMAIN values IN
  [kind |-> "form", of |-> form, tenant |-> context.tenant,
   anonymous |-> FALSE, contact |-> Contact(values) # {}, given |-> values,
   answers |-> [id \in declared \cup Contact(values) |-> values[id]],
   consent |-> [privacy |-> Answer(values, "privacyConsent"), marketing |-> Answer(values, "marketingConsent")]]

-----------------------------------------------------------------------------
(* intake-sdk and the adapter.  Headers trims the tenant it is given, the    *)
(* body keeps it, and the adapter compares the two.                         *)
SdkTakes(submission) == ~ (submission.kind = "survey" /\ submission.anonymous /\ submission.contact)

Trimmed(tenant) == IF tenant = " t1" THEN "t1" ELSE tenant

AdapterTakes(submission) == Trimmed(submission.tenant) = submission.tenant

(* JSON.stringify writes NaN as null. *)
Written(submission) ==
  [submission EXCEPT !.answers = [id \in DOMAIN @ |-> IF @[id] = Number(NaN) THEN <<"null", "">> ELSE @[id]]]

Send(submission, origin) ==
  /\ refused' = IF ~ SdkTakes(submission) THEN "sdk" ELSE IF ~ AdapterTakes(submission) THEN "tenant" ELSE "none"
  /\ stored' = IF refused' = "none" THEN Append(stored, [sent |-> Written(submission), origin |-> origin]) ELSE stored
  /\ UNCHANGED <<page, closed>>

Builds(of, answers, context) ==
  IF of \in Surveys THEN BuildsSurvey(of, answers, context) ELSE BuildsForm(of, answers)

Submission(of, answers, context) ==
  IF of \in Surveys THEN SurveySubmission(of, answers, context) ELSE FormSubmission(of, answers, context)

Submit(of, answers, context, origin) ==
  IF Builds(of, answers, context) THEN Send(Submission(of, answers, context), origin)
  ELSE refused' = "answers" /\ UNCHANGED <<page, closed, stored>>

Contexts == [tenant : {"t1", " t1"}, anonymous : BOOLEAN, contact : BOOLEAN]

ContentInit ==
  /\ page = [of |-> Unset, held |-> << >>]
  /\ closed = FALSE
  /\ stored = << >>
  /\ refused = "none"

Render(of) ==
  /\ page' = [of |-> of, held |-> [id \in {c.id : c \in of.controls} |-> Blank]]
  /\ UNCHANGED <<closed, stored, refused>>

Enter(control, raw) ==
  /\ page' = [page EXCEPT !.held[control.id] = raw]
  /\ UNCHANGED <<closed, stored, refused>>

SubmitPage(context) ==
  /\ Len(stored) < MaxStored
  /\ ReportsValid(page.of.controls, page.held)
  /\ Submit(page.of, FormValues(page.of.controls, page.held), context,
            [page |-> TRUE, blank |-> {id \in DOMAIN page.held : page.held[id] = Blank}])

(* A chat or API caller. *)
SubmitGiven(of, answers, context) ==
  /\ Len(stored) < MaxStored
  /\ Submit(of, answers, context, [page |-> FALSE, blank |-> {}])

Expire == closed' = TRUE /\ ~ closed /\ UNCHANGED <<page, stored, refused>>

ContentNext ==
  \/ \E of \in Surveys \cup Forms : Render(of)
  \/ page.of # Unset /\
       \/ \E c \in page.of.controls : \E raw \in c.inputs : Enter(c, raw)
       \/ \E context \in Contexts : SubmitPage(context)
  \/ \E of \in Surveys \cup Forms : \E answers \in Given[of.id], context \in Contexts :
       SubmitGiven(of, answers, context)
  \/ Expire

ContentSpec == ContentInit /\ [][ContentNext]_contentVars

-----------------------------------------------------------------------------
(* calculateNps: undefined on anything but whole numbers from 0 to 10.      *)
NpsTakes(scores) == \A i \in DOMAIN scores : scores[i] \in {Number(n) : n \in 0 .. 10}

CountOf(scores, lo, hi) == Cardinality({i \in DOMAIN scores : scores[i][2] \in lo .. hi})

(* Math.round of the difference in percent: halves go up. *)
Rounded(difference, total) == (200 * difference + total) \div (2 * total)

Nps(scores) ==
  IF DOMAIN scores = {} THEN [score |-> 0, promoters |-> 0, passives |-> 0, detractors |-> 0]
  ELSE LET promoters == CountOf(scores, 9, 10)
           detractors == CountOf(scores, 0, 6)
       IN [promoters |-> promoters, passives |-> CountOf(scores, 7, 8), detractors |-> detractors,
           score |-> Rounded(promoters - detractors, Cardinality(DOMAIN scores))]

(* The page's answers to a survey's required NPS questions, and their scores. *)
RequiredNps(survey) == {q.id : q \in {q \in survey.questions : q.type = "nps" /\ q.required}}

Scored(survey) ==
  {k \in (DOMAIN stored) \X RequiredNps(survey) :
     stored[k[1]].origin.page /\ stored[k[1]].sent.of = survey /\ k[2] \in DOMAIN stored[k[1]].sent.answers}

Scores(survey) == [k \in Scored(survey) |-> stored[k[1]].sent.answers[k[2]]]

Submissions == {s.sent : s \in RangeOf(stored)}

ContentTypeOK ==
  /\ page.of \in Surveys \cup Forms \cup {Unset}
  /\ page.of # Unset => DOMAIN page.held = {c.id : c \in page.of.controls}
  /\ closed \in BOOLEAN /\ Len(stored) <= MaxStored
  /\ refused \in {"none", "sdk", "tenant", "answers"}
  /\ \A s \in Submissions : s.of \in Surveys \cup Forms /\ DOMAIN s.answers \subseteq DOMAIN s.given

(* A question whose condition is not on a declared, unconditional question. *)
Chained(q, survey) ==
  q.visibleWhen # Unset /\ ~ \E on \in survey.questions : on.id = q.visibleWhen.on /\ on.visibleWhen = Unset

ReadsAlone(s) ==
  /\ DOMAIN s.answers \subseteq {q.id : q \in s.of.questions} \ s.of.prohibited
  /\ \A q \in s.of.questions :
       /\ q.id \in DOMAIN s.answers => Chained(q, s.of) \/ Visible(q, s.answers)
       /\ q.required /\ Visible(q, s.answers) => q.id \in DOMAIN s.answers

(* What is stored can be read by its definition alone: every answer belongs  *)
(* to a declared question that its own answers make visible, and every       *)
(* required question they make visible is answered.  A condition on a        *)
(* question that is itself conditional is left out, it is judged by what     *)
(* the hidden question's control still holds; and one on a question that is  *)
(* not declared, whose answer is never stored.                              *)
StoredReadsAlone == \A s \in Submissions : s.kind = "survey" => ReadsAlone(s)

(* What the engines build the SDK takes, and the adapter unless the tenant   *)
(* has white space around it; an anonymous response names nobody.           *)
BuiltIsTaken ==
  /\ refused # "sdk"
  /\ \A s \in Submissions : (s.anonymous => ~ s.contact) /\ s.tenant = "t1"

(* The page's answers to a required NPS question can always be scored: each  *)
(* is one the respondent entered and counts once, and the score stays        *)
(* between -100 and 100.                                                    *)
PageCanBeScored ==
  \A survey \in Surveys :
    LET nps == Nps(Scores(survey)) IN
    /\ NpsTakes(Scores(survey))
    /\ \A k \in Scored(survey) : k[2] \notin stored[k[1]].origin.blank
    /\ nps.promoters + nps.passives + nps.detractors = Cardinality(Scored(survey))
    /\ nps.score \in -100 .. 100

(* No form is stored without the privacy consent it requires, and a consent  *)
(* is stored exactly as the respondent last left it.                        *)
ConsentAsGiven ==
  \A s \in Submissions : s.kind = "form" =>
    /\ "privacy" \in s.of.requiredConsents => s.consent.privacy = Bool(TRUE)
    /\ s.consent.marketing = Answer(s.given, "marketingConsent")

(* What the intake has stored is fit to be used: it reads by its definition *)
(* alone, was refused by nobody on its way, can be scored, and holds the    *)
(* consents its respondent gave.                                            *)
StoredIsFit == ContentTypeOK /\ StoredReadsAlone /\ BuiltIsTaken /\ PageCanBeScored /\ ConsentAsGiven
=============================================================================
