-------------------------- MODULE MCQuestionnaires --------------------------
(***************************************************************************)
(* Two surveys and a form for TLC: "rating" has a required and an optional *)
(* score, "chain" a question behind a question behind a question and one   *)
(* behind a list, the form a consent it requires and one it does not.      *)
(***************************************************************************)
EXTENDS Questionnaires

Control(id, type, required, inputs) == [id |-> id, type |-> type, required |-> required, inputs |-> inputs]

Question(id, type, required, options, visibleWhen) ==
  [id |-> id, type |-> type, required |-> required, options |-> options,
   min |-> Unset, max |-> Unset, visibleWhen |-> visibleWhen]

Definition(id, controls, questions, prohibited, anonymous, consents) ==
  [id |-> id, controls |-> controls, questions |-> questions, prohibited |-> prohibited,
   anonymousAllowed |-> anonymous, requiredConsents |-> consents]

When(on, operator, value) == [on |-> on, operator |-> operator, value |-> value]

Rating == Definition("rating",
  {Control("score", "nps", TRUE, {Blank, 6, 8, 9}), Control("again", "rating", FALSE, {Blank, 4})},
  {Question("score", "nps", TRUE, Unset, Unset), [Question("again", "rating", FALSE, Unset, Unset) EXCEPT !.min = 0, !.max = 5]},
  {"ssn"}, TRUE, {})

Chain == Definition("chain",
  {Control("a", "radio", FALSE, {"yes", "no"}), Control("b", "radio", FALSE, {"x", "y"}),
   Control("c", "text", FALSE, {Blank, "some", "long"})},
  {Question("a", "yes_no", TRUE, {"yes", "no"}, Unset),
   Question("b", "single_choice", TRUE, {"x", "y"}, When("a", "equals", "yes")),
   Question("c", "text", TRUE, Unset, When("b", "equals", "x")),
   Question("d", "multiple_choice", FALSE, {"p", "q"}, Unset),
   Question("e", "text", TRUE, Unset, When("d", "includes", "p"))},
  {"ssn"}, FALSE, {})

SurveySet == {Rating, Chain}

FormSet == {Definition("lead",
  {Control("email", "email", TRUE, {Blank, "address"}), Control("privacyConsent", "checkbox", FALSE, {Blank, "on"}),
   Control("marketingConsent", "checkbox", FALSE, {Blank, "on"}), Control("size", "number", FALSE, {Blank, 3})},
  {Question("email", "email", TRUE, Unset, Unset), Question("size", "number", FALSE, Unset, Unset)},
  {"ssn"}, FALSE, {"privacy"})}

GivenAnswers ==
  [rating |-> {[score |-> v] : v \in {Number(NaN), Number(Half), Number(11), Number(9), Text("9")}}
               \cup {[score |-> Number(7), ssn |-> Text("some")], [again |-> Number(4)]},
   chain |-> {[a |-> Text("yes"), b |-> Text("x"), c |-> Text("some")], [a |-> Text("no"), d |-> List({"p"})],
              [a |-> Text("no"), d |-> List({"p", "q"}), e |-> Text("some"), f |-> Text("some")],
              [a |-> Text("no"), d |-> List({"r"})], [a |-> Text("no"), d |-> List({})]},
   lead |-> {[email |-> Text("address"), privacyConsent |-> Text("some")],
             [email |-> Text("some"), privacyConsent |-> Bool(TRUE)],
             [email |-> Text("address"), privacyConsent |-> Bool(TRUE), marketingConsent |-> Bool(TRUE),
              name |-> Text("some"), size |-> Number(3)]}]

(* A page stays the one it is. *)
MCContentNext == ContentNext /\ (page.of # Unset => page'.of = page.of /\ (stored # << >> => closed' = closed))
=============================================================================
