------------------------------- MODULE QueryPage -------------------------------
(***************************************************************************)
(* The page with the form: QueryForm together with FilterValidation, which *)
(* watches the text area of the form's advanced filter.                    *)
(***************************************************************************)
EXTENDS QueryForm

CONSTANT Verdict \* whether the service accepts each text as a filter

VARIABLES typed, timers, promise, questions, validity, done, upset

V == INSTANCE FilterValidation WITH text <- params.advancedFilter, MaxEdits <- MaxActs

validation == <<typed, timers, promise, questions, validity, done, upset>>
pageVars   == <<vars, validation>>

-----------------------------------------------------------------------------
PageInit == Init /\ V!Begin

\* The directive's parser runs when the user types in the area.
EditFilter == \E v \in Text : TypeFilter(v) /\ V!Type(v)

FilterTimer == UNCHANGED vars /\ V!TimerFires

FilterAnswer(n) == UNCHANGED vars /\ (V!Answer(n) \/ V!AnswerFails(n))

\* What becomes of the filter's validation when the form is cleared or the page loaded.
ClearForm == clear /\ V!Clear

LoadPage == (Load \/ reset) /\ V!Load

PageNext ==
  \/ (Typing \/ Sending \/ Enable \/ FiltersReady) /\ UNCHANGED validation
  \/ EditFilter \/ FilterTimer \/ (\E n \in 1..MaxActs : FilterAnswer(n))
  \/ ClearForm \/ LoadPage

PageSpec == PageInit /\ [][PageNext]_pageVars

(* Timers fire, and the browser reports for every request an answer or a failure. What    *)
(* the user does is not fair.                                                            *)
PageFairness ==
  /\ WF_pageVars(FilterTimer)
  /\ \A n \in 1..MaxActs : WF_pageVars(FilterAnswer(n))

FairPageSpec == PageSpec /\ PageFairness

-----------------------------------------------------------------------------
(* Properties: those of the form, and of the directive on this page. *)

(* The text of the advanced filter that was typed last is validated, also while queries  *)
(* are sent, tabs changed and the form cleared (app-directives.js:59-84).                *)
LastEditIsJudged == V!LastEditIsJudged

(* The text typed last is not left without an answer, or a failure                       *)
(* (app-directives.js:67-82).                                                            *)
EditsSettle == V!EditsSettle
=============================================================================
