--------------------------- MODULE FilterValidation ---------------------------
(***************************************************************************)
(* The directive that validates the advanced filter while it is typed:     *)
(* every change of the text schedules a question to the service in half a  *)
(* second and cancels the one scheduled before. Questions under way are    *)
(* not cancelled; their answers come in any order, or fail.                *)
(***************************************************************************)
EXTENDS Integers, Sequences

CONSTANTS
  Text,     \* what the text area may hold
  Verdict,  \* whether the service accepts each text as a filter
  Blank,    \* the empty text, the one a cleared form has
  MaxEdits  \* bound of the changes the user makes

VARIABLES
  text,      \* params.advancedFilter
  typed,     \* the texts typed so far; an edit is known by its number in this sequence
  timers,    \* edits whose question is scheduled; the timer set first fires first
  promise,   \* the edit whose timer the directive remembers, or 0
  questions, \* edits whose question is under way
  validity,  \* filterValidate of the form's controller
  done,      \* for the properties: edits whose question was answered, or failed
  upset      \* for the properties: an answer has failed or come after that of a later edit

vars == <<text, typed, timers, promise, questions, validity, done, upset>>

Edit == 1..Len(typed)
Last == Len(typed)

-----------------------------------------------------------------------------
\* A page begins without timers; a text it restores has not been validated.
Begin ==
  /\ typed = <<>> /\ timers = {} /\ promise = 0 /\ questions = {}
  /\ validity = TRUE /\ done = {} /\ upset = FALSE

Init == text \in Text /\ Begin

\* Seeded fault: what has been scheduled is left to happen, and nothing else is scheduled.
TypeThrottled(v) ==
  /\ Last < MaxEdits /\ v # text
  /\ text' = v
  /\ typed' = Append(typed, v)
  /\ IF promise # 0 THEN UNCHANGED <<timers, promise>>
     ELSE timers' = timers \cup {Last + 1} /\ promise' = Last + 1
  /\ UNCHANGED <<questions, validity, done, upset>>

\* The timer it remembers is cancelled, if it has not fired, and another one is set.
Type(v) ==
  /\ Last < MaxEdits /\ v # text
  /\ text' = v
  /\ typed' = Append(typed, v)
  /\ timers' = (timers \ {promise}) \cup {Last + 1}
  /\ promise' = Last + 1
  /\ UNCHANGED <<questions, validity, done, upset>>

\* Seeded fault: a timer the directive does not remember asks nothing.
TimerFiresIfRemembered ==
  \E n \in timers :
    /\ \A m \in timers : n <= m
    /\ timers' = timers \ {n}
    /\ questions' = IF n = promise THEN questions \cup {n} ELSE questions
    /\ UNCHANGED <<text, typed, promise, validity, done, upset>>

\* Half a second has passed. The directive goes on remembering the timer.
TimerFires ==
  \E n \in timers :
    /\ \A m \in timers : n <= m
    /\ timers' = timers \ {n}
    /\ questions' = questions \cup {n}
    /\ UNCHANGED <<text, typed, promise, validity, done, upset>>

\* The answer also makes it forget the timer of a later edit, which can then not be
\* cancelled any more.
Answer(n) ==
  /\ n \in questions
  /\ questions' = questions \ {n} /\ done' = done \cup {n}
  /\ validity' = Verdict[typed[n]]
  /\ promise' = 0
  /\ upset' = (upset \/ \E later \in done : later > n)
  /\ UNCHANGED <<text, typed, timers>>

AnswerFails(n) ==
  /\ n \in questions
  /\ questions' = questions \ {n} /\ done' = done \cup {n}
  /\ promise' = 0
  /\ upset' = TRUE
  /\ UNCHANGED <<text, typed, timers, validity>>

\* The form is cleared: no parser runs, so nothing is scheduled, cancelled or revised.
Clear ==
  /\ text' = Blank
  /\ UNCHANGED <<typed, timers, promise, questions, validity, done, upset>>

\* The page is loaded again: what was under way has gone.
Load ==
  /\ text' \in Text
  /\ typed' = <<>> /\ timers' = {} /\ promise' = 0 /\ questions' = {}
  /\ validity' = TRUE /\ done' = {} /\ upset' = FALSE

-----------------------------------------------------------------------------
Network == TimerFires \/ \E n \in questions : Answer(n) \/ AnswerFails(n)

Next == (\E v \in Text : Type(v)) \/ Network \/ Clear \/ Load

Spec == Init /\ [][Next]_vars

-----------------------------------------------------------------------------
(* Properties. *)

TypeOK ==
  /\ text \in Text \cup {Blank} /\ typed \in Seq(Text) /\ timers \subseteq Edit
  /\ promise \in 0..Last /\ questions \subseteq Edit /\ done \subseteq Edit
  /\ validity \in {TRUE} \cup {Verdict[t] : t \in Text} /\ upset \in BOOLEAN

Quiet == timers = {} /\ questions = {}

(* However edits, timers and answers interleave, the text that was typed last is         *)
(* validated: its question is scheduled, under way or answered. When all is quiet, and   *)
(* no answer has failed or been overtaken, the form is marked by the verdict about that  *)
(* text (app-directives.js:59-84).                                                       *)
LastEditIsJudged ==
  Last > 0 =>
    /\ Last \in timers \cup questions \cup done
    /\ Quiet /\ ~upset => validity = Verdict[typed[Last]]

\* Why: timers fire in the order of the edits, after all questions that were asked.
InTurn ==
  \A t \in timers, n \in questions \cup done : n < t

\* And the form shows the verdict about the latest of the edits answered.
ShowsLatest ==
  ~upset /\ done # {} =>
    \E n \in done : (\A m \in done : m <= n) /\ validity = Verdict[typed[n]]

(* An edit's question is answered, or fails, or never asked because of a later edit     *)
(* (app-directives.js:67-76).                                                           *)
EditsSettle == \A n \in 1..MaxEdits : Last = n ~> n \in done \/ Last # n
=============================================================================
