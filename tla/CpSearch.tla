------------------------------ MODULE CpSearch ------------------------------
(***************************************************************************)
(* What the strict CP search of the digital V.90 bridge promises the media *)
(* loop (tools/v90_digital_phase3_event_bridge.c): one question at a time, *)
(* put for the kind of CP that is wanted when it is put, and answered for  *)
(* that kind while that kind is still the wanted one.                      *)
(*                                                                         *)
(* FALSE stands for CPt, TRUE for the data-mode CP and CP'.                *)
(***************************************************************************)

VARIABLES
  slot,       \* "idle", "asked" or "answered"
  question,   \* the kind asked for, while slot is not "idle"
  want        \* the kind the bridge needs next

searchVars == <<slot, question, want>>

Init == slot = "idle" /\ question = FALSE /\ want = FALSE

Ask ==
  /\ slot = "idle" /\ slot' = "asked"
  /\ question' = want /\ UNCHANGED want

Answer == slot = "asked" /\ slot' = "answered" /\ UNCHANGED <<question, want>>

\* The media loop reads an answer; a CP it accepts moves it on to data mode.
Take ==
  /\ slot = "answered" /\ slot' = "idle"
  /\ question' = FALSE /\ want' \in {want, TRUE}

\* The search is stopped: what was asked is dropped.
Abandon == slot = "asked" /\ slot' = "idle" /\ question' = FALSE /\ UNCHANGED want

\* A new call begins.
NewCall == slot' = "idle" /\ question' = FALSE /\ want' = FALSE

Next == Ask \/ Answer \/ Take \/ Abandon \/ NewCall

Spec == Init /\ [][Next]_searchVars

\* An open question is about the kind of CP the bridge still needs.
AskedForWanted == slot # "idle" => question = want
=============================================================================
