---------------------------- MODULE MCActionForm ----------------------------
(* One form inside the page root and one outside whose control the page    *)
(* disables; two submissions with two refreshes each, so that an answer    *)
(* can come between another's and a root be replaced under a submission.   *)
EXTENDS ActionForm

CONSTANTS inner, outer

MCForms == {inner, outer}
MCInside == {inner}
MCOff == {outer}
=============================================================================
