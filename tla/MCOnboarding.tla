---------------------------- MODULE MCOnboarding ----------------------------
(***************************************************************************)
(* Instances of the onboarding board for TLC.                              *)
(*   mail      "Set up company email"                                      *)
(*   printer   "Add to security group"                                     *)
(*   restrict  "Approve SharePoint group"                                  *)
(*   share     "Add to SharePoint group", its follow-up                    *)
(*   trade     "Grant ServiceTrade access", a task                         *)
(***************************************************************************)
EXTENDS Onboarding, TLC

CONSTANTS mail, printer, restrict, share, trade

FormOrder == <<mail, restrict, trade, printer>>
AccessForms == {{mail, restrict}, {printer, restrict, trade}}
ShareFollows == restrict :> share
=============================================================================
