------------------------------ MODULE MCMirror ------------------------------
(* What is read page by page from a system that does not stand still: a small *)
(* ServiceTrade (an account with a site and an invoice, two jobs), and a      *)
(* SharePoint site; and the exceptions queue that is detected in the mirror.  *)
(* They share no state: a behaviour is one of one of them.                    *)
EXTENDS Mirror, SpScan, Exceptions

MCParent == [r \in Sites \cup Invoices |-> CHOOSE a \in Accounts : TRUE]

(* A library of two pages; a folder on the first, with a folder too deep.     *)
MCDrives == <<"library">>
MCPages == [f \in Folders |-> CASE f = "library" -> << <<"crew">>, <<"plan">> >>
                                [] f = "crew" -> << <<"wages", "old">> >>
                                [] f = "old" -> << <<"notes">> >>]

(* Two offices of one category, and the company's receivables.                *)
MCDetectorOf == [k \in Subjects |-> IF k = "company" THEN 2 ELSE 1]

VARIABLE part

MCVars == <<part, vars, scanVars, exceptionVars>>
MCInit == part \in {"mirror", "scan", "exceptions"} /\ Init /\ ScanInit /\ ExceptionsInit
MCNext ==
  \/ part = "mirror" /\ Next /\ UNCHANGED <<part, scanVars, exceptionVars>>
  \/ part = "scan" /\ ScanNext /\ UNCHANGED <<part, vars, exceptionVars>>
  \/ part = "exceptions" /\ ExceptionsNext /\ UNCHANGED <<part, vars, scanVars>>
MCSpec == MCInit /\ [][MCNext]_MCVars
=============================================================================
