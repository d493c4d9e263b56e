--------------------------- MODULE MCOffboarding ---------------------------
(***************************************************************************)
(* Instances of the offboarding board for TLC: a few codes of the          *)
(* checklist, one of each kind that the handlers tell apart.               *)
(*   disable   ad_disable, a task run on the domain controller             *)
(*   delete    ad_delete, an approval run on the domain controller         *)
(*   sage      hr_sage_remove, mailed to Accounting, closed by the app list *)
(*   onedrive  data_reassign, the manager's OneDrive handover              *)
(*   late      a step that a later release adds                            *)
(***************************************************************************)
EXTENDS Offboarding

CONSTANTS disable, delete, sage, onedrive, late

ItemRefs == Requests \X Codes

DcOrder == <<disable, delete>>
DeskOrder == <<sage, onedrive, late>>
=============================================================================
