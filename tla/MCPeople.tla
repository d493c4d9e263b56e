------------------------------ MODULE MCPeople ------------------------------
(* A person with HR's item, a restricted system, a premium device, a vehicle  *)
(* and a group: hired and let go, or let go twice.  The invites hiring        *)
(* managers get and a bulk mail share no state with the directory, so each    *)
(* behaviour is one of one of them.                                           *)
EXTENDS People, IntakeLinks, Campaign

CONSTANTS bamboo, payroll, laptop, car, staff

VARIABLE part

MCInit ==
  /\ part \in {"directory", "invites", "bulk mail"}
  /\ Init /\ IntakeInit /\ CampaignInit

MCNext ==
  \/ part = "directory" /\ Next /\ UNCHANGED <<part, intakeVars, campaignVars>>
  \/ part = "invites" /\ IntakeNext /\ UNCHANGED <<part, vars, campaignVars>>
  \/ part = "bulk mail" /\ CampaignNext /\ UNCHANGED <<part, vars, intakeVars>>

MCSpec == MCInit /\ [][MCNext]_<<part, vars, intakeVars, campaignVars>>
=============================================================================
