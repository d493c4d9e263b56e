------------------------------- MODULE SpScan -------------------------------
(* The resumable scan for direct shares on a SharePoint site                  *)
(* (services/spScanEngine.ts).  The walk over the folders is saved with the   *)
(* scan's row; the browser page (sp-access.html) calls for step after step,   *)
(* and a step lists pages and asks for the permissions of shared items until  *)
(* its time is up.  A call the page gave up on goes on at the server beside   *)
(* the one that follows it, and a restart ends a step anywhere.               *)
(* Left out: 429 waits (a longer fetch), the coverage counts, the match with  *)
(* employees, one row per grant of an item, and changes of the site on the    *)
(* way.  A step stops between any two pages.                                  *)
EXTENDS Naturals, Sequences, FiniteSets, SequencesExt

CONSTANTS
  Folders, Files,  \* what the site has
  Drives,          \* the drives, each by its root folder, as Graph lists them
  PagesOf,         \* of each folder, the pages of its listing
  Shared,          \* the items with grants of their own
  MaxDepth,        \* how far below a drive's root the scan goes
  Steps,           \* calls for a step in progress at a time
  MaxStrays        \* bound: calls lost to the page, steps lost to a restart

Items == Folders \cup Files
NoFolder == [folder |-> "none", depth |-> 0, page |-> 0]

(* A site is a tree: to an item there is one way down from one of the drives,  *)
(* on which a folder that lists an item of the way is of the way, lists no     *)
(* other one of it, and is not the item itself.                                *)
IsWay(way, i) ==
  /\ i \in way
  /\ \A m, n \in DOMAIN Drives : Drives[m] \in way /\ Drives[n] \in way => m = n
  /\ \A f \in Folders : \A p, q \in DOMAIN PagesOf[f] :
       \A k \in DOMAIN PagesOf[f][p], l \in DOMAIN PagesOf[f][q] :
         PagesOf[f][p][k] \in way /\ PagesOf[f][q][l] \in way
           => f \in way \ {i} /\ p = q /\ k = l

ASSUME SpScanAssumption ==
  /\ Drives \in Seq(Folders) /\ Drives # <<>> /\ "none" \notin Folders
  /\ PagesOf \in [Folders -> Seq(Seq(Items))] /\ \A f \in Folders : PagesOf[f] # <<>>
  /\ Shared \subseteq Items /\ MaxDepth \in Nat /\ MaxStrays \in Nat /\ IsFiniteSet(Steps)
  /\ \A i \in Items : \E way \in SUBSET Items : IsWay(way, i)

VARIABLES
  scan,      \* the row of sp_scans: status, queue and current folder
  reported,  \* rows of sp_scan_shares, of each item
  passed,    \* items whose permissions could not be read
  steps,     \* stepScan, of each call
  waiting,   \* the call the page waits for
  strays     \* calls the page lost and steps a restart ended

scanVars == <<scan, reported, passed, steps, waiting, strays>>

NoCall == [at |-> "idle", queue |-> <<>>, current |-> NoFolder, rest |-> <<>>]

SpTypeOK ==
  /\ scan.status \in {"none", "running", "done"}
  /\ reported \in [Items -> Nat] /\ passed \subseteq Shared
  /\ DOMAIN steps = Steps /\ waiting \subseteq Steps
  /\ strays \in 0 .. MaxStrays + Cardinality(Steps)

-----------------------------------------------------------------------------
(* The walk: folders to come and the one in progress.                         *)
Place(f, d) == [folder |-> f, depth |-> d, page |-> 1]

Drained(w) == w.current = NoFolder /\ w.queue = <<>>

Opened(w) ==
  IF w.current # NoFolder THEN w ELSE [w EXCEPT !.current = Head(w.queue), !.queue = Tail(@)]

Arrived(w) ==
  [w EXCEPT !.at = "items", !.rest = PagesOf[w.current.folder][w.current.page]]

Entered(w, i) ==
  [w EXCEPT !.rest = Tail(@),
            !.queue = IF i \in Folders /\ w.current.depth < MaxDepth
                      THEN Append(@, Place(i, w.current.depth + 1)) ELSE @]

Turned(w) ==
  IF w.current.page < Len(PagesOf[w.current.folder])
  THEN [w EXCEPT !.current.page = @ + 1] ELSE [w EXCEPT !.current = NoFolder]

(* The step answers: the row has its walk now, whatever others made of it.    *)
Save(s, w) ==
  /\ scan' = [status |-> IF Drained(w) THEN "done" ELSE scan.status,
              queue |-> w.queue, current |-> w.current]
  /\ steps' = [steps EXCEPT ![s] = NoCall]
  /\ waiting' = waiting \ {s}

-----------------------------------------------------------------------------
StartScan ==
  /\ scan.status = "none"
  /\ scan' = [status |-> "running", current |-> NoFolder,
              queue |-> [n \in DOMAIN Drives |-> Place(Drives[n], 0)]]
  /\ UNCHANGED <<reported, passed, steps, waiting, strays>>

(* The page calls when it waits for nothing.  (A call that finds Graph not    *)
(* connected answers at once and changes nothing.)                            *)
BeginStep(s) ==
  /\ waiting = {} /\ steps[s] = NoCall /\ scan.status = "running"
  /\ waiting' = {s}
  /\ steps' = [steps EXCEPT ![s] =
       Opened([at |-> "page", queue |-> scan.queue, current |-> scan.current, rest |-> <<>>])]
  /\ UNCHANGED <<scan, reported, passed, strays>>

PageArrives(s) ==
  /\ steps[s].at = "page"
  /\ steps' = [steps EXCEPT ![s] = Arrived(steps[s])]
  /\ UNCHANGED <<scan, reported, passed, waiting, strays>>

\* Mutant: the catch only answers, and what the step has walked is lost.
PageFailsUnsaved(s) ==
  /\ steps[s].at = "page"
  /\ steps' = [steps EXCEPT ![s] = NoCall] /\ waiting' = waiting \ {s}
  /\ UNCHANGED <<scan, reported, passed, strays>>

(* The catch: the pages before this one need not be listed again.             *)
PageFails(s) ==
  /\ steps[s].at = "page"
  /\ Save(s, steps[s])
  /\ UNCHANGED <<reported, passed, strays>>

(* The next item of the page; permissions that cannot be read are passed over.*)
Item(s) ==
  /\ steps[s].at = "items" /\ steps[s].rest # <<>>
  /\ LET i == Head(steps[s].rest) IN
       /\ steps' = [steps EXCEPT ![s] = Entered(steps[s], i)]
       /\ \/ i \notin Shared /\ UNCHANGED <<reported, passed>>
          \/ i \in Shared /\ reported' = [reported EXCEPT ![i] = @ + 1] /\ UNCHANGED passed
          \/ i \in Shared /\ passed' = passed \cup {i} /\ UNCHANGED reported
  /\ UNCHANGED <<scan, waiting, strays>>

(* The end of a page: the next one, or the end of the step.                   *)
PageEnd(s) ==
  LET w == Turned(steps[s]) IN
  /\ steps[s].at = "items" /\ steps[s].rest = <<>>
  /\ \/ /\ ~Drained(w)
        /\ steps' = [steps EXCEPT ![s] = [Opened(w) EXCEPT !.at = "page"]]
        /\ UNCHANGED <<scan, waiting>>
     \/ Save(s, w)
  /\ UNCHANGED <<reported, passed, strays>>

(* The page's fetch fails, or times out; the step does not know.              *)
CallLost ==
  /\ waiting # {} /\ strays < MaxStrays
  /\ waiting' = {} /\ strays' = strays + 1
  /\ UNCHANGED <<scan, reported, passed, steps>>

Killed ==
  LET lost == {s \in Steps : steps[s] # NoCall} IN
  /\ lost # {} /\ strays < MaxStrays
  /\ strays' = strays + Cardinality(lost)
  /\ steps' = [s \in Steps |-> NoCall] /\ waiting' = {}
  /\ UNCHANGED <<scan, reported, passed>>

ScanInit ==
  /\ scan = [status |-> "none", queue |-> <<>>, current |-> NoFolder]
  /\ reported = [i \in Items |-> 0] /\ passed = {}
  /\ steps = [s \in Steps |-> NoCall] /\ waiting = {} /\ strays = 0

ScanNext ==
  \/ StartScan
  \/ \E s \in Steps :
       BeginStep(s) \/ PageArrives(s) \/ PageFails(s) \/ Item(s) \/ PageEnd(s)
  \/ CallLost
  \/ Killed

ScanSpec == ScanInit /\ [][ScanNext]_scanVars

-----------------------------------------------------------------------------
(* What the site has within the depth of the scan, from the tree alone.       *)
Listed(f) == UNION {ToSet(PagesOf[f][n]) : n \in DOMAIN PagesOf[f]}

Level[n \in 0 .. MaxDepth] ==
  IF n = 0 THEN ToSet(Drives) ELSE Folders \cap UNION {Listed(f) : f \in Level[n - 1]}

InReach == UNION {Listed(f) : f \in UNION {Level[n] : n \in 0 .. MaxDepth}}

(* A scan that says it is done has every share within its depth whose        *)
(* permissions could be read, and none more than once but for the steps that  *)
(* ran beside another or were cut short: pages that fail, calls that are lost *)
(* and restarts cost no folder, and what was listed before a page failed is   *)
(* not listed again.                                                          *)
ScanReports ==
  /\ scan.status = "done" => \A i \in Shared \cap InReach : reported[i] > 0 \/ i \in passed
  /\ \A i \in Items : reported[i] <= 1 + strays
=============================================================================
