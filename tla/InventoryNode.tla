--------------------------- MODULE InventoryNode ----------------------------
(***************************************************************************)
(* The node of MediaNode with inventory scans running over its tables and  *)
(* objects.                                                                *)
(***************************************************************************)
EXTENDS MediaNode, Inventory

(* Whether no upload stays undecided for as long as the grace period *)
CONSTANT GraceOutlastsJobs

ASSUME GraceAssumption == GraceOutlastsJobs \in BOOLEAN

nodeVars == <<vars, inventoryVars>>

InventoryNodeInit == Init /\ InventoryInit

OwnerOf(ns, key) == IF ns = "raw" THEN key ELSE key[1]

GraceEnds(ns, key) ==
    /\ GraceOutlastsJobs => state[OwnerOf(ns, key)] \notin UndecidedState
    /\ GracePasses(ns, key)
    /\ UNCHANGED <<apiVars, workerVars, lifecycleVars>>

InventoryNodeNext ==
    \/ Next /\ UNCHANGED inventoryVars
    \/ InventoryNext /\ UNCHANGED <<apiVars, workerVars, lifecycleVars>>
    \/ \E ns \in Namespace : \E key \in suspects[ns] : GraceEnds(ns, key)

InventoryNodeSpec == InventoryNodeInit /\ [][InventoryNodeNext]_nodeVars

(* The worker as in MediaNode, and an operator who schedules prune scans *)
ScanFairness ==
    /\ \A i \in Scanners :
         WF_nodeVars((BeginScan(i, TRUE) \/ PageStep(i))
                       /\ UNCHANGED <<apiVars, workerVars, lifecycleVars>>)
    /\ \A key \in Keys : WF_nodeVars(GraceEnds("derivative", key))

SlotFairness ==
    /\ \A s \in Slots :
         WF_nodeVars(SlotStep(s) /\ UNCHANGED <<apiVars, lifecycleVars, inventoryVars>>)
    /\ \A u \in Uploads :
         WF_nodeVars(JobDue(u) /\ UNCHANGED <<apiVars, lifecycleVars, inventoryVars>>)

FairInventorySpec == InventoryNodeSpec /\ SlotFairness /\ ScanFairness

-----------------------------------------------------------------------------

(* A prune scan never takes the source of an upload that still has a row,
   however long ago its object was suspected: a deleted upload stays deleted,
   and no source is stored before its row exists. *)
PruneLeavesSources ==
    [][\A u \in Uploads : raw[u] # NoContent /\ raw'[u] = NoContent
         => state[u] \in GoneState \/ lifecycleVars' # lifecycleVars]_nodeVars

(* A derivative object that will never be named by a row, because its upload
   was rejected or is gone, is found and deleted: across pages, across scans
   that stop in the middle, and behind the cursor of the scan that missed it. *)
OrphansDeleted ==
    \A key \in Keys :
      key \in media /\ state[key[1]] \in {"rejected"} \cup GoneState ~> key \notin media
=============================================================================
