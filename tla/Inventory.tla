----------------------------- MODULE Inventory ------------------------------
(***************************************************************************)
(* g7mb-worker inventory: a scan lists the objects of both buckets page by *)
(* page, compares each page with the tables in one transaction, records    *)
(* objects without an owner as suspected orphans, and in prune mode        *)
(* deletes the ones suspected for longer than the grace period, each after *)
(* one more look at the tables.  The cursor is saved after every page, so  *)
(* a scan resumes where the last one stopped; at the end it starts again.  *)
(*                                                                         *)
(* A key's rank is its place in the provider's lexicographic order; 0 is   *)
(* no cursor.  A 'deleted' orphan row behaves as no row: the next sighting *)
(* restarts its first_seen_at, and purging it changes nothing here.        *)
(***************************************************************************)
EXTENDS MediaStore

CONSTANTS
    Scanners,     \* inventory invocations that may overlap
    Modes,        \* the --prune flags they are started with
    PageSize,     \* InventoryPolicy.page_size
    MaxPages,     \* InventoryPolicy.max_pages_per_namespace
    RawRank,      \* the order of the raw keys
    MediaRank,    \* the order of the derivative keys
    MaxScanFaults \* bound on failed deletes and killed scans

ASSUME InventoryAssumption ==
    /\ Modes \subseteq BOOLEAN
    /\ PageSize \in Nat \ {0}
    /\ MaxPages \in Nat \ {0}
    /\ RawRank \in [Uploads -> Nat \ {0}]
    /\ MediaRank \in [Keys -> Nat \ {0}]
    /\ \A x, y \in Uploads : RawRank[x] = RawRank[y] => x = y
    /\ \A x, y \in Keys : MediaRank[x] = MediaRank[y] => x = y

VARIABLES
    suspects,   \* orphan_objects in state 'suspected', per namespace
    graced,     \* those of them first seen a grace period ago
    cursor,     \* inventory_cursors.start_after, per namespace
    scan,       \* where each scan is
    scanFaults  \* failed deletes and killed scans so far

inventoryVars == <<suspects, graced, cursor, scan, scanFaults>>

Namespace == {"raw", "derivative"}

KeysIn(ns) == IF ns = "raw" THEN Uploads ELSE Keys

Rank(ns, key) == IF ns = "raw" THEN RawRank[key] ELSE MediaRank[key]

Stored(ns) == IF ns = "raw" THEN {u \in Uploads : raw[u] # NoContent} ELSE media

(* Faulty: a rejected upload counts as gone *)
Known_RejectedGone(ns, key) ==
    LET u == IF ns = "raw" THEN key ELSE key[1] IN
    /\ state[u] \notin GoneState \cup {"rejected"}
    /\ ns = "raw" \/ <<key[2], key[3]>> \in derivs[u]

(* Faulty: both namespaces are looked up among the raw keys *)
Known_RawOnly(ns, key) ==
    ns = "raw" /\ state[key] \notin GoneState

(* The query both reconcile_inventory_page and is_inventory_key_known ask *)
Known(ns, key) ==
    IF ns = "raw"
    THEN state[key] \notin GoneState
    ELSE state[key[1]] \notin GoneState /\ <<key[2], key[3]>> \in derivs[key[1]]

(* ListObjectsV2 after the cursor, and the cursor for the page after it *)
After(ns, c) == {key \in Stored(ns) : Rank(ns, key) > c}

Listing(ns, c, page) ==
    LET rest == After(ns, c) IN
    /\ page \subseteq rest
    /\ Cardinality(page) = IF Cardinality(rest) < PageSize THEN Cardinality(rest) ELSE PageSize
    /\ \A key \in page, other \in rest \ page : Rank(ns, key) < Rank(ns, other)

NextCursor(ns, c, page) ==
    IF page = After(ns, c) THEN 0
    ELSE CHOOSE n \in {Rank(ns, key) : key \in page} :
           \A key \in page : Rank(ns, key) <= n

NoScan == [step |-> "none", prune |-> FALSE, ns |-> "raw", pages |-> 0, from |-> 0, next |-> 0,
           keys |-> {}]

InventoryInit ==
    /\ suspects = [ns \in Namespace |-> {}]
    /\ graced = [ns \in Namespace |-> {}]
    /\ cursor = [ns \in Namespace |-> 0]
    /\ scan = [i \in Scanners |-> NoScan]
    /\ scanFaults = 0

Continue(i, step, keys) ==
    scan' = [scan EXCEPT ![i] = [scan[i] EXCEPT !.step = step, !.keys = keys]]

End(i) == scan' = [scan EXCEPT ![i] = NoScan]

(* The rows of these keys go; the other suspects keep their first_seen_at *)
Forget(ns, keys) ==
    /\ suspects' = [suspects EXCEPT ![ns] = @ \ keys]
    /\ graced' = [graced EXCEPT ![ns] = @ \ keys]

ScanFault ==
    /\ scanFaults < MaxScanFaults
    /\ scanFaults' = scanFaults + 1

-----------------------------------------------------------------------------
(* run_once reads the cursor of the first namespace *)
BeginScan(i, prune) ==
    /\ scan[i] = NoScan
    /\ scan' = [scan EXCEPT ![i] = [NoScan EXCEPT !.step = "list", !.prune = prune,
                                                  !.from = cursor["raw"]]]
    /\ UNCHANGED <<tableVars, leaseVars, objectVars, suspects, graced, cursor, scanFaults>>

ListPage(i, page) ==
    LET ns == scan[i].ns IN
    /\ scan[i].step = "list"
    /\ Listing(ns, scan[i].from, page)
    /\ scan' = [scan EXCEPT ![i] = [scan[i] EXCEPT !.step = "reconcile", !.keys = page,
                                      !.pages = scan[i].pages + 1,
                                      !.next = NextCursor(ns, scan[i].from, page)]]
    /\ UNCHANGED <<tableVars, leaseVars, objectVars, suspects, graced, cursor, scanFaults>>

(* reconcile_inventory_page.  The scan reads the clock once, at its start;
   that makes fewer suspects eligible than the ones graced here. *)
ReconcilePage(i) ==
    LET ns == scan[i].ns
        page == scan[i].keys
        owned == {key \in page : Known(ns, key)}
        eligible == (page \ owned) \cap graced[ns]
    IN
    /\ scan[i].step = "reconcile"
    /\ suspects' = [suspects EXCEPT ![ns] = (@ \ owned) \cup (page \ owned)]
    /\ graced' = [graced EXCEPT ![ns] = @ \ owned]
    /\ IF scan[i].prune THEN Continue(i, "prune", eligible) ELSE Continue(i, "save", {})
    /\ UNCHANGED <<tableVars, leaseVars, objectVars, cursor, scanFaults>>

(* is_inventory_key_known, then forget_orphan or on to the provider *)
Recheck(i, key) ==
    LET ns == scan[i].ns IN
    /\ scan[i].step = "prune" /\ key \in scan[i].keys
    /\ \/ /\ Known(ns, key)
          /\ Forget(ns, {key})
          /\ Continue(i, "prune", scan[i].keys \ {key})
       \/ /\ ~Known(ns, key)
          /\ scan' = [scan EXCEPT ![i] = [scan[i] EXCEPT !.step = "delete", !.from = Rank(ns, key)]]
          /\ UNCHANGED <<suspects, graced>>
    /\ UNCHANGED <<tableVars, leaseVars, objectVars, cursor, scanFaults>>

(* The candidate whose owner was looked up last *)
Checked(i, key) == key \in scan[i].keys /\ Rank(scan[i].ns, key) = scan[i].from

DeleteOrphan(i, key) ==
    LET ns == scan[i].ns IN
    /\ scan[i].step = "delete" /\ Checked(i, key)
    /\ IF ns = "raw"
       THEN raw' = [raw EXCEPT ![key] = NoContent] /\ UNCHANGED <<media, session>>
       ELSE media' = media \ {key} /\ UNCHANGED <<raw, session>>
    /\ Continue(i, "record", scan[i].keys)
    /\ UNCHANGED <<tableVars, leaseVars, suspects, graced, cursor, scanFaults>>

(* complete_orphan_deletion; it is refused, and the scan ends, if another scan
   removed the row *)
RecordDeletion(i, key) ==
    LET ns == scan[i].ns IN
    /\ scan[i].step = "record" /\ Checked(i, key)
    /\ Forget(ns, {key})
    /\ \/ Continue(i, "prune", scan[i].keys \ {key})
       \/ key \notin suspects[ns] /\ End(i)
    /\ UNCHANGED <<tableVars, leaseVars, objectVars, cursor, scanFaults>>

(* fail_orphan_deletion counts the attempt: the suspicion stays *)
DeleteFails(i, key) ==
    /\ scan[i].step = "delete" /\ Checked(i, key)
    /\ ScanFault
    /\ IF key \in suspects[scan[i].ns]
       THEN Continue(i, "prune", scan[i].keys \ {key}) ELSE End(i)
    /\ UNCHANGED <<tableVars, leaseVars, objectVars, suspects, graced, cursor>>

(* Faulty: the cursor is left at the last page of the cycle *)
SaveCursor_NeverWraps(i) ==
    LET ns == scan[i].ns IN
    /\ \/ scan[i].step = "save"
       \/ scan[i].step = "prune" /\ scan[i].keys = {}
    /\ cursor' = [cursor EXCEPT ![ns] = IF scan[i].next = 0 THEN @ ELSE scan[i].next]
    /\ \/ /\ scan[i].next # 0 /\ scan[i].pages < MaxPages
          /\ scan' = [scan EXCEPT ![i] = [scan[i] EXCEPT !.step = "list", !.from = scan[i].next]]
       \/ /\ scan[i].next = 0 \/ scan[i].pages = MaxPages
          /\ IF ns = "raw"
             THEN scan' = [scan EXCEPT ![i] = [NoScan EXCEPT !.step = "list", !.ns = "derivative",
                                                 !.prune = scan[i].prune,
                                                 !.from = cursor["derivative"]]]
             ELSE End(i)
    /\ UNCHANGED <<tableVars, leaseVars, objectVars, suspects, graced, scanFaults>>

(* save_inventory_cursor; then the next page, the next namespace or the end *)
SaveCursor(i) ==
    LET ns == scan[i].ns IN
    /\ \/ scan[i].step = "save"
       \/ scan[i].step = "prune" /\ scan[i].keys = {}
    /\ cursor' = [cursor EXCEPT ![ns] = scan[i].next]
    /\ \/ /\ scan[i].next # 0 /\ scan[i].pages < MaxPages
          /\ scan' = [scan EXCEPT ![i] = [scan[i] EXCEPT !.step = "list", !.from = scan[i].next]]
       \/ /\ scan[i].next = 0 \/ scan[i].pages = MaxPages
          /\ IF ns = "raw"
             THEN scan' = [scan EXCEPT ![i] = [NoScan EXCEPT !.step = "list", !.ns = "derivative",
                                                 !.prune = scan[i].prune,
                                                 !.from = cursor["derivative"]]]
             ELSE End(i)
    /\ UNCHANGED <<tableVars, leaseVars, objectVars, suspects, graced, scanFaults>>

ScanKilled(i) ==
    /\ scan[i] # NoScan
    /\ ScanFault
    /\ End(i)
    /\ UNCHANGED <<tableVars, leaseVars, objectVars, suspects, graced, cursor>>

(* Time passes: a suspicion outlives the grace period *)
GracePasses(ns, key) ==
    /\ key \in suspects[ns] \ graced[ns]
    /\ graced' = [graced EXCEPT ![ns] = @ \cup {key}]
    /\ UNCHANGED <<tableVars, leaseVars, objectVars, suspects, cursor, scan, scanFaults>>

PageStep(i) ==
    \/ \E page \in SUBSET KeysIn(scan[i].ns) : ListPage(i, page)
    \/ ReconcilePage(i)
    \/ \E key \in scan[i].keys : Recheck(i, key) \/ DeleteOrphan(i, key) \/ RecordDeletion(i, key)
    \/ SaveCursor(i)

InventoryNext ==
    \E i \in Scanners :
      \/ \E prune \in Modes : BeginScan(i, prune)
      \/ PageStep(i)
      \/ \E key \in scan[i].keys : DeleteFails(i, key)
      \/ ScanKilled(i)
=============================================================================
