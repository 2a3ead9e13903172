---------------------------- MODULE ServicesProofs ----------------------------
(***************************************************************************)
(* What SitePolicy, Delivery and Admission promise, for every value of     *)
(* their constants.  An invariant of a part is proved from the part's own        *)
(* initial states and steps, and holds in Services whenever that part is   *)
(* the one that runs.                                                      *)
(***************************************************************************)
EXTENDS Services, FiniteSetTheorems, TLAPS

-----------------------------------------------------------------------------
(* SitePolicy: the shape of its tables, calls and jobs *)
PublishSteps ==
    {"idle", "invalid", "asset", "save", "compare", "not_found", "rejected", "published",
     "unchanged", "conflict"}

AssetStates == {"created", "ready", "rejected", "deleted", "purged"}

PolicyTypeOK ==
    /\ snapshots \in Seq(Policy!Settings)
    /\ asset \in [Assets -> [state : AssetStates, pending : BOOLEAN]]
    /\ publication \in [Callers -> [step : PublishSteps, revision : Nat,
                             watermark : Policy!Settings]]
    /\ job \in [Jobs -> [step : {"none", "queued", "ready"}, revision : Nat,
                         drawn : Policy!Settings]]
    /\ named \in [Jobs -> Policy!Settings]

(* Revision 0 is refused before the statement that would insert it *)
RevisionsPositive ==
    \A c \in Callers :
      publication[c].step \in {"asset", "save", "compare", "published", "unchanged"} => publication[c].revision # 0

(* The revision a job is pinned to exists and still names what it named then *)
PinsHold ==
    \A j \in Jobs :
      /\ job[j].step # "none" =>
           job[j].revision <= Len(snapshots) /\ named[j] = Policy!Names(job[j].revision)
      /\ job[j].step = "ready" => job[j].drawn = named[j]

PolicyInv == PolicyTypeOK /\ RevisionsPositive /\ Policy!AnswersHold /\ PinsHold

LEMMA PolicyInit == Policy!Init => PolicyInv
<1> SUFFICES ASSUME Policy!Init PROVE PolicyInv
  OBVIOUS
<1> USE DEF Policy!Init, Policy!Settings, Policy!Idle
<1>1. PolicyTypeOK
  BY DEF PolicyTypeOK, PublishSteps, AssetStates
<1>2. RevisionsPositive /\ Policy!AnswersHold /\ PinsHold
  BY DEF RevisionsPositive, Policy!AnswersHold, PinsHold
<1> QED
  BY <1>1, <1>2 DEF PolicyInv

(* Publications are appended: the revisions that exist keep what they name *)
LEMMA InsertAppends ==
    ASSUME PolicyTypeOK, NEW r \in Nat, NEW w \in Policy!Settings
    PROVE  /\ Policy!Insert(r, w) \in Seq(Policy!Settings)
           /\ Len(snapshots) <= Len(Policy!Insert(r, w))
           /\ \A k \in 1..Len(snapshots) : Policy!Insert(r, w)[k] = snapshots[k]
           /\ r = Len(snapshots) + 1 =>
                Len(Policy!Insert(r, w)) = r /\ Policy!Insert(r, w)[r] = w
  BY DEF PolicyTypeOK, Policy!Insert

(* A publication moves on to another step and keeps its revision and its watermark *)
LEMMA CallMoves ==
    ASSUME PolicyTypeOK, NEW c \in Callers, NEW to \in PublishSteps,
           publication' = [publication EXCEPT ![c].step = to]
    PROVE  /\ publication' \in [Callers -> [step : PublishSteps, revision : Nat,
                                     watermark : Policy!Settings]]
           /\ publication'[c].step = to
           /\ \A d \in Callers : /\ publication'[d].revision = publication[d].revision
                                 /\ publication'[d].watermark = publication[d].watermark
                                 /\ d # c => publication'[d] = publication[d]
  BY DEF PolicyTypeOK

LEMMA PolicyStep == PolicyInv /\ [Policy!Next]_(Policy!vars) => PolicyInv'
<1> SUFFICES ASSUME PolicyInv, [Policy!Next]_(Policy!vars) PROVE PolicyInv'
  OBVIOUS
<1> USE DEF PolicyInv
<1>1. ASSUME NEW c \in Callers, Policy!Publish(c) PROVE PolicyInv'
  <2>1. PolicyTypeOK'
    BY <1>1 DEF PolicyTypeOK, Policy!Publish, PublishSteps, Policy!Settings
  <2>2. /\ publication'[c].step \in {"invalid", "save", "asset"}
        /\ publication'[c].step \in {"save", "asset"} => publication'[c].revision # 0
        /\ \A d \in Callers : d # c => publication'[d] = publication[d]
    BY <1>1 DEF PolicyTypeOK, Policy!Publish
  <2>3. UNCHANGED <<snapshots, job, named>>
    BY <1>1 DEF Policy!Publish
  <2>4. RevisionsPositive' /\ Policy!AnswersHold'
    BY <2>2, <2>3 DEF RevisionsPositive, Policy!AnswersHold
  <2>5. PinsHold'
    BY <2>3 DEF PinsHold, Policy!Names
  <2> QED BY <2>1, <2>4, <2>5
<1>2. ASSUME NEW c \in Callers, Policy!ReadAsset(c) PROVE PolicyInv'
  <2>1. PICK to \in {"not_found", "save", "rejected"} : publication' = [publication EXCEPT ![c].step = to]
    BY <1>2 DEF Policy!ReadAsset, Policy!GoTo
  <2>2. to \in PublishSteps
    BY DEF PublishSteps
  <2>3. UNCHANGED <<snapshots, asset, job, named>>
    BY <1>2 DEF Policy!ReadAsset
  <2>4. PolicyTypeOK'
    BY <2>1, <2>2, <2>3, CallMoves DEF PolicyTypeOK
  <2>5. RevisionsPositive' /\ Policy!AnswersHold'
    BY <1>2, <2>1, <2>2, <2>3, CallMoves
      DEF Policy!ReadAsset, RevisionsPositive, Policy!AnswersHold
  <2>6. PinsHold'
    BY <2>3 DEF PinsHold, Policy!Names
  <2> QED BY <2>4, <2>5, <2>6
<1>3. ASSUME NEW c \in Callers, Policy!Save(c) PROVE PolicyInv'
  <2> DEFINE r == publication[c].revision
             w == publication[c].watermark
  <2>1. r \in Nat /\ w \in Policy!Settings /\ r # 0
    BY <1>3 DEF Policy!Save, PolicyTypeOK, RevisionsPositive
  <2>2. /\ snapshots' \in Seq(Policy!Settings)
        /\ Len(snapshots) <= Len(snapshots')
        /\ \A k \in 1..Len(snapshots) : snapshots'[k] = snapshots[k]
        /\ r = Len(snapshots) + 1 => Len(snapshots') = r /\ snapshots'[r] = w
    BY <1>3, <2>1, InsertAppends DEF Policy!Save
  <2>3. PolicyTypeOK' /\ RevisionsPositive'
    <3>1. PICK to \in {"published", "compare"} : publication' = [publication EXCEPT ![c].step = to]
      BY <1>3 DEF Policy!Save, Policy!GoTo
    <3>2. to \in PublishSteps
      BY DEF PublishSteps
    <3>3. PolicyTypeOK'
      BY <1>3, <2>2, <3>1, <3>2, CallMoves DEF Policy!Save, PolicyTypeOK
    <3>4. RevisionsPositive'
      BY <2>1, <3>1, <3>2, CallMoves DEF RevisionsPositive
    <3> QED BY <3>3, <3>4
  <2>4. Len(snapshots) \in Nat
    BY DEF PolicyTypeOK
  <2>5. Policy!AnswersHold'
    <3> SUFFICES ASSUME NEW d \in Callers, publication'[d].step \in {"published", "unchanged"}
                 PROVE  publication'[d].revision <= Len(snapshots') /\
                          snapshots'[publication'[d].revision] = publication'[d].watermark
      BY DEF Policy!AnswersHold
    <3>1. publication'[d].revision = publication[d].revision /\ publication'[d].watermark = publication[d].watermark
      BY <1>3 DEF Policy!Save, Policy!GoTo, PolicyTypeOK
    <3>2. CASE d = c
      BY <1>3, <2>2, <2>4, <3>1, <3>2 DEF Policy!Save, Policy!GoTo, PolicyTypeOK
    <3>3. CASE d # c
      <4>1. publication[d].step \in {"published", "unchanged"}
        BY <1>3, <3>3 DEF Policy!Save, Policy!GoTo, PolicyTypeOK
      <4>2. publication[d].revision \in 1..Len(snapshots) /\
              snapshots[publication[d].revision] = publication[d].watermark
        BY <2>4, <4>1 DEF Policy!AnswersHold, RevisionsPositive, PolicyTypeOK
      <4> QED BY <2>2, <2>3, <2>4, <3>1, <4>2 DEF PolicyTypeOK
    <3> QED BY <3>2, <3>3
  <2>6. PinsHold'
    <3> SUFFICES ASSUME NEW j \in Jobs, job[j].step # "none"
                 PROVE  /\ job[j].revision <= Len(snapshots')
                        /\ named[j] = (Policy!Names(job[j].revision))'
      BY <1>3 DEF PinsHold, Policy!Save, Policy!Names
    <3>1. job[j].revision \in Nat /\ job[j].revision <= Len(snapshots)
           /\ named[j] = Policy!Names(job[j].revision)
      BY DEF PinsHold, PolicyTypeOK
    <3>2. job' = job
      BY <1>3 DEF Policy!Save
    <3> QED BY <2>2, <2>3, <2>4, <3>1, <3>2 DEF Policy!Names, PolicyTypeOK
  <2> QED BY <2>3, <2>5, <2>6
<1>4. ASSUME NEW c \in Callers, Policy!Compare(c) PROVE PolicyInv'
  <2>1. PolicyTypeOK'
    BY <1>4 DEF PolicyTypeOK, Policy!Compare, Policy!GoTo, PublishSteps
  <2>2. RevisionsPositive' /\ Policy!AnswersHold' /\ PinsHold'
    BY <1>4 DEF PolicyTypeOK, Policy!Compare, Policy!GoTo, RevisionsPositive,
      Policy!AnswersHold, PinsHold, Policy!Names
  <2> QED BY <2>1, <2>2
<1>5. ASSUME NEW a \in Assets,
             Policy!Decide(a) \/ Policy!RequestDeletion(a) \/ Policy!Cleanup(a) \/ Policy!Purge(a)
      PROVE  PolicyInv'
  <2>1. PolicyTypeOK'
    <3>1. CASE Policy!Decide(a)
      BY <3>1 DEF PolicyTypeOK, Policy!Decide, AssetStates
    <3>2. CASE Policy!RequestDeletion(a)
      BY <3>2 DEF PolicyTypeOK, Policy!RequestDeletion
    <3>3. CASE Policy!Cleanup(a)
      BY <3>3 DEF PolicyTypeOK, Policy!Cleanup, AssetStates
    <3>4. CASE Policy!Purge(a)
      BY <3>4 DEF PolicyTypeOK, Policy!Purge, AssetStates
    <3> QED BY <1>5, <3>1, <3>2, <3>3, <3>4
  <2>2. UNCHANGED <<snapshots, publication, job, named>>
    BY <1>5 DEF Policy!Decide, Policy!RequestDeletion, Policy!Cleanup, Policy!Purge
  <2> QED
    BY <2>1, <2>2 DEF RevisionsPositive, Policy!AnswersHold, PinsHold, Policy!Names
<1>6. ASSUME NEW j \in Jobs, Policy!Confirm(j) PROVE PolicyInv'
  <2>1. Len(snapshots) \in Nat /\ Policy!Names(Len(snapshots)) \in Policy!Settings
    BY DEF PolicyTypeOK, Policy!Names, Policy!Settings
  <2>2. PolicyTypeOK'
    BY <1>6, <2>1 DEF PolicyTypeOK, Policy!Confirm, Policy!Settings
  <2>3. RevisionsPositive' /\ Policy!AnswersHold'
    BY <1>6 DEF Policy!Confirm, RevisionsPositive, Policy!AnswersHold
  <2>4. PinsHold'
    BY <1>6, <2>1 DEF PolicyTypeOK, Policy!Confirm, PinsHold, Policy!Names
  <2> QED BY <2>2, <2>3, <2>4
<1>7. ASSUME NEW j \in Jobs, Policy!Render(j) PROVE PolicyInv'
  <2>1. Policy!Names(job[j].revision) = named[j]
    BY <1>7 DEF Policy!Render, PinsHold
  <2>2. PolicyTypeOK'
    BY <1>7, <2>1 DEF PolicyTypeOK, Policy!Render
  <2>3. RevisionsPositive' /\ Policy!AnswersHold'
    BY <1>7 DEF Policy!Render, RevisionsPositive, Policy!AnswersHold
  <2>4. PinsHold'
    BY <1>7, <2>1 DEF PolicyTypeOK, Policy!Render, PinsHold, Policy!Names
  <2> QED BY <2>2, <2>3, <2>4
<1>8. CASE UNCHANGED Policy!vars
  BY <1>8 DEF Policy!vars, PolicyTypeOK, RevisionsPositive, Policy!AnswersHold, PinsHold,
    Policy!Names
<1> QED
  BY <1>1, <1>2, <1>3, <1>4, <1>5, <1>6, <1>7, <1>8 DEF Policy!Next

(* In Services the policy's invariant holds while the policy is what runs *)
LEMMA PolicyPartInv == Spec => [](part = "policy" => PolicyInv)
<1>1. Init => (part = "policy" => PolicyInv)
  BY PolicyInit DEF Init, Chosen
<1>2. (part = "policy" => PolicyInv) /\ [Next]_v => (part = "policy" => PolicyInv)'
  <2> SUFFICES ASSUME part = "policy" => PolicyInv, [Next]_v, part' = "policy"
               PROVE  PolicyInv'
    OBVIOUS
  <2>1. part = "policy" /\ [Policy!Next]_(Policy!vars)
    BY DEF Next, v, policy, Policy!vars, Reserve, Send, Serve, Probe, Decode, Decide, Admit,
      Publish
  <2> QED BY <2>1, PolicyStep
<1> QED
  BY <1>1, <1>2, PTL DEF Spec

(* SitePolicy: an answer of published or unchanged is never taken back by a
   concurrent or later publication of the same number. *)
THEOREM PublishedStays == Spec => []AnswersHold
<1>1. (part = "policy" => PolicyInv) => AnswersHold
  BY DEF PolicyInv, AnswersHold
<1> QED
  BY PolicyPartInv, <1>1, PTL

(* SitePolicy: the worker renders a job with the watermark that its pinned
   revision named when the upload was confirmed. *)
THEOREM PinnedRevisionRendered == Spec => []PinnedPolicyDrawn
<1>1. (part = "policy" => PolicyInv) => PinnedPolicyDrawn
  BY DEF PolicyInv, PinsHold, Policy!PinnedPolicyDrawn, PinnedPolicyDrawn
<1> QED
  BY PolicyPartInv, <1>1, PTL

(* SitePolicy: no deletion request, cleanup or purge takes an upload in good
   standing that some revision names as its watermark. *)
THEOREM NamedWatermarkStays == Spec => WatermarkKept
<1>1. ASSUME PolicyInv, Policy!Next PROVE Policy!KeepsWatermark
  <2> SUFFICES ASSUME NEW a \in Assets,
                      Policy!Referenced(a), asset[a].state = "ready", ~asset[a].pending
               PROVE  asset'[a].state = "ready" /\ ~asset'[a].pending
    BY DEF Policy!KeepsWatermark
  <2> USE DEF PolicyInv, PolicyTypeOK
  <2>1. ASSUME NEW c \in Callers,
               Policy!Publish(c) \/ Policy!ReadAsset(c) \/ Policy!Save(c) \/ Policy!Compare(c)
        PROVE  asset' = asset
    BY <2>1 DEF Policy!Publish, Policy!ReadAsset, Policy!Save, Policy!Compare
  <2>2. ASSUME NEW b \in Assets,
               Policy!Decide(b) \/ Policy!RequestDeletion(b) \/ Policy!Cleanup(b) \/ Policy!Purge(b)
        PROVE  asset'[a] = asset[a]
    <3>1. a # b
      BY <2>2 DEF Policy!Decide, Policy!RequestDeletion, Policy!Cleanup, Policy!Purge
    <3>2. CASE Policy!Decide(b)
      BY <3>1, <3>2 DEF Policy!Decide
    <3>3. CASE Policy!RequestDeletion(b)
      BY <3>1, <3>3 DEF Policy!RequestDeletion
    <3>4. CASE Policy!Cleanup(b)
      BY <3>1, <3>4 DEF Policy!Cleanup
    <3>5. CASE Policy!Purge(b)
      BY <3>1, <3>5 DEF Policy!Purge
    <3> QED BY <2>2, <3>2, <3>3, <3>4, <3>5
  <2>3. ASSUME NEW j \in Jobs, Policy!Confirm(j) \/ Policy!Render(j)
        PROVE  asset' = asset
    BY <2>3 DEF Policy!Confirm, Policy!Render
  <2> QED
    BY <1>1, <2>1, <2>2, <2>3 DEF Policy!Next
<1>2. (part = "policy" => PolicyInv) /\ [Next]_v => [part = "policy" => Policy!KeepsWatermark]_v
  <2> SUFFICES ASSUME PolicyInv, Next, part = "policy" PROVE Policy!KeepsWatermark
    OBVIOUS
  <2>1. Policy!Next
    BY DEF Next, Reserve, Send, Serve, Probe, Decode, Decide, Admit, Publish
  <2> QED BY <1>1, <2>1
<1> QED
  BY PolicyPartInv, <1>2, PTL DEF Spec, WatermarkKept

-----------------------------------------------------------------------------
(* Delivery: the shape of the row, the cache and the requests *)
RequestSteps == {"new", "get", "lead", "wait", "check", "sign", "served", "failed"}

RequestRecords == [step : RequestSteps, late : BOOLEAN, since : Nat, expires : Nat]

DeliveryTypeOK ==
    /\ row \in {"processing", "ready", "deleted", "none"} /\ pending \in BOOLEAN
    /\ cached \in BOOLEAN /\ loaded \in {"none", "manifest", "error"}
    /\ req \in [Viewers -> RequestRecords]
    /\ handler \in {"idle", "committed", "acknowledged"}
    /\ gone \in Nat /\ clock \in Nat

(* A committed deletion is never undone: the guard of is_delivery_allowed
   stays false through the cleanup and the purge that resets the column. *)
DeletionStands ==
    handler # "idle" => /\ row \in {"deleted", "none"} \/ (row = "ready" /\ pending)
                        /\ gone <= clock

(* A request that arrived after the commit never passes the second check *)
LateStopped ==
    \A r \in Viewers :
      req[r].late => handler # "idle" /\ req[r].step \notin {"sign", "served"}

(* The others arrived before the commit, and none is older than the timeout *)
EarlyInTime ==
    \A r \in Viewers :
      /\ req[r].since <= clock
      /\ Serving!InFlight(r) => clock <= req[r].since + RequestTimeout
      /\ handler # "idle" /\ ~req[r].late => req[r].since <= gone \/ ~Serving!InFlight(r)
      /\ req[r].step = "served" => req[r].expires <= clock + UrlTtl

DeliveryInv ==
    DeliveryTypeOK /\ DeletionStands /\ LateStopped /\ EarlyInTime /\ Serving!LinksExpire

LEMMA DeliveryInit ==
    ASSUME Serving!DeliveryAssumption PROVE Serving!Init => DeliveryInv
<1> SUFFICES ASSUME Serving!Init PROVE DeliveryInv
  OBVIOUS
<1>1. /\ UrlTtl \in Nat /\ RequestTimeout \in Nat /\ handler = "idle" /\ clock = 0
      /\ \A r \in Viewers : req[r] = Serving!Fresh
  BY DEF Serving!DeliveryAssumption, Serving!Init
<1>2. DeliveryTypeOK
  BY DEF Serving!Init, Serving!Fresh, DeliveryTypeOK, RequestRecords, RequestSteps
<1>3. DeletionStands /\ LateStopped /\ Serving!LinksExpire
  BY <1>1 DEF Serving!Fresh, DeletionStands, LateStopped, Serving!LinksExpire
<1>4. EarlyInTime
  BY <1>1 DEF Serving!Fresh, EarlyInTime, Serving!InFlight
<1> QED
  BY <1>2, <1>3, <1>4 DEF DeliveryInv

(* A step that moves requests on without signing, and leaves the clock and the
   handler alone, keeps the invariant when those it moves were under way or
   are no longer, and none is moved into signing. *)
LEMMA RequestsMove ==
    ASSUME DeliveryInv, UNCHANGED <<row, pending, handler, gone, clock>>,
           cached' \in BOOLEAN, loaded' \in {"none", "manifest", "error"},
           req' \in [Viewers -> RequestRecords],
           \A r \in Viewers :
             \/ req'[r] = req[r]
             \/ /\ req'[r].since = req[r].since /\ req'[r].late = req[r].late
                /\ Serving!InFlight(r) /\ req'[r].step \in RequestSteps \ {"sign", "served"}
    PROVE  DeliveryInv'
<1> USE DEF DeliveryInv
<1>1. DeliveryTypeOK' /\ DeletionStands'
  BY DEF DeliveryTypeOK, DeletionStands
<1>2. LateStopped'
  BY DEF LateStopped
<1>3. EarlyInTime'
  BY DEF EarlyInTime, Serving!InFlight
<1>4. Serving!LinksExpire'
  BY DEF Serving!LinksExpire
<1> QED
  BY <1>1, <1>2, <1>3, <1>4

LEMMA DeliveryStep ==
    ASSUME Serving!DeliveryAssumption, DeliveryInv, [Serving!Next]_(Serving!vars)
    PROVE  DeliveryInv'
<1> USE DEF DeliveryInv
<1>0. UrlTtl \in Nat /\ RequestTimeout \in Nat
  BY DEF Serving!DeliveryAssumption
<1>1. ASSUME NEW r \in Viewers, Serving!Arrive(r) PROVE DeliveryInv'
  <2>1. /\ req' \in [Viewers -> RequestRecords]
        /\ req'[r].step = "get" /\ req'[r].since = clock
        /\ handler = "idle" => req'[r].late = FALSE
        /\ handler # "idle" => req'[r].late = TRUE
        /\ \A s \in Viewers : s # r => req'[s] = req[s]
    BY <1>1 DEF Serving!Arrive, DeliveryTypeOK, RequestRecords, RequestSteps
  <2>2. UNCHANGED <<row, pending, cached, loaded, handler, gone, clock>>
    BY <1>1 DEF Serving!Arrive
  <2>3. DeliveryTypeOK' /\ DeletionStands'
    BY <2>1, <2>2 DEF DeliveryTypeOK, DeletionStands
  <2>4. LateStopped'
    BY <2>1, <2>2 DEF LateStopped
  <2>5. EarlyInTime'
    BY <1>0, <2>1, <2>2 DEF EarlyInTime, Serving!InFlight, DeliveryTypeOK
  <2>6. Serving!LinksExpire'
    BY <2>1, <2>2 DEF Serving!LinksExpire
  <2> QED BY <2>3, <2>4, <2>5, <2>6
<1>2. ASSUME NEW r \in Viewers, Serving!Lookup(r) PROVE DeliveryInv'
  <2>1. PICK to \in {"check", "wait", "lead"} : req' = [req EXCEPT ![r].step = to]
    BY <1>2 DEF Serving!Lookup, Serving!GoTo
  <2> QED
    BY <1>2, <2>1, RequestsMove DEF Serving!Lookup, DeliveryTypeOK, RequestRecords, RequestSteps,
      Serving!InFlight
<1>3. ASSUME NEW r \in Viewers, Serving!LoadManifest(r) PROVE DeliveryInv'
  BY <1>3, RequestsMove DEF Serving!LoadManifest, Serving!ManifestRead, DeliveryTypeOK
<1>4. ASSUME NEW r \in Viewers, Serving!FinishLoad(r) PROVE DeliveryInv'
  <2>1. /\ req' \in [Viewers -> RequestRecords]
        /\ \A s \in Viewers :
             \/ req'[s] = req[s]
             \/ /\ req'[s].since = req[s].since /\ req'[s].late = req[s].late
                /\ Serving!InFlight(s) /\ req'[s].step \in {"check", "failed"}
    BY <1>4 DEF Serving!FinishLoad, DeliveryTypeOK, RequestRecords, RequestSteps, Serving!InFlight
  <2> QED
    BY <1>4, <2>1, RequestsMove DEF Serving!FinishLoad, DeliveryTypeOK, RequestSteps
<1>5. ASSUME NEW r \in Viewers, Serving!Recheck(r) PROVE DeliveryInv'
  <2>1. CASE Serving!Allowed
    <3>1. handler = "idle"
      BY <2>1 DEF Serving!Allowed, DeletionStands
    <3>2. /\ req' \in [Viewers -> RequestRecords]
          /\ req'[r] = [req[r] EXCEPT !.step = "sign"]
          /\ \A s \in Viewers : s # r => req'[s] = req[s]
      BY <1>5, <2>1 DEF Serving!Recheck, Serving!GoTo, DeliveryTypeOK, RequestRecords, RequestSteps
    <3>3. /\ req[r].step = "check" /\ req[r] \in RequestRecords
          /\ UNCHANGED <<row, pending, cached, loaded, handler, gone, clock>>
      BY <1>5, <2>1 DEF Serving!Recheck, DeliveryTypeOK
    <3>4. DeliveryTypeOK' /\ DeletionStands'
      BY <3>2, <3>3 DEF DeliveryTypeOK, DeletionStands
    <3>5. LateStopped'
      BY <3>1, <3>2, <3>3 DEF LateStopped, RequestRecords
    <3>6. EarlyInTime'
      BY <3>1, <3>2, <3>3 DEF EarlyInTime, Serving!InFlight, RequestRecords
    <3>7. Serving!LinksExpire'
      BY <3>1, <3>3 DEF Serving!LinksExpire
    <3> QED BY <3>4, <3>5, <3>6, <3>7
  <2>2. CASE ~Serving!Allowed
    <3>1. req' = [req EXCEPT ![r].step = "failed"] /\ cached' = FALSE
      BY <1>5, <2>2 DEF Serving!Recheck, Serving!GoTo
    <3> QED
      BY <1>5, <3>1, RequestsMove DEF Serving!Recheck, DeliveryTypeOK, RequestRecords,
        RequestSteps, Serving!InFlight
  <2> QED BY <2>1, <2>2
<1>6. ASSUME NEW r \in Viewers, Serving!Sign(r) PROVE DeliveryInv'
  <2>1. CASE Serving!GoTo(r, "failed")
    BY <1>6, <2>1, RequestsMove DEF Serving!Sign, Serving!GoTo, DeliveryTypeOK, RequestRecords,
      RequestSteps, Serving!InFlight
  <2>2. CASE req' = [req EXCEPT ![r] = [@ EXCEPT !.step = "served", !.expires = clock + UrlTtl]]
    <3>1. /\ req[r].step = "sign" /\ req[r] \in RequestRecords /\ clock \in Nat /\ gone \in Nat
          /\ UNCHANGED <<row, pending, cached, loaded, handler, gone, clock>>
      BY <1>6 DEF Serving!Sign, DeliveryTypeOK
    <3>2. /\ req' \in [Viewers -> RequestRecords]
          /\ req'[r].step = "served" /\ req'[r].expires = clock + UrlTtl
          /\ req'[r].late = req[r].late /\ req'[r].since = req[r].since
          /\ \A s \in Viewers : s # r => req'[s] = req[s]
      <4> DEFINE given == [req[r] EXCEPT !.step = "served", !.expires = clock + UrlTtl]
      <4>1. clock + UrlTtl \in Nat
        BY <1>0, <3>1
      <4>2. /\ given \in RequestRecords
            /\ given.step = "served" /\ given.expires = clock + UrlTtl
            /\ given.late = req[r].late /\ given.since = req[r].since
        BY <3>1, <4>1 DEF RequestRecords, RequestSteps
      <4>3. req' = [req EXCEPT ![r] = given]
        BY <2>2
      <4> HIDE DEF given
      <4> QED
        BY <3>1, <4>2, <4>3 DEF DeliveryTypeOK
    <3>3. DeliveryTypeOK' /\ DeletionStands'
      BY <3>1, <3>2 DEF DeliveryTypeOK, DeletionStands
    <3>4. LateStopped'
      BY <3>1, <3>2 DEF LateStopped, RequestRecords
    <3>5. EarlyInTime'
      BY <1>0, <3>1, <3>2 DEF EarlyInTime, Serving!InFlight, RequestRecords
    <3>6. Serving!LinksExpire'
      <4>1. handler # "idle" => req[r].since <= gone /\ clock <= req[r].since + RequestTimeout
        BY <3>1 DEF LateStopped, EarlyInTime, Serving!InFlight, RequestRecords
      <4>2. handler # "idle" => clock + UrlTtl <= gone + RequestTimeout + UrlTtl
        BY <1>0, <3>1, <4>1 DEF RequestRecords
      <4> QED
        BY <3>1, <3>2, <4>2 DEF Serving!LinksExpire, RequestRecords
    <3> QED BY <3>3, <3>4, <3>5, <3>6
  <2> QED BY <1>6, <2>1, <2>2 DEF Serving!Sign
<1>7. ASSUME NEW r \in Viewers, Serving!CutOff(r) PROVE DeliveryInv'
  <2>1. /\ req' \in [Viewers -> RequestRecords]
        /\ \A s \in Viewers :
             \/ req'[s] = req[s]
             \/ /\ req'[s].since = req[s].since /\ req'[s].late = req[s].late
                /\ Serving!InFlight(s) /\ req'[s].step \in {"get", "failed"}
    BY <1>7 DEF Serving!CutOff, DeliveryTypeOK, RequestRecords, RequestSteps, Serving!InFlight
  <2> QED
    BY <1>7, <2>1, RequestsMove DEF Serving!CutOff, DeliveryTypeOK, RequestSteps
<1>8. ASSUME NEW r \in Viewers, Serving!Again(r) PROVE DeliveryInv'
  <2>1. /\ req' \in [Viewers -> RequestRecords] /\ req'[r] = Serving!Fresh
        /\ \A s \in Viewers : s # r => req'[s] = req[s]
    BY <1>8 DEF Serving!Again, Serving!Fresh, DeliveryTypeOK, RequestRecords, RequestSteps
  <2>2. UNCHANGED <<row, pending, cached, loaded, handler, gone, clock>>
    BY <1>8 DEF Serving!Again
  <2>3. DeliveryTypeOK' /\ DeletionStands'
    BY <2>1, <2>2 DEF DeliveryTypeOK, DeletionStands
  <2>4. LateStopped' /\ EarlyInTime' /\ Serving!LinksExpire'
    BY <2>1, <2>2 DEF LateStopped, EarlyInTime, Serving!LinksExpire, Serving!Fresh,
      Serving!InFlight, DeliveryTypeOK
  <2> QED BY <2>3, <2>4
<1>9. CASE Serving!Publish \/ Serving!Invalidate \/ Serving!Cleanup \/ Serving!Purge \/ Serving!Evict
  BY <1>9 DEF Serving!Publish, Serving!Invalidate, Serving!Cleanup, Serving!Purge, Serving!Evict,
    DeliveryTypeOK, DeletionStands, LateStopped, EarlyInTime, Serving!InFlight,
    Serving!LinksExpire
<1>10. CASE Serving!RequestDeletion
  <2>1. DeliveryTypeOK' /\ DeletionStands' /\ LateStopped' /\ EarlyInTime'
    BY <1>10 DEF Serving!RequestDeletion, DeliveryTypeOK, DeletionStands, LateStopped,
      EarlyInTime, Serving!InFlight
  <2>2. Serving!LinksExpire'
    BY <1>0, <1>10 DEF Serving!RequestDeletion, DeliveryTypeOK, RequestRecords, EarlyInTime,
      Serving!LinksExpire
  <2> QED BY <2>1, <2>2
<1>11. CASE Serving!Tick
  <2>1. DeliveryTypeOK' /\ DeletionStands' /\ LateStopped'
    BY <1>11 DEF Serving!Tick, DeliveryTypeOK, DeletionStands, LateStopped
  <2>2. EarlyInTime'
    BY <1>0, <1>11 DEF Serving!Tick, DeliveryTypeOK, RequestRecords, EarlyInTime, Serving!InFlight
  <2>3. Serving!LinksExpire'
    BY <1>11 DEF Serving!Tick, Serving!LinksExpire
  <2> QED BY <2>1, <2>2, <2>3
<1>12. CASE UNCHANGED Serving!vars
  BY <1>12 DEF Serving!vars, DeliveryTypeOK, DeletionStands, LateStopped, EarlyInTime,
    Serving!InFlight, Serving!LinksExpire
<1> QED
  BY <1>1, <1>2, <1>3, <1>4, <1>5, <1>6, <1>7, <1>8, <1>9, <1>10, <1>11, <1>12
    DEF Serving!Next

LEMMA DeliveryPartInv == Spec => [](part = "delivery" => DeliveryInv)
<1> USE ServicesAssumption DEF ServicesAssumption
<1>1. Init => (part = "delivery" => DeliveryInv)
  BY DeliveryInit DEF Init, Chosen
<1>2. (part = "delivery" => DeliveryInv) /\ [Next]_v => (part = "delivery" => DeliveryInv)'
  <2> SUFFICES ASSUME part = "delivery" => DeliveryInv, [Next]_v, part' = "delivery"
               PROVE  DeliveryInv'
    OBVIOUS
  <2>1. part = "delivery" /\ [Serving!Next]_(Serving!vars)
    BY DEF Next, v, serving, Serving!vars, Reserve, Send, Serve, Probe, Decode, Decide, Admit,
      Publish
  <2> QED BY <2>1, DeliveryStep
<1> QED
  BY <1>1, <1>2, PTL DEF Spec

(* Delivery: a deletion that was committed ends delivery.  A request that
   arrives later is never given a URL, although a slow load may put the
   manifest back into the cache, and no URL lives longer than the request
   timeout and its own lifetime after the commit. *)
THEOREM DeletionIsFinal == Spec => []DeletionEndsDelivery
<1>1. (part = "delivery" => DeliveryInv) => DeletionEndsDelivery
  BY DEF DeliveryInv, LateStopped, Serving!DeletionEndsDelivery, Serving!NoUrlAfterDeletion,
    DeletionEndsDelivery
<1> QED
  BY DeliveryPartInv, <1>1, PTL

-----------------------------------------------------------------------------
(* Admission: the calls, the bucket, the permits and the nonces *)
CallSteps == {"new", "rate", "refused", "permit", "verify", "consume", "handle", "answered"}

CallRecords == [step : CallSteps, since : Nat, now : Nat]

Executions == [message : Messages, now : Nat, at : Nat]

Nonces == [message : Messages, expires_at : Nat]

CallsOK == call \in [Calls -> CallRecords] /\ \A c \in Calls : call[c].now <= now

BucketOK ==
    /\ tokens \in Nat /\ tokens <= Burst /\ refilled_at \in Nat /\ refilled_at <= now
    /\ admitted \in Seq(Nat) /\ \A i \in 1..Len(admitted) : admitted[i] <= now
    /\ refused \in Nat /\ (refused = Gate!Never \/ refused <= now)

NoncesOK == executed \in Seq(Executions) /\ nonces \in SUBSET Nonces

LEMMA GateConstants ==
    /\ Rate \in Nat \ {0} /\ Burst \in Nat \ {0} /\ Second \in Nat \ {0} /\ MaxInFlight \in Nat
    /\ Skew \in Nat /\ MaxTime \in Nat /\ MessageOf \in [Calls -> Messages]
  BY ServicesAssumption DEF Gate!AdmissionAssumption

LEMMA GoesTo ==
    ASSUME CallsOK, now' = now, NEW c \in Calls, NEW s \in CallSteps, Gate!GoTo(c, s)
    PROVE  /\ CallsOK' /\ call'[c].step = s
           /\ \A d \in Calls : d # c => call'[d] = call[d]
<1>1. PICK r : r = [call[c] EXCEPT !.step = s]
  OBVIOUS
<1>2. r \in CallRecords /\ r.step = s /\ r.now = call[c].now
  BY <1>1 DEF CallsOK, CallRecords
<1>3. call' = [call EXCEPT ![c] = r]
  BY <1>1 DEF Gate!GoTo
<1> QED BY <1>2, <1>3 DEF CallsOK

(* Where a call was and where it is after a step of its own *)
Moved(c, from, to) ==
    /\ now' = now /\ CallsOK' /\ call[c].step \in from /\ call'[c].step \in to
    /\ \A d \in Calls : d # c => call'[d] = call[d]

Inside == {"verify", "consume", "handle"}

(* What every step does to the calls and their permits *)
LEMMA CallsMove ==
    ASSUME CallsOK, now \in Nat, NEW c \in Calls,
           \/ Gate!Send(c) \/ Gate!AdmitToken(c) \/ Gate!AcquirePermit(c) \/ Gate!Verify(c)
           \/ Gate!Consume(c) \/ Gate!ConsumeFails(c) \/ Gate!Handle(c) \/ Gate!CutOff(c)
    PROVE  \/ Moved(c, CallSteps \ Inside, CallSteps \ Inside) /\ permits' = permits
           \/ Moved(c, {"permit"}, Inside) /\ permits > 0 /\ permits' = permits - 1
           \/ Moved(c, Inside, Inside) /\ permits' = permits
           \/ Moved(c, Inside, CallSteps \ Inside) /\ permits' = permits + 1
<1> USE DEF Moved, CallSteps, Inside
<1>0. call[c].step \in CallSteps
  BY DEF CallsOK, CallRecords
<1>1. CASE Gate!Send(c)
  <2>1. PICK r : r = [call[c] EXCEPT !.step = "rate", !.since = now]
    OBVIOUS
  <2>2. r \in CallRecords /\ r.step = "rate" /\ r.now = call[c].now
    BY <2>1 DEF CallsOK, CallRecords
  <2>3. /\ call' = [call EXCEPT ![c] = r] /\ now' = now /\ permits' = permits
        /\ call[c].step = "new"
    BY <1>1, <2>1 DEF Gate!Send, CallsOK
  <2> QED BY <2>2, <2>3 DEF CallsOK
<1>2. CASE Gate!AdmitToken(c)
  <2>1. PICK s \in {"refused", "permit"} : Gate!GoTo(c, s)
    BY <1>2 DEF Gate!AdmitToken
  <2>2. call[c].step = "rate" /\ now' = now /\ permits' = permits
    BY <1>2 DEF Gate!AdmitToken
  <2> QED BY <2>1, <2>2, GoesTo
<1>3. CASE Gate!AcquirePermit(c)
  <2>1. call[c].step = "permit" /\ now' = now
    BY <1>3 DEF Gate!AcquirePermit
  <2>2. CASE Gate!GoTo(c, "verify") /\ permits > 0 /\ permits' = permits - 1
    BY <2>1, <2>2, GoesTo
  <2>3. CASE Gate!GoTo(c, "refused") /\ permits' = permits
    BY <2>1, <2>3, GoesTo
  <2> QED BY <1>3, <2>2, <2>3 DEF Gate!AcquirePermit
<1>4. ASSUME Gate!Answer(c), call[c].step \in Inside, now' = now
      PROVE  Moved(c, Inside, CallSteps \ Inside) /\ permits' = permits + 1
  BY <1>4, GoesTo DEF Gate!Answer
<1>5. CASE Gate!Verify(c)
  <2>1. call[c].step = "verify" /\ now' = now
    BY <1>5 DEF Gate!Verify
  <2>2. CASE Gate!Answer(c)
    BY <1>4, <2>1, <2>2
  <2>3. CASE call' = [call EXCEPT ![c].step = "consume", ![c].now = now] /\ permits' = permits
    <3>1. PICK r : r = [call[c] EXCEPT !.step = "consume", !.now = now]
      OBVIOUS
    <3>2. r \in CallRecords /\ r.step = "consume" /\ r.now = now
      BY <3>1 DEF CallsOK, CallRecords
    <3>3. call' = [call EXCEPT ![c] = r]
      BY <2>3, <3>1 DEF CallsOK
    <3>4. call'[c] = r /\ \A d \in Calls : d # c => call'[d] = call[d]
      BY <3>3 DEF CallsOK
    <3>5. CallsOK'
      BY <2>1, <3>2, <3>3, <3>4 DEF CallsOK
    <3> QED BY <2>1, <2>3, <3>2, <3>4, <3>5
  <2> QED BY <1>5, <2>2, <2>3 DEF Gate!Verify
<1>6. CASE Gate!Consume(c)
  <2>1. call[c].step = "consume" /\ now' = now
    BY <1>6 DEF Gate!Consume
  <2>2. CASE Gate!Answer(c)
    BY <1>4, <2>1, <2>2
  <2>3. CASE Gate!GoTo(c, "handle") /\ permits' = permits
    BY <2>1, <2>3, GoesTo
  <2> QED BY <1>6, <2>2, <2>3 DEF Gate!Consume
<1>7. CASE Gate!ConsumeFails(c) \/ Gate!Handle(c)
  BY <1>4, <1>7 DEF Gate!ConsumeFails, Gate!Handle
<1>8. CASE Gate!CutOff(c)
  <2>1. Gate!GoTo(c, "answered") /\ now' = now
    BY <1>8 DEF Gate!CutOff
  <2>2. CASE Gate!HoldsPermit(c)
    BY <1>8, <2>1, <2>2, GoesTo DEF Gate!CutOff, Gate!HoldsPermit
  <2>3. CASE ~Gate!HoldsPermit(c)
    BY <1>0, <1>8, <2>1, <2>3, GoesTo DEF Gate!CutOff, Gate!HoldsPermit
  <2> QED BY <2>2, <2>3
<1> QED BY <1>1, <1>2, <1>3, <1>5, <1>6, <1>7, <1>8

(* A permit is out for every call past the semaphore, and for no other *)
Holders == {c \in Calls : call[c].step \in Inside}

PermitsHeld ==
    permits \in Nat /\ IsFiniteSet(Holders) /\ permits + Cardinality(Holders) = MaxInFlight

LEMMA PermitsKept ==
    ASSUME CallsOK, now \in Nat, PermitsHeld, [Gate!Next]_(Gate!vars)
    PROVE  PermitsHeld' /\ CallsOK'
<1>1. CASE Gate!Tick \/ UNCHANGED Gate!vars
  <2>1. UNCHANGED <<permits, call>> /\ now' \in {now, now + 1}
    BY <1>1 DEF Gate!Tick, Gate!vars
  <2>2. Holders' = Holders
    BY <2>1 DEF Holders
  <2>3. CallsOK'
    BY <2>1 DEF CallsOK, CallRecords
  <2> QED BY <2>1, <2>2, <2>3 DEF PermitsHeld
<1>2. ASSUME NEW c \in Calls,
             \/ Gate!Send(c) \/ Gate!AdmitToken(c) \/ Gate!AcquirePermit(c) \/ Gate!Verify(c)
             \/ Gate!Consume(c) \/ Gate!ConsumeFails(c) \/ Gate!Handle(c) \/ Gate!CutOff(c)
      PROVE  PermitsHeld' /\ CallsOK'
  <2>0. PICK H, k : H = Holders /\ k = Cardinality(H)
    OBVIOUS
  <2>00. permits \in Nat /\ IsFiniteSet(H) /\ permits + k = MaxInFlight /\ k \in Nat
    BY <2>0, FS_CardinalityType DEF PermitsHeld
  <2>1. CASE \/ Moved(c, CallSteps \ Inside, CallSteps \ Inside) /\ permits' = permits
             \/ Moved(c, Inside, Inside) /\ permits' = permits
    <3>1. Holders' = Holders
      BY <2>1 DEF Moved, Holders
    <3> QED BY <2>1, <3>1 DEF Moved, PermitsHeld
  <2>2. CASE Moved(c, {"permit"}, Inside) /\ permits > 0 /\ permits' = permits - 1
    <3>1. Holders' = H \cup {c} /\ c \notin H
      BY <2>0, <2>2 DEF Moved, Holders, Inside
    <3>2. IsFiniteSet(H \cup {c}) /\ Cardinality(H \cup {c}) = k + 1
      BY <2>0, <2>00, <3>1, FS_AddElement
    <3>3. permits' \in Nat /\ permits' + (k + 1) = MaxInFlight
      BY <2>00, <2>2
    <3> QED BY <2>2, <3>1, <3>2, <3>3 DEF Moved, PermitsHeld
  <2>3. CASE Moved(c, Inside, CallSteps \ Inside) /\ permits' = permits + 1
    <3>1. Holders' = H \ {c} /\ c \in H
      BY <2>0, <2>3 DEF Moved, Holders, Inside
    <3>2. IsFiniteSet(H \ {c}) /\ Cardinality(H \ {c}) = k - 1
      BY <2>0, <2>00, <3>1, FS_RemoveElement
    <3>3. permits' \in Nat /\ permits' + (k - 1) = MaxInFlight
      BY <2>00, <2>3
    <3> QED BY <2>3, <3>1, <3>2, <3>3 DEF Moved, PermitsHeld
  <2> QED BY <1>2, <2>1, <2>2, <2>3, CallsMove
<1> QED BY <1>1, <1>2 DEF Gate!Next

(* A message that was executed is remembered until the skew after its date is over *)
Remembered ==
    \A i \in 1..Len(executed) :
      \/ \E n \in nonces : n.message = executed[i].message /\ n.expires_at >= executed[i].now + Skew
      \/ now >= executed[i].now + Skew

FarApart ==
    \A i, j \in 1..Len(executed) :
      i < j /\ executed[i].message = executed[j].message =>
        executed[j].at >= executed[i].now + Skew

LEMMA NoncesKept ==
    ASSUME CallsOK, now \in Nat, NoncesOK, Remembered, FarApart, [Gate!Next]_(Gate!vars)
    PROVE  NoncesOK' /\ Remembered' /\ FarApart'
<1>1. CASE UNCHANGED <<nonces, executed>> /\ now' \in {now, now + 1}
  <2>1. ASSUME NEW i \in 1..Len(executed) PROVE executed[i].now + Skew \in Nat
    <3>1. executed[i] \in Executions
      BY DEF NoncesOK
    <3> QED BY <3>1, GateConstants DEF Executions
  <2>2. Remembered'
    BY <1>1, <2>1 DEF Remembered
  <2> QED BY <1>1, <2>2 DEF NoncesOK, FarApart
<1>2. ASSUME NEW c \in Calls, Gate!Consume(c), ~UNCHANGED executed
      PROVE  NoncesOK' /\ Remembered' /\ FarApart'
  <2>1. PICK m, t : m = MessageOf[c] /\ t = call[c].now
    OBVIOUS
  <2>2. m \in Messages /\ t \in Nat /\ t <= now /\ t + Skew \in Nat
    BY <2>1, GateConstants DEF CallsOK, CallRecords
  <2>3. PICK kept : kept = {n \in nonces : n.expires_at > t}
    OBVIOUS
  <2>4. PICK e : e = [message |-> m, now |-> t, at |-> now]
    OBVIOUS
  <2>5. PICK o : o = [message |-> m, expires_at |-> t + Skew]
    OBVIOUS
  <2>6. /\ \A n \in kept : n.message # m
        /\ nonces' = kept \cup {o} /\ executed' = Append(executed, e) /\ now' = now
    BY <1>2, <2>1, <2>3, <2>4, <2>5 DEF Gate!Consume, Gate!ExpiresAt
  <2>7. /\ e \in Executions /\ e.message = m /\ e.now = t /\ e.at = now
        /\ o \in Nonces /\ o.message = m /\ o.expires_at = t + Skew
    BY <2>2, <2>4, <2>5 DEF Executions, Nonces
  <2>8. PICK s \in Seq(Executions), l \in Nat : s = executed /\ l = Len(s)
    BY DEF NoncesOK
  <2>9. /\ Len(executed') = l + 1
        /\ \A i \in 1..(l + 1) : executed'[i] = IF i = l + 1 THEN e ELSE s[i]
        /\ executed' \in Seq(Executions)
    BY <2>6, <2>7, <2>8
  <2>10. NoncesOK'
    BY <2>3, <2>6, <2>7, <2>9 DEF NoncesOK
  <2>11. ASSUME NEW i \in 1..l
         PROVE  /\ s[i].now + Skew \in Nat /\ s[i] \in Executions
                /\ \/ \E n \in kept : n.message = s[i].message /\ n.expires_at >= s[i].now + Skew
                   \/ now >= s[i].now + Skew
    <3>1. s[i] \in Executions
      BY <2>8
    <3>2. PICK d \in Nat : d = s[i].now + Skew
      BY <3>1, GateConstants DEF Executions
    <3>3. CASE now >= s[i].now + Skew
      BY <3>1, <3>2, <3>3
    <3>4. ASSUME NEW n \in nonces, n.message = s[i].message, n.expires_at >= s[i].now + Skew
          PROVE  \/ \E x \in kept : x.message = s[i].message /\ x.expires_at >= s[i].now + Skew
                 \/ now >= s[i].now + Skew
      <4>1. n.expires_at \in Nat
        BY DEF NoncesOK, Nonces
      <4>2. CASE n.expires_at > t
        BY <2>3, <3>4, <4>2
      <4>3. CASE ~(n.expires_at > t)
        BY <2>2, <3>2, <3>4, <4>1, <4>3
      <4> QED BY <4>2, <4>3
    <3> QED BY <2>8, <3>1, <3>2, <3>3, <3>4 DEF Remembered
  <2>12. Remembered'
    <3> SUFFICES ASSUME NEW i \in 1..(l + 1)
                 PROVE  \/ \E n \in nonces' : /\ n.message = executed'[i].message
                                              /\ n.expires_at >= executed'[i].now + Skew
                        \/ now' >= executed'[i].now + Skew
      BY <2>9 DEF Remembered
    <3>1. CASE i = l + 1
      <4>1. executed'[i] = e /\ o \in nonces'
        BY <2>6, <2>9, <3>1
      <4>2. o.message = e.message /\ o.expires_at >= e.now + Skew
        BY <2>2, <2>7
      <4> QED BY <4>1, <4>2
    <3>2. CASE i # l + 1
      <4>1. i \in 1..l /\ executed'[i] = s[i]
        BY <2>9, <3>2
      <4> QED BY <2>6, <2>11, <4>1
    <3> QED BY <3>1, <3>2
  <2>13. ASSUME NEW i \in 1..l, s[i].message = m PROVE now >= s[i].now + Skew
    <3>1. ~ \E n \in kept : n.message = s[i].message
      BY <2>6, <2>13
    <3> QED BY <2>11, <3>1
  <2>14. FarApart'
    <3> SUFFICES ASSUME NEW i \in 1..(l + 1), NEW j \in 1..(l + 1), i < j,
                        executed'[i].message = executed'[j].message
                 PROVE  executed'[j].at >= executed'[i].now + Skew
      BY <2>9 DEF FarApart
    <3>1. i \in 1..l /\ executed'[i] = s[i]
      BY <2>9
    <3>2. CASE j = l + 1
      <4>1. executed'[j] = e
        BY <2>9, <3>2
      <4>2. s[i].message = m
        BY <2>7, <3>1, <4>1
      <4> QED BY <2>7, <2>13, <3>1, <4>1, <4>2
    <3>3. CASE j # l + 1
      <4>1. j \in 1..l /\ executed'[j] = s[j]
        BY <2>9, <3>3
      <4> QED BY <2>8, <3>1, <4>1 DEF FarApart
    <3> QED BY <3>2, <3>3
  <2> QED BY <2>10, <2>12, <2>14
<1>3. ASSUME NEW c \in Calls, Gate!Consume(c), UNCHANGED executed
      PROVE  UNCHANGED <<nonces, executed>> /\ now' = now
  <2>1. now' = now
    BY <1>3 DEF Gate!Consume
  <2>2. CASE UNCHANGED <<nonces, executed>>
    BY <2>1, <2>2
  <2>3. ASSUME NEW e, executed' = Append(executed, e) PROVE FALSE
    <3>1. Len(executed') = Len(executed) + 1 /\ Len(executed) \in Nat
      BY <2>3 DEF NoncesOK
    <3> QED BY <1>3, <3>1
  <2> QED BY <1>3, <2>1, <2>2, <2>3 DEF Gate!Consume
<1>4. ASSUME NEW c \in Calls,
             \/ Gate!Send(c) \/ Gate!AdmitToken(c) \/ Gate!AcquirePermit(c) \/ Gate!Verify(c)
             \/ Gate!ConsumeFails(c) \/ Gate!Handle(c) \/ Gate!CutOff(c)
      PROVE  UNCHANGED <<nonces, executed>> /\ now' = now
  BY <1>4 DEF Gate!Send, Gate!AdmitToken, Gate!AcquirePermit, Gate!Verify, Gate!ConsumeFails,
    Gate!Handle, Gate!CutOff
<1>5. Gate!Tick \/ UNCHANGED Gate!vars => UNCHANGED <<nonces, executed>> /\ now' \in {now, now + 1}
  BY DEF Gate!Tick, Gate!vars
<1> QED BY <1>1, <1>2, <1>3, <1>4, <1>5 DEF Gate!Next

(* The token bucket.  Tokens and admissions since any admission are paid for by a burst
   and the time credited since. *)
Paid ==
    \A i \in 1..Len(admitted) :
      (Len(admitted) - i + 1 + tokens) * Second
        <= Burst * Second + (refilled_at - admitted[i]) * Rate + (Second - 1)

RateKept ==
    \A i, j \in 1..Len(admitted) :
      i <= j => (j - i + 1) * Second
                  <= Burst * Second + (admitted[j] - admitted[i]) * Rate + (Second - 1)

(* Time is credited only when a call is admitted for it *)
CreditedInTime ==
    /\ admitted # << >> => refilled_at <= admitted[Len(admitted)]
    /\ refused # Gate!Never /\ admitted # << >> /\ admitted[Len(admitted)] <= refused =>
         (refused - admitted[Len(admitted)]) * Rate < Second

BucketInv == BucketOK /\ Paid /\ RateKept /\ CreditedInTime

LEMMA ProductOrder ==
    ASSUME NEW a \in Int, NEW b \in Int, NEW u \in Nat, a <= b
    PROVE  a * u <= b * u /\ a * u \in Int /\ b * u \in Int
  OBVIOUS

(* What a refill credits was there, and what it leaves is less than a token *)
LEMMA Credit ==
    ASSUME BucketOK, now \in Nat
    PROVE  /\ Gate!Refill \in Nat /\ Gate!RefilledAt \in Nat /\ Gate!RefilledAt <= now
           /\ refilled_at <= Gate!RefilledAt
           /\ Gate!Refill * Second <= (Gate!RefilledAt - refilled_at) * Rate
           /\ (now - Gate!RefilledAt) * Rate < Second
           /\ Gate!Refill = 0 => Gate!RefilledAt = refilled_at
           /\ Gate!Refill > 0 => Gate!RefilledAt = now
<1>1. ASSUME NEW a \in Nat, NEW u \in Nat \ {0}
      PROVE  a \div u \in Nat /\ (a \div u) * u <= a /\ a < (a \div u) * u + u
  OBVIOUS
<1>2. PICK d \in Nat : d = now - refilled_at
  BY DEF BucketOK
<1>3. PICK a \in Nat : a = d * Rate
  BY GateConstants
<1>4. Gate!Refill = a \div Second
  BY <1>2, <1>3 DEF Gate!Refill
<1>5. PICK n \in Nat : n = Gate!Refill /\ n * Second <= a /\ a < n * Second + Second
  BY <1>1, <1>4, GateConstants
<1>6. CASE n = 0
  <2>1. Gate!RefilledAt = refilled_at
    BY <1>5, <1>6 DEF Gate!RefilledAt
  <2>2. n * Second = 0 /\ (refilled_at - refilled_at) * Rate = 0
    BY <1>6, GateConstants DEF BucketOK
  <2>3. a < Second
    BY <1>5, <2>2, GateConstants
  <2> QED BY <1>2, <1>3, <1>5, <1>6, <2>1, <2>2, <2>3 DEF BucketOK
<1>7. CASE n # 0
  <2>1. Gate!RefilledAt = now
    BY <1>5, <1>7 DEF Gate!RefilledAt
  <2>2. (now - now) * Rate = 0 /\ 0 < Second
    BY GateConstants
  <2> QED BY <1>2, <1>3, <1>5, <1>7, <2>1, <2>2 DEF BucketOK
<1> QED BY <1>6, <1>7

LEMMA BucketInit ==
    ASSUME tokens = Burst, refilled_at = 0, admitted = << >>, refused = Gate!Never, now = 0
    PROVE  BucketInv
<1>1. Gate!Never \in Nat
  BY GateConstants DEF Gate!Never
<1> QED BY <1>1, GateConstants DEF BucketInv, BucketOK, Paid, RateKept, CreditedInTime

LEMMA BucketAdmits ==
    ASSUME BucketInv, now \in Nat, now <= MaxTime, NEW filled \in Nat, filled > 0,
           filled <= tokens + Gate!Refill, filled <= Burst,
           refilled_at' = Gate!RefilledAt, tokens' = filled - 1,
           admitted' = Append(admitted, now), UNCHANGED <<refused, now>>
    PROVE  BucketInv'
<1> USE DEF BucketInv
<1>1. PICK s \in Seq(Nat), l \in Nat : s = admitted /\ l = Len(s)
  BY DEF BucketOK
<1>2. /\ admitted' \in Seq(Nat) /\ Len(admitted') = l + 1 /\ admitted' # << >>
      /\ \A i \in 1..(l + 1) : admitted'[i] = IF i = l + 1 THEN now ELSE s[i]
  BY <1>1
<1>3. PICK S \in Nat \ {0}, R \in Nat \ {0}, B \in Nat \ {0} : S = Second /\ R = Rate /\ B = Burst
  BY GateConstants
<1>4. PICK n \in Nat, r1 \in Nat, r0 \in Nat, k \in Nat :
        n = Gate!Refill /\ r1 = Gate!RefilledAt /\ r0 = refilled_at /\ k = tokens
  BY Credit DEF BucketOK
<1>5. r0 <= r1 /\ r1 <= now /\ n * S <= (r1 - r0) * R /\ (now - r1) * R < S
  BY <1>3, <1>4, Credit
<1>6. BucketOK'
  <2>1. \A i \in 1..l : s[i] <= now
    BY <1>1 DEF BucketOK
  <2>2. ASSUME NEW i \in 1..(l + 1) PROVE admitted'[i] <= now
    <3>1. CASE i = l + 1
      BY <1>2, <3>1
    <3>2. CASE i # l + 1
      <4>1. i \in 1..l
        BY <3>2
      <4> QED BY <1>2, <2>1, <3>2, <4>1
    <3> QED BY <3>1, <3>2
  <2>3. tokens' \in Nat /\ tokens' <= Burst
    BY <1>3
  <2> QED BY <1>2, <1>4, <1>5, <2>2, <2>3 DEF BucketOK, Gate!Never
<1>7. ASSUME NEW i \in 1..(l + 1)
      PROVE  /\ admitted'[i] \in Nat
             /\ (l + 1 - i + 1 + (filled - 1)) * S <= B * S + (r1 - admitted'[i]) * R + (S - 1)
  <2>1. CASE i = l + 1
    <3>1. l + 1 - i + 1 + (filled - 1) = filled /\ admitted'[i] = now
      BY <1>2, <2>1
    <3>2. filled * S <= B * S /\ filled * S \in Int /\ B * S \in Int
      BY <1>3, ProductOrder
    <3>3. (r1 - now) * R = 0 - (now - r1) * R /\ (now - r1) * R \in Int
      OBVIOUS
    <3>4. PICK z \in Int : z = (now - r1) * R
      BY <3>3
    <3>5. (r1 - now) * R = 0 - z /\ z < S
      BY <1>5, <3>3, <3>4
    <3>6. PICK x \in Int, y \in Int : x = filled * S /\ y = B * S
      BY <3>2
    <3>7. x <= y + (0 - z) + (S - 1)
      BY <3>2, <3>5, <3>6
    <3> QED BY <3>1, <3>5, <3>6, <3>7
  <2>2. CASE i # l + 1
    <3>1. i \in 1..l /\ admitted'[i] = s[i] /\ s[i] \in Nat
      BY <1>1, <1>2, <2>2
    <3>2. PICK a \in Nat : a = s[i]
      BY <3>1
    <3>3. (l - i + 1 + k) * S <= B * S + (r0 - a) * R + (S - 1)
      BY <1>1, <1>3, <1>4, <3>1, <3>2 DEF Paid
    <3>4. (l + 1 - i + 1 + (filled - 1)) <= (l - i + 1 + k) + n
      BY <1>4
    <3>5. /\ (l + 1 - i + 1 + (filled - 1)) * S <= ((l - i + 1 + k) + n) * S
          /\ (l + 1 - i + 1 + (filled - 1)) * S \in Int
      <4>1. (l + 1 - i + 1 + (filled - 1)) \in Int /\ (l - i + 1 + k) + n \in Int
        OBVIOUS
      <4> QED BY <3>4, <4>1, ProductOrder
    <3>6. /\ ((l - i + 1 + k) + n) * S = (l - i + 1 + k) * S + n * S
          /\ (l - i + 1 + k) * S \in Int /\ n * S \in Int
      OBVIOUS
    <3>7. (r0 - a) * R + (r1 - r0) * R = (r1 - a) * R /\ (r0 - a) * R \in Int /\ (r1 - r0) * R \in Int
      OBVIOUS
    <3>8. PICK p \in Int, q \in Int, u \in Int, w \in Int, x \in Int, y \in Int :
            /\ p = (l + 1 - i + 1 + (filled - 1)) * S /\ q = (l - i + 1 + k) * S /\ u = n * S
            /\ w = B * S /\ x = (r0 - a) * R /\ y = (r1 - r0) * R
      BY <3>5, <3>6, <3>7
    <3>9. p <= q + u /\ q <= w + x + (S - 1) /\ u <= y
      BY <1>5, <3>3, <3>5, <3>6, <3>8
    <3>10. p <= w + (x + y) + (S - 1)
      BY <3>9
    <3> QED BY <3>1, <3>2, <3>7, <3>8, <3>10
  <2> QED BY <2>1, <2>2
<1>8. Paid'
  <2> SUFFICES ASSUME NEW i \in 1..Len(admitted')
               PROVE  (Len(admitted') - i + 1 + tokens') * Second
                        <= Burst * Second + (refilled_at' - admitted'[i]) * Rate + (Second - 1)
    BY DEF Paid
  <2>1. i \in 1..(l + 1) /\ Len(admitted') = l + 1
    BY <1>2
  <2>2. (l + 1 - i + 1 + (filled - 1)) * S <= B * S + (r1 - admitted'[i]) * R + (S - 1)
    BY <1>7, <2>1
  <2> QED BY <1>3, <1>4, <2>1, <2>2
<1>9. RateKept'
  <2> SUFFICES ASSUME NEW i \in 1..(l + 1), NEW j \in 1..(l + 1), i <= j
               PROVE  (j - i + 1) * S <= B * S + (admitted'[j] - admitted'[i]) * R + (S - 1)
    BY <1>2, <1>3 DEF RateKept
  <2>1. CASE j = l + 1
    <3>1. PICK a \in Nat : a = admitted'[i]
      BY <1>7
    <3>2. (j - i + 1) * S <= (l + 1 - i + 1 + (filled - 1)) * S
      <4>1. j - i + 1 <= l + 1 - i + 1 + (filled - 1)
        BY <2>1
      <4> QED BY <4>1, ProductOrder
    <3>3. (r1 - a) * R <= (now - a) * R
      <4>1. r1 - a <= now - a /\ r1 - a \in Int /\ now - a \in Int
        BY <1>5
      <4> QED BY <4>1, ProductOrder
    <3>4. PICK p \in Int, q \in Int, w \in Int, x \in Int, y \in Int :
            /\ p = (j - i + 1) * S /\ q = (l + 1 - i + 1 + (filled - 1)) * S
            /\ w = B * S /\ x = (r1 - a) * R /\ y = (now - a) * R
      OBVIOUS
    <3>5. p <= q /\ q <= w + x + (S - 1) /\ x <= y
      BY <1>7, <3>1, <3>2, <3>3, <3>4
    <3>6. p <= w + y + (S - 1)
      BY <3>5
    <3>7. admitted'[j] = now
      BY <1>2, <2>1
    <3> QED BY <3>1, <3>4, <3>6, <3>7
  <2>2. CASE j # l + 1
    <3>1. i \in 1..l /\ j \in 1..l /\ admitted'[i] = s[i] /\ admitted'[j] = s[j]
      BY <1>2, <2>2
    <3> QED BY <1>1, <1>3, <3>1 DEF RateKept
  <2> QED BY <2>1, <2>2
<1>10. CreditedInTime'
  <2>1. admitted'[Len(admitted')] = now /\ refilled_at' <= now
    BY <1>2, <1>4, <1>5
  <2>2. refused' # Gate!Never /\ now <= refused' => refused' = now
    BY DEF BucketOK
  <2>3. (now - now) * Rate < Second
    BY GateConstants
  <2> QED BY <2>1, <2>2, <2>3 DEF CreditedInTime, Gate!Never
<1> QED BY <1>6, <1>8, <1>9, <1>10

LEMMA BucketRefuses ==
    ASSUME BucketInv, now \in Nat, tokens = 0, Gate!Refill = 0,
           refilled_at' = Gate!RefilledAt, tokens' = 0, refused' = now, UNCHANGED <<admitted, now>>
    PROVE  BucketInv'
<1> USE DEF BucketInv
<1>1. refilled_at' = refilled_at /\ (now - refilled_at) * Rate < Second
  BY Credit
<1>2. BucketOK' /\ Paid' /\ RateKept'
  BY <1>1 DEF BucketOK, Paid, RateKept
<1>3. ASSUME admitted # << >> PROVE (now - admitted[Len(admitted)]) * Rate < Second
  <2>1. PICK a \in Nat : a = admitted[Len(admitted)]
    BY <1>3 DEF BucketOK
  <2>2. PICK r \in Nat : r = refilled_at
    BY DEF BucketOK
  <2>3. now - a <= now - r /\ now - a \in Int /\ now - r \in Int
    BY <1>3, <2>1, <2>2 DEF CreditedInTime
  <2>4. (now - a) * Rate <= (now - r) * Rate
    BY <2>3, ProductOrder, GateConstants
  <2>5. PICK x \in Int, y \in Int : x = (now - a) * Rate /\ y = (now - r) * Rate
    BY GateConstants
  <2>6. x < Second
    BY <1>1, <2>2, <2>4, <2>5, GateConstants
  <2> QED BY <2>1, <2>5, <2>6
<1>4. CreditedInTime'
  BY <1>1, <1>3 DEF CreditedInTime
<1> QED BY <1>2, <1>4

LEMMA BucketKept ==
    ASSUME BucketInv, now \in Nat, now <= MaxTime, [Gate!Next]_(Gate!vars)
    PROVE  BucketInv'
<1>1. CASE UNCHANGED <<tokens, refilled_at, admitted, refused>> /\ now' \in {now, now + 1}
  <2>1. BucketOK'
    <3>1. \A i \in 1..Len(admitted) : admitted[i] \in Nat
      BY DEF BucketInv, BucketOK
    <3> QED BY <1>1, <3>1 DEF BucketInv, BucketOK, Gate!Never
  <2>2. Paid' /\ RateKept' /\ CreditedInTime'
    BY <1>1 DEF BucketInv, Paid, RateKept, CreditedInTime, Gate!Never
  <2> QED BY <2>1, <2>2 DEF BucketInv
<1>2. ASSUME NEW c \in Calls, Gate!AdmitToken(c) PROVE BucketInv'
  <2>1. PICK f : f = Gate!Minimum(tokens + Gate!Refill, Burst)
    OBVIOUS
  <2>2. tokens \in Nat /\ Gate!Refill \in Nat
    BY Credit DEF BucketInv, BucketOK
  <2>3. PICK n \in Nat, k \in Nat : n = Gate!Refill /\ k = tokens
    BY <2>2
  <2>4. f = IF k + n < Burst THEN k + n ELSE Burst
    BY <2>1, <2>3 DEF Gate!Minimum
  <2>5. f \in Nat /\ f <= k + n /\ f <= Burst /\ (f = 0 => k = 0 /\ n = 0)
    BY <2>4, GateConstants
  <2>6. /\ refilled_at' = Gate!RefilledAt /\ now' = now
        /\ \/ f = 0 /\ tokens' = 0 /\ refused' = now /\ UNCHANGED admitted
           \/ /\ f > 0 /\ tokens' = f - 1 /\ admitted' = Append(admitted, now)
              /\ UNCHANGED refused
    BY <1>2, <2>1 DEF Gate!AdmitToken
  <2>7. CASE f = 0
    BY <2>3, <2>5, <2>6, <2>7, BucketRefuses
  <2>8. CASE f > 0
    BY <2>3, <2>5, <2>6, <2>8, BucketAdmits
  <2> QED BY <2>6, <2>7, <2>8
<1>3. ASSUME NEW c \in Calls,
             \/ Gate!Send(c) \/ Gate!AcquirePermit(c) \/ Gate!Verify(c) \/ Gate!Consume(c)
             \/ Gate!ConsumeFails(c) \/ Gate!Handle(c) \/ Gate!CutOff(c)
      PROVE  UNCHANGED <<tokens, refilled_at, admitted, refused>> /\ now' = now
  BY <1>3 DEF Gate!Send, Gate!AcquirePermit, Gate!Verify, Gate!Consume, Gate!ConsumeFails,
    Gate!Handle, Gate!CutOff
<1>4. Gate!Tick \/ UNCHANGED Gate!vars =>
        UNCHANGED <<tokens, refilled_at, admitted, refused>> /\ now' \in {now, now + 1}
  BY DEF Gate!Tick, Gate!vars
<1> QED BY <1>1, <1>2, <1>3, <1>4 DEF Gate!Next

GateInv ==
    /\ now \in Nat /\ now <= MaxTime
    /\ CallsOK /\ PermitsHeld
    /\ NoncesOK /\ Remembered /\ FarApart
    /\ BucketInv

LEMMA GateInit == Gate!Init => GateInv
<1> SUFFICES ASSUME Gate!Init PROVE GateInv
  OBVIOUS
<1> USE DEF Gate!Init
<1>1. now \in Nat /\ now <= MaxTime
  BY GateConstants
<1>2. CallsOK
  BY DEF CallsOK, CallRecords, CallSteps
<1>3. PermitsHeld
  <2>1. Holders = {}
    BY DEF Holders, Inside
  <2> QED BY <2>1, GateConstants, FS_EmptySet DEF PermitsHeld
<1>4. NoncesOK /\ Remembered /\ FarApart
  BY DEF NoncesOK, Remembered, FarApart
<1>5. BucketInv
  BY BucketInit
<1> QED BY <1>1, <1>2, <1>3, <1>4, <1>5 DEF GateInv

LEMMA GateStep == GateInv /\ [Gate!Next]_(Gate!vars) => GateInv'
<1> SUFFICES ASSUME GateInv, [Gate!Next]_(Gate!vars) PROVE GateInv'
  OBVIOUS
<1>1. now' \in Nat /\ now' <= MaxTime
  <2>1. now' = now \/ (now < MaxTime /\ now' = now + 1)
    BY DEF Gate!Next, Gate!vars, Gate!Send, Gate!AdmitToken, Gate!AcquirePermit, Gate!Verify,
      Gate!Consume, Gate!ConsumeFails, Gate!Handle, Gate!CutOff, Gate!Tick
  <2> QED BY <2>1, GateConstants DEF GateInv
<1>2. CallsOK' /\ PermitsHeld'
  BY PermitsKept DEF GateInv
<1>3. NoncesOK' /\ Remembered' /\ FarApart'
  BY NoncesKept DEF GateInv
<1>4. BucketInv'
  BY BucketKept DEF GateInv
<1> QED BY <1>1, <1>2, <1>3, <1>4 DEF GateInv

GatePartInv == part = "admission" => GateInv

LEMMA GatePart == Spec => []GatePartInv
<1>1. Init => GatePartInv
  BY GateInit DEF Init, Chosen, GatePartInv
<1>2. GatePartInv /\ [Next]_v => GatePartInv'
  <2> SUFFICES ASSUME part = "admission" => GateInv, [Next]_v, part' = "admission"
               PROVE  GateInv'
    BY DEF GatePartInv
  <2>1. part = "admission" /\ [Gate!Next]_(Gate!vars)
    BY DEF Next, v, gate, Gate!vars, Reserve, Send, Serve, Probe, Decode, Decide, Admit,
      Publish
  <2> QED BY <2>1, GateStep
<1> QED BY <1>1, <1>2, PTL DEF Spec

(* Admission: a message that arrives as several calls is executed a second time, if at
   all, no sooner than the skew after its first execution was dated, however the calls
   interleave and whenever nonces are purged. *)
THEOREM ReplaysFarApart == Spec => []DuplicatesFarApart
<1>1. ASSUME GateInv PROVE Gate!DuplicatesFarApart
  <2>1. DOMAIN executed = 1..Len(executed)
    BY <1>1 DEF GateInv, NoncesOK
  <2> QED BY <1>1, <2>1 DEF GateInv, FarApart, Gate!DuplicatesFarApart
<1>2. GatePartInv => DuplicatesFarApart
  BY <1>1 DEF GatePartInv, DuplicatesFarApart
<1> QED BY <1>2, GatePart, PTL

(* Admission: for every rate, burst and clock the bucket admits no more calls between two
   moments than a burst and the rate allow, refuses nobody for longer than a token takes,
   and when nobody is in flight every permit is back, cut-off calls included. *)
THEOREM LimiterKeepsItsWord == Spec => []LimitsHold
<1>1. ASSUME GateInv PROVE Gate!BucketKeepsRate
  <2>1. DOMAIN admitted = 1..Len(admitted)
    BY <1>1 DEF GateInv, BucketInv, BucketOK
  <2> QED BY <1>1, <2>1 DEF GateInv, BucketInv, RateKept, CreditedInTime, Gate!BucketKeepsRate
<1>2. ASSUME GateInv, \A c \in Calls : ~Gate!InFlight(c) PROVE permits = MaxInFlight
  <2>1. Holders = {}
    BY <1>2 DEF Holders, Inside, Gate!InFlight
  <2> QED BY <1>2, <2>1, FS_EmptySet DEF GateInv, PermitsHeld
<1>3. GatePartInv => LimitsHold
  BY <1>1, <1>2 DEF GatePartInv, LimitsHold, Gate!LimitsHold, Gate!PermitsReturn
<1> QED BY <1>3, GatePart, PTL
=============================================================================
