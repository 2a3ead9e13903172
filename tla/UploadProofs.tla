----------------------------- MODULE UploadProofs -----------------------------
(***************************************************************************)
(* What Reservation and MultipartTransfer promise, for every value of      *)
(* their constants: the sessions, the caps and the lengths.                *)
(***************************************************************************)
EXTENDS Services, Sums

-----------------------------------------------------------------------------
(* Reservation *)

BytesOf == [id \in Ids |-> reserved[id].bytes]

LEMMA BytesAreSum ==
    ASSUME NEW S \in SUBSET Ids, IsFiniteSet(S), \A id \in S : reserved[id].bytes \in Nat
    PROVE  Reserving!Bytes(S) = Sum(BytesOf, S)
<1> DEFINE Q(it) == it = [s \in SUBSET S |-> IF s = {} THEN 0 ELSE
                            reserved[CHOOSE x \in s : TRUE].bytes + it[s \ {CHOOSE x \in s : TRUE}]]
<1>1. Reserving!Bytes(S) = (CHOOSE it : Q(it))[S]
  BY DEF Reserving!Bytes, Reserving!FoldSet, Reserving!MapThenFoldSet
<1>2. \A id \in S : BytesOf[id] \in Nat
  BY DEF BytesOf
<1>3. \A it : Q(it) <=> IsFold(it, BytesOf, S)
  BY DEF IsFold, BytesOf
<1>4. Q([s \in SUBSET S |-> Sum(BytesOf, s)])
  BY <1>2, <1>3, FoldExists
<1>5. Q(CHOOSE it : Q(it))
  <2> HIDE DEF Q
  <2> QED BY <1>4
<1>6. (CHOOSE it : Q(it))[S] = Sum(BytesOf, S)
  <2> HIDE DEF Q
  <2> QED BY <1>2, <1>3, <1>5, FoldIsSum
<1> QED BY <1>1, <1>6

-----------------------------------------------------------------------------
BatchSteps == {"idle", "preflight", "open", "cleanup"}

RowStates == {"none", "active", "kept", "deleted"}

BatchTypeOK ==
    /\ reserved \in [Ids -> [tenant : Tenants \cup {"none"}, bytes : Nat, state : RowStates]]
    /\ open \in SUBSET Ids
    /\ batch \in [BatchCalls -> [step : BatchSteps, tenant : Tenants \cup {"none"},
                                 files : Seq(Nat), ids : Seq(Ids)]]
    /\ drawn \in SUBSET Ids

(* No id is in two places of the calls in flight *)
IdsApart ==
    \A c, d \in BatchCalls :
      \A i \in 1..Len(batch[c].ids), j \in 1..Len(batch[d].ids) :
        batch[c].ids[i] = batch[d].ids[j] => c = d /\ i = j

(* The ids of a call in flight were drawn, and have no row yet *)
IdsFresh ==
    \A c \in BatchCalls : \A i \in 1..Len(batch[c].ids) :
      batch[c].ids[i] \in drawn /\ reserved[batch[c].ids[i]].state = "none"

RowsDrawn ==
    /\ open \subseteq drawn
    /\ \A id \in Ids :
         reserved[id].state # "none" => id \in drawn /\ reserved[id].tenant \in Tenants

(* A call has opened the sessions of the files it has come to *)
CallSound(c) ==
    /\ batch[c].step \in {"idle", "preflight"} => batch[c].ids = << >>
    /\ batch[c].step # "idle" => batch[c].tenant \in Tenants
    /\ batch[c].step = "open" =>
         /\ Len(batch[c].ids) <= Len(batch[c].files)
         /\ \A i \in 1..Len(batch[c].ids) :
              Reserving!Multipart(batch[c].files[i]) => batch[c].ids[i] \in open

SavedOpen ==
    \A id \in Ids :
      reserved[id].state = "active" /\ Reserving!Multipart(reserved[id].bytes) => id \in open

(* A session belongs to a saved upload or to a call in flight *)
HasOwner(id) ==
    \/ reserved[id].state = "active"
    \/ \E c \in BatchCalls : \E i \in 1..Len(batch[c].ids) : batch[c].ids[i] = id

SessionInv ==
    /\ BatchTypeOK /\ IdsApart /\ IdsFresh /\ RowsDrawn
    /\ \A c \in BatchCalls : CallSound(c)
    /\ SavedOpen
    /\ \A id \in open \ stranded : HasOwner(id)

LEMMA SessionInit == Reserving!Init => SessionInv
<1> SUFFICES ASSUME Reserving!Init PROVE SessionInv
  OBVIOUS
<1> USE DEF Reserving!Init, Reserving!NoRow, Reserving!Idle
<1>1. BatchTypeOK
  BY DEF BatchTypeOK, BatchSteps, RowStates
<1>2. IdsApart /\ IdsFresh /\ RowsDrawn /\ SavedOpen
  BY DEF IdsApart, IdsFresh, RowsDrawn, SavedOpen
<1>3. \A c \in BatchCalls : CallSound(c)
  BY DEF CallSound
<1> QED BY <1>1, <1>2, <1>3 DEF SessionInv

(* A call moves on and keeps what it has *)
LEMMA CallGoesTo ==
    ASSUME BatchTypeOK, NEW c \in BatchCalls, NEW to \in BatchSteps, Reserving!GoTo(c, to)
    PROVE  /\ batch' \in [BatchCalls -> [step : BatchSteps, tenant : Tenants \cup {"none"},
                                         files : Seq(Nat), ids : Seq(Ids)]]
           /\ batch'[c].step = to /\ batch'[c].tenant = batch[c].tenant
           /\ batch'[c].files = batch[c].files
           /\ \A d \in BatchCalls : batch'[d].ids = batch[d].ids /\ (d # c => batch'[d] = batch[d])
  BY DEF BatchTypeOK, Reserving!GoTo

LEMMA CallAnswers ==
    ASSUME BatchTypeOK, NEW c \in BatchCalls, Reserving!Answer(c)
    PROVE  /\ batch' \in [BatchCalls -> [step : BatchSteps, tenant : Tenants \cup {"none"},
                                         files : Seq(Nat), ids : Seq(Ids)]]
           /\ batch'[c].step = "idle" /\ batch'[c].ids = << >>
           /\ \A d \in BatchCalls : d # c => batch'[d] = batch[d]
  BY DEF BatchTypeOK, Reserving!Answer, Reserving!Idle, BatchSteps

(* A step of one call that keeps the ids of all calls, the rows and the sessions *)
LEMMA IdsKept ==
    ASSUME SessionInv, NEW c \in BatchCalls,
           batch' \in [BatchCalls -> [step : BatchSteps, tenant : Tenants \cup {"none"},
                                     files : Seq(Nat), ids : Seq(Ids)]],
           \A d \in BatchCalls : batch'[d].ids = batch[d].ids /\ (d # c => batch'[d] = batch[d]),
           drawn \subseteq drawn', drawn' \in SUBSET Ids, reserved' = reserved,
           open \subseteq open', open' \subseteq drawn', stranded \subseteq stranded',
           \A id \in open' \ stranded' : id \in open,
           CallSound(c)'
    PROVE  SessionInv'
<1> USE DEF SessionInv
<1>1. BatchTypeOK'
  BY DEF BatchTypeOK
<1>2. IdsApart' /\ IdsFresh'
  <2>1. IdsApart'
    <3> SUFFICES ASSUME NEW d \in BatchCalls, NEW e \in BatchCalls,
                        NEW i \in 1..Len(batch'[d].ids), NEW j \in 1..Len(batch'[e].ids),
                        batch'[d].ids[i] = batch'[e].ids[j]
                 PROVE  d = e /\ i = j
      BY DEF IdsApart
    <3>1. batch'[d].ids = batch[d].ids /\ batch'[e].ids = batch[e].ids
      OBVIOUS
    <3>2. /\ i \in 1..Len(batch[d].ids) /\ j \in 1..Len(batch[e].ids)
          /\ batch[d].ids[i] = batch[e].ids[j]
      BY <3>1
    <3>3. IdsApart
      OBVIOUS
    <3> QED BY ONLY <3>2, <3>3 DEF IdsApart
  <2>2. IdsFresh'
    <3> SUFFICES ASSUME NEW d \in BatchCalls, NEW i \in 1..Len(batch'[d].ids)
                 PROVE  batch'[d].ids[i] \in drawn' /\ reserved'[batch'[d].ids[i]].state = "none"
      BY DEF IdsFresh
    <3>1. batch'[d].ids = batch[d].ids
      OBVIOUS
    <3> QED BY <3>1 DEF IdsFresh
  <2> QED BY <2>1, <2>2
<1>3. RowsDrawn' /\ SavedOpen'
  BY DEF RowsDrawn, SavedOpen
<1>4. ASSUME NEW d \in BatchCalls PROVE CallSound(d)'
  <2>1. CASE d = c
    BY <2>1
  <2>2. CASE d # c
    BY <2>2 DEF CallSound
  <2> QED BY <2>1, <2>2
<1>5. ASSUME NEW id \in open' \ stranded' PROVE HasOwner(id)'
  <2>1. HasOwner(id)
    OBVIOUS
  <2>2. CASE reserved[id].state = "active"
    BY <2>2 DEF HasOwner
  <2>3. CASE \E d \in BatchCalls : \E i \in 1..Len(batch[d].ids) : batch[d].ids[i] = id
    <3>0. PICK d \in BatchCalls : \E i \in 1..Len(batch[d].ids) : batch[d].ids[i] = id
      BY <2>3
    <3>1. PICK i \in 1..Len(batch[d].ids) : batch[d].ids[i] = id
      BY <3>0
    <3>2. batch'[d].ids = batch[d].ids
      OBVIOUS
    <3> QED BY <3>1, <3>2 DEF HasOwner
  <2> QED BY <2>1, <2>2, <2>3 DEF HasOwner
<1> QED BY <1>1, <1>2, <1>3, <1>4, <1>5

(* A step that ends a call and leaves no session of it behind *)
LEMMA CallEnds ==
    ASSUME SessionInv, NEW c \in BatchCalls, Reserving!Answer(c),
           UNCHANGED <<reserved, open, drawn>>, stranded \subseteq stranded',
           \A i \in 1..Len(batch[c].ids) : batch[c].ids[i] \in open => batch[c].ids[i] \in stranded'
    PROVE  SessionInv'
<1> USE DEF SessionInv
<1>0. /\ batch' \in [BatchCalls -> [step : BatchSteps, tenant : Tenants \cup {"none"},
                                    files : Seq(Nat), ids : Seq(Ids)]]
      /\ batch'[c].step = "idle" /\ batch'[c].ids = << >>
      /\ \A d \in BatchCalls : d # c => batch'[d] = batch[d]
  BY CallAnswers
<1>1. BatchTypeOK'
  BY <1>0 DEF BatchTypeOK
<1>2. \A d \in BatchCalls : \A i \in 1..Len(batch'[d].ids) : d # c
  BY <1>0
<1>3. IdsApart' /\ IdsFresh'
  <2>1. IdsApart'
    <3> SUFFICES ASSUME NEW d \in BatchCalls, NEW e \in BatchCalls,
                        NEW i \in 1..Len(batch'[d].ids), NEW j \in 1..Len(batch'[e].ids),
                        batch'[d].ids[i] = batch'[e].ids[j]
                 PROVE  d = e /\ i = j
      BY DEF IdsApart
    <3>1. batch'[d] = batch[d] /\ batch'[e] = batch[e]
      BY <1>0, <1>2
    <3> QED BY <3>1 DEF IdsApart
  <2>2. IdsFresh'
    <3> SUFFICES ASSUME NEW d \in BatchCalls, NEW i \in 1..Len(batch'[d].ids)
                 PROVE  batch'[d].ids[i] \in drawn' /\ reserved'[batch'[d].ids[i]].state = "none"
      BY DEF IdsFresh
    <3>1. batch'[d] = batch[d]
      BY <1>0, <1>2
    <3> QED BY <3>1 DEF IdsFresh
  <2> QED BY <2>1, <2>2
<1>4. RowsDrawn' /\ SavedOpen'
  BY DEF RowsDrawn, SavedOpen
<1>5. \A d \in BatchCalls : CallSound(d)'
  BY <1>0 DEF CallSound
<1>6. ASSUME NEW id \in open' \ stranded' PROVE HasOwner(id)'
  <2>1. HasOwner(id)
    OBVIOUS
  <2>2. CASE reserved[id].state = "active"
    BY <2>2 DEF HasOwner
  <2>3. CASE \E d \in BatchCalls : \E i \in 1..Len(batch[d].ids) : batch[d].ids[i] = id
    <3>0. PICK d \in BatchCalls : \E i \in 1..Len(batch[d].ids) : batch[d].ids[i] = id
      BY <2>3
    <3>1. PICK i \in 1..Len(batch[d].ids) : batch[d].ids[i] = id
      BY <3>0
    <3>2. batch'[d].ids = batch[d].ids
      BY <1>0, <3>1
    <3> QED BY <3>1, <3>2 DEF HasOwner
  <2> QED BY <2>1, <2>2, <2>3 DEF HasOwner
<1> QED BY <1>1, <1>3, <1>4, <1>5, <1>6

(* A step of a row that leaves the active state, or was not in it *)
LEMMA RowMoves ==
    ASSUME SessionInv, NEW id \in Ids, reserved[id].state # "none",
           reserved' \in [Ids -> [tenant : Tenants \cup {"none"}, bytes : Nat, state : RowStates]],
           \A x \in Ids : x # id => reserved'[x] = reserved[x],
           reserved'[id].state # "active",
           reserved'[id].state # "none" => reserved'[id].tenant = reserved[id].tenant,
           open' \subseteq open, \A x \in open : x # id => x \in open',
           id \in open' => reserved[id].state # "active",
           UNCHANGED <<batch, drawn, stranded>>
    PROVE  SessionInv'
<1> USE DEF SessionInv
<1>1. BatchTypeOK'
  BY DEF BatchTypeOK
<1>2. ASSUME NEW c \in BatchCalls, NEW i \in 1..Len(batch[c].ids)
      PROVE  batch[c].ids[i] # id /\ batch[c].ids[i] \in Ids
  BY DEF IdsFresh, BatchTypeOK
<1>3. IdsApart'
  BY DEF IdsApart
<1>4. IdsFresh'
  BY <1>2 DEF IdsFresh
<1>5. RowsDrawn' /\ SavedOpen'
  BY DEF RowsDrawn, SavedOpen
<1>6. ASSUME NEW c \in BatchCalls PROVE CallSound(c)'
  <2>1. CallSound(c)
    OBVIOUS
  <2> QED BY <1>2, <2>1 DEF CallSound
<1>7. ASSUME NEW x \in open' \ stranded' PROVE HasOwner(x)'
  <2>1. HasOwner(x)
    OBVIOUS
  <2>2. x \in Ids
    BY DEF BatchTypeOK
  <2> QED BY <2>1, <2>2 DEF HasOwner
<1> QED BY <1>1, <1>3, <1>4, <1>5, <1>6, <1>7

LEMMA CallIds ==
    ASSUME BatchTypeOK, NEW c \in BatchCalls, NEW list \in Seq(Ids),
           batch' = [batch EXCEPT ![c].ids = list]
    PROVE  /\ batch' \in [BatchCalls -> [step : BatchSteps, tenant : Tenants \cup {"none"},
                                         files : Seq(Nat), ids : Seq(Ids)]]
           /\ batch'[c].ids = list
           /\ batch'[c].step = batch[c].step /\ batch'[c].tenant = batch[c].tenant
           /\ batch'[c].files = batch[c].files
           /\ \A d \in BatchCalls : d # c => batch'[d] = batch[d]
  BY DEF BatchTypeOK

(* One more session, for an id that was never drawn *)
LEMMA OpenKeeps ==
    ASSUME SessionInv, NEW c \in BatchCalls, NEW id \in Ids, Reserving!OpenFile(c, id)
    PROVE  SessionInv'
<1> USE DEF SessionInv
<1> DEFINE n == Len(batch[c].ids)
<1>0. /\ batch[c].step = "open" /\ n < Len(batch[c].files) /\ id \notin drawn
      /\ drawn' = drawn \cup {id} /\ UNCHANGED <<reserved, stranded>>
      /\ open' = IF Reserving!Multipart(batch[c].files[n + 1]) THEN open \cup {id} ELSE open
      /\ batch' = [batch EXCEPT ![c].ids = Append(batch[c].ids, id)]
  BY DEF Reserving!OpenFile, Reserving!Opening, Reserving!NextFile
<1>t. batch[c].ids \in Seq(Ids) /\ batch[c].files \in Seq(Nat) /\ n \in Nat
  BY DEF BatchTypeOK
<1>1. /\ batch' \in [BatchCalls -> [step : BatchSteps, tenant : Tenants \cup {"none"},
                                    files : Seq(Nat), ids : Seq(Ids)]]
      /\ batch'[c].ids = Append(batch[c].ids, id)
      /\ batch'[c].step = "open" /\ batch'[c].tenant = batch[c].tenant
      /\ batch'[c].files = batch[c].files
      /\ \A d \in BatchCalls : d # c => batch'[d] = batch[d]
  <2>1. Append(batch[c].ids, id) \in Seq(Ids)
    BY <1>t
  <2> QED BY <1>0, <2>1, CallIds
<1>2. /\ Len(batch'[c].ids) = n + 1
      /\ \A i \in 1..n : batch'[c].ids[i] = batch[c].ids[i]
      /\ batch'[c].ids[n + 1] = id
  BY <1>1, <1>t
<1>3. ASSUME NEW d \in BatchCalls, NEW i \in 1..Len(batch'[d].ids)
      PROVE  \/ i \in 1..Len(batch[d].ids) /\ batch'[d].ids[i] = batch[d].ids[i]
             \/ d = c /\ i = n + 1 /\ batch'[d].ids[i] = id
  <2>1. CASE d = c
    <3>1. i \in 1..(n + 1)
      BY <1>2, <2>1
    <3>2. i \in 1..n \/ i = n + 1
      BY <1>t, <3>1
    <3> QED BY <1>2, <2>1, <3>2
  <2>2. CASE d # c
    BY <1>1, <2>2
  <2> QED BY <2>1, <2>2
<1>4. ASSUME NEW d \in BatchCalls, NEW i \in 1..Len(batch[d].ids)
      PROVE  /\ batch[d].ids[i] \in drawn /\ batch[d].ids[i] # id
             /\ reserved[batch[d].ids[i]].state = "none"
             /\ i \in 1..Len(batch'[d].ids) /\ batch'[d].ids[i] = batch[d].ids[i]
  <2>1. batch[d].ids[i] \in drawn /\ reserved[batch[d].ids[i]].state = "none"
    BY DEF IdsFresh
  <2>2. i \in 1..Len(batch'[d].ids) /\ batch'[d].ids[i] = batch[d].ids[i]
    <3>1. CASE d = c
      BY <1>2, <1>t, <3>1
    <3>2. CASE d # c
      BY <1>1, <3>2
    <3> QED BY <3>1, <3>2
  <2> QED BY <1>0, <2>1, <2>2
<1>5. BatchTypeOK'
  <2>1. open' \in SUBSET Ids /\ drawn' \in SUBSET Ids /\ reserved' = reserved
    BY <1>0 DEF BatchTypeOK
  <2> QED BY <1>1, <2>1 DEF BatchTypeOK
<1>6. IdsApart'
  <2> SUFFICES ASSUME NEW d \in BatchCalls, NEW e \in BatchCalls,
                      NEW i \in 1..Len(batch'[d].ids), NEW j \in 1..Len(batch'[e].ids),
                      batch'[d].ids[i] = batch'[e].ids[j]
               PROVE  d = e /\ i = j
    BY DEF IdsApart
  <2>1. \/ i \in 1..Len(batch[d].ids) /\ batch'[d].ids[i] = batch[d].ids[i]
        \/ d = c /\ i = n + 1 /\ batch'[d].ids[i] = id
    BY <1>3
  <2>2. \/ j \in 1..Len(batch[e].ids) /\ batch'[e].ids[j] = batch[e].ids[j]
        \/ e = c /\ j = n + 1 /\ batch'[e].ids[j] = id
    BY <1>3
  <2>3. i \in 1..Len(batch[d].ids) => batch[d].ids[i] # id
    BY <1>4
  <2>4. j \in 1..Len(batch[e].ids) => batch[e].ids[j] # id
    BY <1>4
  <2>5. IdsApart
    OBVIOUS
  <2>6. CASE i \in 1..Len(batch[d].ids) /\ j \in 1..Len(batch[e].ids)
              /\ batch[d].ids[i] = batch[e].ids[j]
    BY ONLY <2>5, <2>6 DEF IdsApart
  <2> QED BY <2>1, <2>2, <2>3, <2>4, <2>6
<1>7. IdsFresh'
  <2> SUFFICES ASSUME NEW d \in BatchCalls, NEW i \in 1..Len(batch'[d].ids)
               PROVE  batch'[d].ids[i] \in drawn' /\ reserved'[batch'[d].ids[i]].state = "none"
    BY DEF IdsFresh
  <2>1. reserved[id].state = "none"
    BY <1>0 DEF RowsDrawn
  <2> QED BY <1>0, <1>3, <1>4, <2>1
<1>8. RowsDrawn' /\ SavedOpen'
  BY <1>0 DEF RowsDrawn, SavedOpen
<1>9. ASSUME NEW d \in BatchCalls PROVE CallSound(d)'
  <2>1. CallSound(d)
    OBVIOUS
  <2>2. CASE d # c
    <3>1. batch'[d] = batch[d]
      BY <1>1, <2>2
    <3>2. open \subseteq open'
      BY <1>0
    <3> QED BY <2>1, <3>1, <3>2 DEF CallSound
  <2>3. CASE d = c
    <3>1. Len(batch'[c].ids) <= Len(batch'[c].files)
      BY <1>0, <1>1, <1>2, <1>t
    <3>2. ASSUME NEW i \in 1..Len(batch'[c].ids), Reserving!Multipart(batch'[c].files[i])
          PROVE  batch'[c].ids[i] \in open'
      <4>1. CASE i \in 1..n
        BY <1>0, <1>1, <1>2, <2>1, <2>3, <3>2, <4>1 DEF CallSound
      <4>2. CASE i = n + 1
        BY <1>0, <1>1, <1>2, <3>2, <4>2
      <4> QED BY <1>2, <1>t, <4>1, <4>2
    <3>3. batch'[c].tenant \in Tenants
      BY <1>0, <1>1, <2>1, <2>3 DEF CallSound
    <3> QED BY <1>1, <2>3, <3>1, <3>2, <3>3 DEF CallSound
  <2> QED BY <2>2, <2>3
<1>10. ASSUME NEW x \in open' \ stranded' PROVE HasOwner(x)'
  <2>1. CASE x \in open
    <3>1. HasOwner(x)
      BY <1>0, <2>1
    <3>2. CASE reserved[x].state = "active"
      BY <1>0, <3>2 DEF HasOwner
    <3>3. CASE \E d \in BatchCalls : \E i \in 1..Len(batch[d].ids) : batch[d].ids[i] = x
      <4>0. PICK d \in BatchCalls : \E i \in 1..Len(batch[d].ids) : batch[d].ids[i] = x
        BY <3>3
      <4>1. PICK i \in 1..Len(batch[d].ids) : batch[d].ids[i] = x
        BY <4>0
      <4>2. i \in 1..Len(batch'[d].ids) /\ batch'[d].ids[i] = x
        BY <1>4, <4>1
      <4> QED BY <4>2 DEF HasOwner
    <3> QED BY <3>1, <3>2, <3>3 DEF HasOwner
  <2>2. CASE x = id
    <3>1. n + 1 \in 1..Len(batch'[c].ids) /\ batch'[c].ids[n + 1] = x
      BY <1>2, <1>t, <2>2
    <3> QED BY <3>1 DEF HasOwner
  <2> QED BY <1>0, <2>1, <2>2
<1> QED BY <1>5, <1>6, <1>7, <1>8, <1>9, <1>10

(* The clean-up of a call aborts only sessions of that call *)
LEMMA AbortKeeps ==
    ASSUME SessionInv, NEW c \in BatchCalls, Reserving!AbortNext(c)
    PROVE  SessionInv'
<1> USE DEF SessionInv
<1> DEFINE n == Len(batch[c].ids)
           first == Head(batch[c].ids)
<1>0. /\ batch[c].step = "cleanup" /\ batch[c].ids # << >>
      /\ \/ open' = open \ {first} /\ stranded' = stranded
         \/ first \in open /\ stranded' = stranded \cup {first} /\ open' = open
      /\ batch' = [batch EXCEPT ![c].ids = Tail(batch[c].ids)]
      /\ UNCHANGED <<reserved, drawn>>
  BY DEF Reserving!AbortNext
<1>t. /\ batch[c].ids \in Seq(Ids) /\ n \in Nat /\ n > 0 /\ first = batch[c].ids[1]
      /\ Tail(batch[c].ids) \in Seq(Ids)
      /\ Len(Tail(batch[c].ids)) = n - 1
      /\ \A i \in 1..(n - 1) : Tail(batch[c].ids)[i] = batch[c].ids[i + 1]
  BY <1>0 DEF BatchTypeOK
<1>1. /\ batch' \in [BatchCalls -> [step : BatchSteps, tenant : Tenants \cup {"none"},
                                    files : Seq(Nat), ids : Seq(Ids)]]
      /\ batch'[c].ids = Tail(batch[c].ids)
      /\ batch'[c].step = "cleanup" /\ batch'[c].tenant = batch[c].tenant
      /\ batch'[c].files = batch[c].files
      /\ \A d \in BatchCalls : d # c => batch'[d] = batch[d]
  BY <1>0, <1>t, CallIds
<1>2. /\ Len(batch'[c].ids) = n - 1
      /\ \A i \in 1..(n - 1) : batch'[c].ids[i] = batch[c].ids[i + 1] /\ i + 1 \in 1..n
  BY <1>1, <1>t
<1>3. ASSUME NEW d \in BatchCalls, NEW i \in 1..Len(batch'[d].ids)
      PROVE  /\ d = c => i + 1 \in 1..Len(batch[d].ids) /\ batch'[d].ids[i] = batch[d].ids[i + 1]
             /\ d # c => i \in 1..Len(batch[d].ids) /\ batch'[d].ids[i] = batch[d].ids[i]
             /\ i \in Int
  <2>1. CASE d = c
    <3>1. i \in 1..(n - 1)
      BY <1>2, <2>1
    <3> QED BY <1>2, <2>1, <3>1
  <2>2. CASE d # c
    <3>1. batch'[d] = batch[d] /\ Len(batch[d].ids) \in Nat
      BY <1>1, <2>2 DEF BatchTypeOK
    <3> QED BY <2>2, <3>1
  <2> QED BY <2>1, <2>2
<1>f. 1 \in 1..n /\ batch[c].ids[1] = first
  BY <1>t
<1>4. ASSUME NEW d \in BatchCalls, NEW i \in 1..Len(batch[d].ids), batch[d].ids[i] = first
      PROVE  d = c /\ i = 1
  <2>1. IdsApart /\ batch[d].ids[i] = batch[c].ids[1] /\ 1 \in 1..Len(batch[c].ids)
    BY <1>f, <1>4
  <2> QED BY ONLY <2>1 DEF IdsApart
<1>5. BatchTypeOK'
  <2>1. open' \in SUBSET Ids
    BY <1>0 DEF BatchTypeOK
  <2> QED BY <1>0, <1>1, <2>1 DEF BatchTypeOK
<1>6. IdsApart'
  <2> SUFFICES ASSUME NEW d \in BatchCalls, NEW e \in BatchCalls,
                      NEW i \in 1..Len(batch'[d].ids), NEW j \in 1..Len(batch'[e].ids),
                      batch'[d].ids[i] = batch'[e].ids[j]
               PROVE  d = e /\ i = j
    BY DEF IdsApart
  <2>1. PICK k \in 1..Len(batch[d].ids) :
          batch'[d].ids[i] = batch[d].ids[k] /\ (d = c => k = i + 1) /\ (d # c => k = i)
    BY <1>3
  <2>2. PICK m \in 1..Len(batch[e].ids) :
          batch'[e].ids[j] = batch[e].ids[m] /\ (e = c => m = j + 1) /\ (e # c => m = j)
    BY <1>3
  <2>3. IdsApart /\ batch[d].ids[k] = batch[e].ids[m]
    BY <2>1, <2>2
  <2>4. d = e /\ k = m
    BY ONLY <2>3 DEF IdsApart
  <2>5. i \in Int /\ j \in Int
    BY <1>3
  <2> QED BY <2>1, <2>2, <2>4, <2>5
<1>7. IdsFresh'
  <2> SUFFICES ASSUME NEW d \in BatchCalls, NEW i \in 1..Len(batch'[d].ids)
               PROVE  batch'[d].ids[i] \in drawn' /\ reserved'[batch'[d].ids[i]].state = "none"
    BY DEF IdsFresh
  <2>1. PICK k \in 1..Len(batch[d].ids) : batch'[d].ids[i] = batch[d].ids[k]
    BY <1>3
  <2>2. batch[d].ids[k] \in drawn /\ reserved[batch[d].ids[k]].state = "none"
    BY DEF IdsFresh
  <2> QED BY <1>0, <2>1, <2>2
<1>8. reserved[first].state = "none"
  BY <1>f DEF IdsFresh
<1>9. RowsDrawn' /\ SavedOpen'
  BY <1>0, <1>8 DEF RowsDrawn, SavedOpen
<1>10. ASSUME NEW d \in BatchCalls PROVE CallSound(d)'
  <2>1. CallSound(d) /\ CallSound(c)
    OBVIOUS
  <2>2. CASE d # c
    <3>1. batch'[d] = batch[d]
      BY <1>1, <2>2
    <3>2. ASSUME NEW i \in 1..Len(batch[d].ids), batch[d].ids[i] \in open
          PROVE  batch[d].ids[i] \in open'
      <4>1. batch[d].ids[i] # first
        BY <1>4, <2>2
      <4> QED BY <1>0, <3>2, <4>1
    <3> QED BY <2>1, <3>1, <3>2 DEF CallSound
  <2>3. CASE d = c
    BY <1>0, <1>1, <2>1, <2>3 DEF CallSound
  <2> QED BY <2>2, <2>3
<1>11. ASSUME NEW x \in open' \ stranded' PROVE HasOwner(x)'
  <2>1. HasOwner(x) /\ x # first
    BY <1>0
  <2>2. CASE reserved[x].state = "active"
    BY <1>0, <2>2 DEF HasOwner
  <2>3. CASE \E d \in BatchCalls : \E i \in 1..Len(batch[d].ids) : batch[d].ids[i] = x
    <3>0. PICK d \in BatchCalls : \E i \in 1..Len(batch[d].ids) : batch[d].ids[i] = x
      BY <2>3
    <3>1. PICK i \in 1..Len(batch[d].ids) : batch[d].ids[i] = x
      BY <3>0
    <3>2. CASE d # c
      BY <1>1, <3>1, <3>2 DEF HasOwner
    <3>3. CASE d = c
      <4>1. i \in 1..n /\ i # 1
        BY <1>f, <2>1, <3>1, <3>3
      <4>2. i - 1 \in 1..(n - 1) /\ (i - 1) + 1 = i
        BY <1>t, <4>1
      <4>3. i - 1 \in 1..Len(batch'[c].ids) /\ batch'[c].ids[i - 1] = x
        BY <1>2, <3>1, <3>3, <4>2
      <4> QED BY <4>3 DEF HasOwner
    <3> QED BY <3>2, <3>3
  <2> QED BY <2>1, <2>2, <2>3 DEF HasOwner
<1> QED BY <1>5, <1>6, <1>7, <1>9, <1>10, <1>11

(* The rows a batch inserts: one for each of its ids, with the length of its file *)
LEMMA InsertedRows ==
    ASSUME SessionInv, NEW c \in BatchCalls, Reserving!Saving(c), Reserving!InsertBatch(c)
    PROVE  /\ reserved' \in [Ids -> [tenant : Tenants \cup {"none"}, bytes : Nat, state : RowStates]]
           /\ batch[c].ids \in Seq(Ids) /\ batch[c].files \in Seq(Nat)
           /\ Len(batch[c].ids) = Len(batch[c].files) /\ batch[c].step = "open"
           /\ batch[c].tenant \in Tenants
           /\ \A i \in 1..Len(batch[c].ids) :
                reserved'[batch[c].ids[i]] = [tenant |-> batch[c].tenant,
                                              bytes |-> batch[c].files[i], state |-> "active"]
           /\ \A x \in Ids : \/ reserved'[x] = reserved[x]
                            \/ \E i \in 1..Len(batch[c].ids) : x = batch[c].ids[i]
<1> USE DEF SessionInv
<1>1. /\ batch[c].ids \in Seq(Ids) /\ batch[c].files \in Seq(Nat)
      /\ Len(batch[c].ids) = Len(batch[c].files) /\ batch[c].step = "open"
      /\ DOMAIN batch[c].ids = 1..Len(batch[c].ids)
  BY DEF BatchTypeOK, Reserving!Saving
<1>2. batch[c].tenant \in Tenants
  BY <1>1 DEF CallSound
<1>3. reserved' = [id \in Ids |->
                 IF \E i \in DOMAIN batch[c].ids : batch[c].ids[i] = id
                 THEN LET i == CHOOSE j \in DOMAIN batch[c].ids : batch[c].ids[j] = id
                      IN [tenant |-> batch[c].tenant, bytes |-> batch[c].files[i], state |-> "active"]
                 ELSE reserved[id]]
  BY DEF Reserving!InsertBatch
<1>4. ASSUME NEW i \in 1..Len(batch[c].ids)
      PROVE  /\ batch[c].ids[i] \in Ids
             /\ (CHOOSE j \in DOMAIN batch[c].ids : batch[c].ids[j] = batch[c].ids[i]) = i
  <2>1. \A j \in 1..Len(batch[c].ids) : batch[c].ids[j] = batch[c].ids[i] => j = i
    BY DEF IdsApart
  <2> QED BY <1>1, <2>1
<1>5. ASSUME NEW i \in 1..Len(batch[c].ids)
      PROVE  reserved'[batch[c].ids[i]] = [tenant |-> batch[c].tenant,
                                           bytes |-> batch[c].files[i], state |-> "active"]
  BY <1>1, <1>3, <1>4
<1>6. ASSUME NEW x \in Ids
      PROVE  \/ reserved'[x] = reserved[x]
             \/ \E i \in 1..Len(batch[c].ids) : x = batch[c].ids[i]
  BY <1>1, <1>3
<1>7. ASSUME NEW x \in Ids
      PROVE  reserved'[x] \in [tenant : Tenants \cup {"none"}, bytes : Nat, state : RowStates]
  <2>1. CASE reserved'[x] = reserved[x]
    BY <2>1 DEF BatchTypeOK
  <2>2. CASE \E i \in 1..Len(batch[c].ids) : x = batch[c].ids[i]
    <3>1. PICK i \in 1..Len(batch[c].ids) : x = batch[c].ids[i]
      BY <2>2
    <3>2. batch[c].files[i] \in Nat
      BY <1>1
    <3>3. reserved'[x] = [tenant |-> batch[c].tenant, bytes |-> batch[c].files[i], state |-> "active"]
      BY <1>5, <3>1
    <3>4. batch[c].tenant \in Tenants \cup {"none"} /\ "active" \in RowStates
      BY <1>2 DEF RowStates
    <3> QED BY ONLY <3>2, <3>3, <3>4
  <2> QED BY <1>6, <2>1, <2>2
<1>8. DOMAIN reserved' = Ids /\ reserved' = [x \in Ids |-> reserved'[x]]
  BY <1>3
<1>9. reserved' \in [Ids -> [tenant : Tenants \cup {"none"}, bytes : Nat, state : RowStates]]
  BY <1>7, <1>8
<1> QED BY <1>1, <1>2, <1>5, <1>6, <1>9

LEMMA InsertKeeps ==
    ASSUME SessionInv, NEW c \in BatchCalls, Reserving!Saving(c), Reserving!InsertBatch(c),
           UNCHANGED <<open, drawn, stranded>>
    PROVE  SessionInv'
<1> USE DEF SessionInv
<1>0. /\ reserved' \in [Ids -> [tenant : Tenants \cup {"none"}, bytes : Nat, state : RowStates]]
      /\ batch[c].ids \in Seq(Ids) /\ batch[c].files \in Seq(Nat)
      /\ Len(batch[c].ids) = Len(batch[c].files) /\ batch[c].step = "open"
      /\ batch[c].tenant \in Tenants
      /\ \A i \in 1..Len(batch[c].ids) :
           reserved'[batch[c].ids[i]] = [tenant |-> batch[c].tenant,
                                         bytes |-> batch[c].files[i], state |-> "active"]
      /\ \A x \in Ids : \/ reserved'[x] = reserved[x]
                       \/ \E i \in 1..Len(batch[c].ids) : x = batch[c].ids[i]
  BY InsertedRows
<1>1. /\ batch' \in [BatchCalls -> [step : BatchSteps, tenant : Tenants \cup {"none"},
                                    files : Seq(Nat), ids : Seq(Ids)]]
      /\ batch'[c].step = "idle" /\ batch'[c].ids = << >>
      /\ \A d \in BatchCalls : d # c => batch'[d] = batch[d]
  BY CallAnswers DEF Reserving!InsertBatch
<1>2. ASSUME NEW d \in BatchCalls, NEW i \in 1..Len(batch'[d].ids)
      PROVE  d # c /\ batch'[d] = batch[d]
  BY <1>1
<1>3. ASSUME NEW d \in BatchCalls, d # c, NEW i \in 1..Len(batch[d].ids)
      PROVE  /\ batch[d].ids[i] \in Ids
             /\ reserved'[batch[d].ids[i]] = reserved[batch[d].ids[i]]
  <2>1. \A j \in 1..Len(batch[c].ids) : batch[d].ids[i] # batch[c].ids[j]
    <3>1. IdsApart
      OBVIOUS
    <3> QED BY ONLY <1>3, <3>1 DEF IdsApart
  <2>2. batch[d].ids[i] \in Ids
    BY DEF BatchTypeOK
  <2> QED BY <1>0, <2>1, <2>2
<1>4. BatchTypeOK'
  BY <1>0, <1>1 DEF BatchTypeOK
<1>5. IdsApart'
  <2> SUFFICES ASSUME NEW d \in BatchCalls, NEW e \in BatchCalls,
                      NEW i \in 1..Len(batch'[d].ids), NEW j \in 1..Len(batch'[e].ids),
                      batch'[d].ids[i] = batch'[e].ids[j]
               PROVE  d = e /\ i = j
    BY DEF IdsApart
  <2>1. IdsApart /\ batch'[d] = batch[d] /\ batch'[e] = batch[e]
    BY <1>2
  <2> QED BY <2>1 DEF IdsApart
<1>6. IdsFresh'
  <2> SUFFICES ASSUME NEW d \in BatchCalls, NEW i \in 1..Len(batch'[d].ids)
               PROVE  batch'[d].ids[i] \in drawn' /\ reserved'[batch'[d].ids[i]].state = "none"
    BY DEF IdsFresh
  <2>1. d # c /\ batch'[d] = batch[d]
    BY <1>2
  <2>2. batch[d].ids[i] \in drawn /\ reserved[batch[d].ids[i]].state = "none"
    BY <2>1 DEF IdsFresh
  <2> QED BY <1>3, <2>1, <2>2
<1>7. ASSUME NEW i \in 1..Len(batch[c].ids)
      PROVE  /\ batch[c].ids[i] \in drawn
             /\ Reserving!Multipart(batch[c].files[i]) => batch[c].ids[i] \in open
             /\ reserved'[batch[c].ids[i]].state = "active"
             /\ reserved'[batch[c].ids[i]].tenant \in Tenants
             /\ reserved'[batch[c].ids[i]].bytes = batch[c].files[i]
  <2>1. CallSound(c)
    OBVIOUS
  <2>2. batch[c].ids[i] \in drawn
    BY DEF IdsFresh
  <2>3. Reserving!Multipart(batch[c].files[i]) => batch[c].ids[i] \in open
    BY <1>0, <2>1 DEF CallSound
  <2>4. reserved'[batch[c].ids[i]] = [tenant |-> batch[c].tenant,
                                      bytes |-> batch[c].files[i], state |-> "active"]
    BY <1>0
  <2> QED BY <1>0, <2>2, <2>3, <2>4
<1>8. RowsDrawn'
  <2>1. open' \subseteq drawn'
    BY DEF RowsDrawn
  <2>2. ASSUME NEW x \in Ids, reserved'[x].state # "none"
        PROVE  x \in drawn' /\ reserved'[x].tenant \in Tenants
    <3>1. CASE reserved'[x] = reserved[x]
      BY <2>2, <3>1 DEF RowsDrawn
    <3>2. CASE \E i \in 1..Len(batch[c].ids) : x = batch[c].ids[i]
      <4>1. PICK i \in 1..Len(batch[c].ids) : x = batch[c].ids[i]
        BY <3>2
      <4> QED BY <1>7, <4>1
    <3> QED BY <1>0, <3>1, <3>2
  <2> QED BY <2>1, <2>2 DEF RowsDrawn
<1>9. SavedOpen'
  BY <1>0, <1>7 DEF SavedOpen
<1>10. ASSUME NEW d \in BatchCalls PROVE CallSound(d)'
  <2>1. CallSound(d)
    OBVIOUS
  <2> QED BY <1>1, <2>1 DEF CallSound
<1>11. ASSUME NEW x \in open' \ stranded' PROVE HasOwner(x)'
  <2>1. HasOwner(x) /\ x \in Ids
    BY DEF BatchTypeOK
  <2>2. CASE reserved[x].state = "active"
    BY <1>0, <1>7, <2>1, <2>2 DEF HasOwner
  <2>3. CASE \E d \in BatchCalls : \E i \in 1..Len(batch[d].ids) : batch[d].ids[i] = x
    <3>0. PICK d \in BatchCalls : \E i \in 1..Len(batch[d].ids) : batch[d].ids[i] = x
      BY <2>3
    <3>1. PICK i \in 1..Len(batch[d].ids) : batch[d].ids[i] = x
      BY <3>0
    <3>2. CASE d # c
      BY <1>1, <3>1, <3>2 DEF HasOwner
    <3>3. CASE d = c
      BY <1>7, <3>1, <3>3 DEF HasOwner
    <3> QED BY <3>2, <3>3
  <2> QED BY <2>1, <2>2, <2>3 DEF HasOwner
<1> QED BY <1>4, <1>5, <1>6, <1>8, <1>9, <1>10, <1>11

LEMMA RequestFiles == ASSUME NEW files \in Reserving!Requests PROVE files \in Seq(Nat)
<1>1. Lengths \subseteq Nat /\ BatchLength \in Nat
  BY ServicesAssumption DEF Reserving!CapacityAssumption
<1>2. PICK n \in 1..BatchLength : files \in [1..n -> Lengths]
  BY DEF Reserving!Requests
<1>3. n \in Nat
  BY <1>1
<1>4. files \in [1..n -> Nat]
  BY <1>1, <1>2
<1> QED BY <1>3, <1>4

LEMMA SessionStep == SessionInv /\ [Reserving!Next]_(Reserving!vars) => SessionInv'
<1> SUFFICES ASSUME SessionInv, [Reserving!Next]_(Reserving!vars) PROVE SessionInv'
  OBVIOUS
<1> USE DEF SessionInv
<1>s. {"preflight", "open", "cleanup"} \subseteq BatchSteps
  BY DEF BatchSteps
<1>t. BatchTypeOK
  OBVIOUS
<1>d. open \subseteq drawn /\ drawn \in SUBSET Ids
  BY DEF RowsDrawn, BatchTypeOK
(* A call that goes on to its clean-up or to its loop, with its ids *)
<1>g. ASSUME NEW c \in BatchCalls, NEW to \in {"open", "cleanup"}, Reserving!GoTo(c, to),
             batch[c].step \in {"preflight", "open"}, to = "open" => batch[c].ids = << >>,
             drawn \subseteq drawn', drawn' \in SUBSET Ids, reserved' = reserved,
             open \subseteq open', open' \subseteq drawn', stranded \subseteq stranded',
             \A id \in open' \ stranded' : id \in open
      PROVE  SessionInv'
  <2>1. /\ batch' \in [BatchCalls -> [step : BatchSteps, tenant : Tenants \cup {"none"},
                                      files : Seq(Nat), ids : Seq(Ids)]]
        /\ batch'[c].step = to /\ batch'[c].tenant = batch[c].tenant
        /\ batch'[c].files = batch[c].files
        /\ \A d \in BatchCalls : batch'[d].ids = batch[d].ids /\ (d # c => batch'[d] = batch[d])
    BY <1>g, <1>s, CallGoesTo
  <2>2. CallSound(c)'
    <3>1. CallSound(c)
      OBVIOUS
    <3>2. Len(<< >>) = 0 /\ Len(batch[c].files) \in Nat
      BY DEF BatchTypeOK
    <3>3. to = "open" => batch'[c].ids = << >> /\ Len(batch'[c].ids) = 0
      BY <1>g, <2>1, <3>2
    <3> QED BY <1>g, <2>1, <3>1, <3>2, <3>3 DEF CallSound
  <2> QED BY <1>g, <2>1, <2>2, IdsKept
<1>1. ASSUME NEW c \in BatchCalls, NEW t \in Tenants, NEW files \in Reserving!Requests,
             Reserving!CreateBatch(c, t, files)
      PROVE  SessionInv'
  <2>1. /\ batch' = [batch EXCEPT ![c] = [step |-> "preflight", tenant |-> t, files |-> files,
                                          ids |-> << >>]]
        /\ UNCHANGED <<reserved, open, drawn, stranded>>
        /\ batch[c].ids = << >>
    BY <1>1 DEF Reserving!CreateBatch, Reserving!Idle
  <2>2. files \in Seq(Nat) /\ << >> \in Seq(Ids) /\ "preflight" \in BatchSteps
    BY RequestFiles DEF BatchSteps
  <2>3. /\ batch' \in [BatchCalls -> [step : BatchSteps, tenant : Tenants \cup {"none"},
                                      files : Seq(Nat), ids : Seq(Ids)]]
        /\ batch'[c].step = "preflight" /\ batch'[c].tenant = t /\ batch'[c].ids = << >>
        /\ \A d \in BatchCalls : batch'[d].ids = batch[d].ids /\ (d # c => batch'[d] = batch[d])
    BY <1>t, <2>1, <2>2 DEF BatchTypeOK
  <2>4. CallSound(c)'
    BY <2>3 DEF CallSound
  <2>5. /\ drawn \subseteq drawn' /\ drawn' \in SUBSET Ids /\ reserved' = reserved
        /\ open \subseteq open' /\ open' \subseteq drawn' /\ stranded \subseteq stranded'
        /\ \A id \in open' \ stranded' : id \in open
    BY <1>d, <2>1
  <2> QED BY <2>3, <2>4, <2>5, IdsKept
<1>2. ASSUME NEW c \in BatchCalls, Reserving!Preflight(c) PROVE SessionInv'
  <2>1. UNCHANGED <<reserved, open, drawn, stranded>> /\ batch[c].step = "preflight"
    BY <1>2 DEF Reserving!Preflight
  <2>2. batch[c].ids = << >>
    BY <2>1 DEF CallSound
  <2>3. CASE Reserving!GoTo(c, "open")
    BY <1>d, <1>g, <2>1, <2>2, <2>3
  <2>4. CASE Reserving!Answer(c)
    BY <2>1, <2>2, <2>4, CallEnds
  <2> QED BY <1>2, <2>3, <2>4 DEF Reserving!Preflight
<1>3. ASSUME NEW c \in BatchCalls, NEW id \in Ids, Reserving!OpenFile(c, id) PROVE SessionInv'
  BY <1>3, OpenKeeps
<1>4. ASSUME NEW c \in BatchCalls, NEW id \in Ids, Reserving!OpenFails(c, id) PROVE SessionInv'
  <2>1. /\ Reserving!GoTo(c, "cleanup") /\ batch[c].step = "open" /\ reserved' = reserved
        /\ drawn' = drawn \cup {id}
        /\ \/ open' = open /\ stranded' = stranded
           \/ open' = open \cup {id} /\ stranded' = stranded \cup {id}
    BY <1>4 DEF Reserving!OpenFails, Reserving!Opening
  <2>2. /\ drawn \subseteq drawn' /\ drawn' \in SUBSET Ids
        /\ open \subseteq open' /\ open' \subseteq drawn' /\ stranded \subseteq stranded'
        /\ \A x \in open' \ stranded' : x \in open
    BY <1>d, <2>1
  <2> QED BY <1>g, <2>1, <2>2
<1>5. ASSUME NEW c \in BatchCalls, Reserving!SaveBatch(c) PROVE SessionInv'
  <2>1. UNCHANGED <<open, drawn, stranded>> /\ Reserving!Saving(c) /\ batch[c].step = "open"
    BY <1>5 DEF Reserving!SaveBatch, Reserving!Saving
  <2>2. CASE Reserving!InsertBatch(c)
    BY <2>1, <2>2, InsertKeeps
  <2>3. CASE Reserving!GoTo(c, "cleanup") /\ reserved' = reserved
    BY <1>d, <1>g, <2>1, <2>3
  <2> QED BY <1>5, <2>2, <2>3 DEF Reserving!SaveBatch
<1>6. ASSUME NEW c \in BatchCalls, Reserving!SaveFails(c) PROVE SessionInv'
  <2>1. /\ UNCHANGED <<open, drawn, stranded, reserved>> /\ batch[c].step = "open"
        /\ Reserving!GoTo(c, "cleanup")
    BY <1>6 DEF Reserving!SaveFails, Reserving!Saving
  <2> QED BY <1>d, <1>g, <2>1
<1>7. ASSUME NEW c \in BatchCalls, Reserving!AbortNext(c) PROVE SessionInv'
  BY <1>7, AbortKeeps
<1>8. ASSUME NEW c \in BatchCalls, Reserving!EndCleanup(c) PROVE SessionInv'
  BY <1>8, CallEnds DEF Reserving!EndCleanup
<1>9. ASSUME NEW c \in BatchCalls, Reserving!CutOff(c) PROVE SessionInv'
  <2>1. /\ Reserving!Answer(c) /\ UNCHANGED <<reserved, open, drawn>>
        /\ stranded' = stranded \cup
             {id \in open : \E i \in DOMAIN batch[c].ids : batch[c].ids[i] = id}
    BY <1>9 DEF Reserving!CutOff
  <2>2. DOMAIN batch[c].ids = 1..Len(batch[c].ids)
    BY DEF BatchTypeOK
  <2>3. \A i \in 1..Len(batch[c].ids) :
          batch[c].ids[i] \in open => batch[c].ids[i] \in stranded'
    BY <2>1, <2>2
  <2> QED BY <2>1, <2>3, CallEnds
<1>10. ASSUME NEW id \in Ids, Reserving!Settle(id) PROVE SessionInv'
  <2>1. /\ reserved[id].state = "active" /\ open' = open \ {id} /\ "kept" \in RowStates
        /\ reserved' = [reserved EXCEPT ![id].state = "kept"]
        /\ UNCHANGED <<batch, drawn, stranded>>
    BY <1>10 DEF Reserving!Settle, RowStates
  <2>2. /\ reserved' \in [Ids -> [tenant : Tenants \cup {"none"}, bytes : Nat, state : RowStates]]
        /\ \A x \in Ids : x # id => reserved'[x] = reserved[x]
        /\ reserved'[id].state = "kept" /\ reserved'[id].tenant = reserved[id].tenant
    BY <2>1 DEF BatchTypeOK
  <2> QED BY <2>1, <2>2, RowMoves
<1>11. ASSUME NEW id \in Ids, Reserving!Remove(id) PROVE SessionInv'
  <2>1. /\ reserved[id].state \in {"active", "kept"} /\ open' = open \ {id}
        /\ "deleted" \in RowStates
        /\ reserved' = [reserved EXCEPT ![id].state = "deleted"]
        /\ UNCHANGED <<batch, drawn, stranded>>
    BY <1>11 DEF Reserving!Remove, RowStates
  <2>2. /\ reserved' \in [Ids -> [tenant : Tenants \cup {"none"}, bytes : Nat, state : RowStates]]
        /\ \A x \in Ids : x # id => reserved'[x] = reserved[x]
        /\ reserved'[id].state = "deleted" /\ reserved'[id].tenant = reserved[id].tenant
    BY <2>1 DEF BatchTypeOK
  <2> QED BY <2>1, <2>2, RowMoves
<1>12. ASSUME NEW id \in Ids, Reserving!Purge(id) PROVE SessionInv'
  <2>1. /\ reserved[id].state = "deleted"
        /\ reserved' = [reserved EXCEPT ![id] = [tenant |-> "none", bytes |-> 0, state |-> "none"]]
        /\ UNCHANGED <<batch, drawn, stranded, open>> /\ "none" \in RowStates
    BY <1>12 DEF Reserving!Purge, Reserving!NoRow, RowStates
  <2>2. /\ reserved' \in [Ids -> [tenant : Tenants \cup {"none"}, bytes : Nat, state : RowStates]]
        /\ \A x \in Ids : x # id => reserved'[x] = reserved[x]
        /\ reserved'[id].state = "none"
    BY <2>1 DEF BatchTypeOK
  <2> QED BY <2>1, <2>2, RowMoves
<1>13. CASE UNCHANGED Reserving!vars
  <2>1. UNCHANGED <<reserved, open, batch, drawn, stranded>>
    BY <1>13 DEF Reserving!vars
  <2> QED BY <2>1 DEF BatchTypeOK, IdsApart, IdsFresh, RowsDrawn, CallSound, SavedOpen, HasOwner
<1> QED
  BY <1>1, <1>2, <1>3, <1>4, <1>5, <1>6, <1>7, <1>8, <1>9, <1>10, <1>11, <1>12, <1>13
    DEF Reserving!Next, Reserving!CallStep

-----------------------------------------------------------------------------
(* The rows that count, and their sums *)
Held == {id \in Ids : reserved[id].state \in {"active", "kept"}}

Active == {id \in Ids : reserved[id].state = "active"}

HeldOf(t) == {id \in Held : reserved[id].tenant = t}

ActiveOf(t) == {id \in Active : reserved[id].tenant = t}

Accounts ==
    /\ IsFiniteSet(drawn) /\ usedBy \in [Tenants -> Nat]
    /\ used = Sum(BytesOf, Held) /\ used <= MaxBytes /\ Cardinality(Active) <= MaxActive
    /\ \A t \in Tenants : /\ usedBy[t] = Sum(BytesOf, HeldOf(t)) /\ usedBy[t] <= MaxBytesOf
                          /\ Cardinality(ActiveOf(t)) <= MaxActiveOf

LEMMA CapacityConstants ==
    /\ MaxActive \in Nat /\ MaxBytes \in Nat /\ MaxActiveOf \in Nat /\ MaxBytesOf \in Nat
<1>1. /\ MaxActive \in Nat /\ MaxBytes \in Nat
      /\ MaxActiveOf \in 1..MaxActive /\ MaxBytesOf \in 1..MaxBytes
  BY ServicesAssumption DEF Reserving!CapacityAssumption
<1> QED BY <1>1

LEMMA RowsFinite ==
    ASSUME SessionInv, IsFiniteSet(drawn)
    PROVE  /\ Held \in SUBSET Ids /\ IsFiniteSet(Held) /\ IsFiniteSet(Active)
           /\ \A t : IsFiniteSet(HeldOf(t)) /\ IsFiniteSet(ActiveOf(t)) /\ HeldOf(t) \in SUBSET Ids
           /\ \A id \in Ids : BytesOf[id] \in Nat /\ BytesOf[id] = reserved[id].bytes
<1>1. Held \in SUBSET drawn /\ Active \in SUBSET drawn /\ Held \in SUBSET Ids
  BY DEF SessionInv, RowsDrawn, Held, Active
<1>2. \A t : HeldOf(t) \in SUBSET drawn /\ ActiveOf(t) \in SUBSET drawn /\ HeldOf(t) \in SUBSET Ids
  BY <1>1 DEF HeldOf, ActiveOf
<1>3. IsFiniteSet(Held) /\ IsFiniteSet(Active)
  BY <1>1, FS_Subset
<1>4. \A t : IsFiniteSet(HeldOf(t)) /\ IsFiniteSet(ActiveOf(t))
  BY <1>2, FS_Subset
<1>5. \A id \in Ids : BytesOf[id] \in Nat /\ BytesOf[id] = reserved[id].bytes
  BY DEF SessionInv, BatchTypeOK, BytesOf
<1> QED BY <1>1, <1>2, <1>3, <1>4, <1>5

LEMMA AccountsInit == Reserving!Init => Accounts
<1> SUFFICES ASSUME Reserving!Init PROVE Accounts
  OBVIOUS
<1>1. /\ reserved = [id \in Ids |-> Reserving!NoRow] /\ used = 0 /\ drawn = {}
      /\ usedBy = [t \in Tenants |-> 0]
  BY DEF Reserving!Init
<1>2. Held = {} /\ Active = {}
  BY <1>1 DEF Held, Active, Reserving!NoRow
<1>3. \A t : HeldOf(t) = {} /\ ActiveOf(t) = {}
  BY <1>2 DEF HeldOf, ActiveOf
<1>4. Sum(BytesOf, {}) = 0 /\ Cardinality({}) = 0 /\ IsFiniteSet({})
  BY SumEmpty, FS_EmptySet
<1> QED BY <1>1, <1>2, <1>3, <1>4, CapacityConstants DEF Accounts

LEMMA TotalIsSum ==
    ASSUME NEW files \in Seq(Nat)
    PROVE  Reserving!Total(files) = Sum(files, 1..Len(files)) /\ Sum(files, 1..Len(files)) \in Nat
<1>0. /\ DOMAIN files = 1..Len(files) /\ \A i \in 1..Len(files) : files[i] \in Nat
      /\ IsFiniteSet(1..Len(files))
  <2>1. Len(files) \in Int
    OBVIOUS
  <2>2. IsFiniteSet(1..Len(files))
    BY <2>1, FS_Interval
  <2> QED BY <2>2
<1> DEFINE D == DOMAIN files
           Q(it) == it = [s \in SUBSET D |-> IF s = {} THEN 0 ELSE
                            files[CHOOSE x \in s : TRUE] + it[s \ {CHOOSE x \in s : TRUE}]]
<1>1. Reserving!Total(files) = (CHOOSE it : Q(it))[D]
  BY DEF Reserving!Total, Reserving!FoldSet, Reserving!MapThenFoldSet
<1>3. \A it : Q(it) <=> IsFold(it, files, D)
  BY DEF IsFold
<1>4. Q([s \in SUBSET D |-> Sum(files, s)])
  BY <1>0, <1>3, FoldExists
<1>5. Q(CHOOSE it : Q(it))
  <2> HIDE DEF Q
  <2> QED BY <1>4
<1>6. (CHOOSE it : Q(it))[D] = Sum(files, D)
  <2> HIDE DEF Q
  <2> QED BY <1>0, <1>3, <1>5, FoldIsSum
<1>7. Sum(files, 1..Len(files)) \in Nat
  BY <1>0, SumType
<1> QED BY <1>0, <1>1, <1>6, <1>7

(* capacity_allows, in these terms *)
LEMMA AllowsMeans ==
    ASSUME NEW t \in Tenants, NEW files \in Seq(Nat), Reserving!CapacityAllows(t, files)
    PROVE  /\ Cardinality(Active) + Len(files) <= MaxActive
           /\ Cardinality(ActiveOf(t)) + Len(files) <= MaxActiveOf
           /\ used + Sum(files, 1..Len(files)) <= MaxBytes
           /\ usedBy[t] + Sum(files, 1..Len(files)) <= MaxBytesOf
<1>1. Reserving!RowsIn({"active"}) = Active /\ Reserving!Of(t, Active) = ActiveOf(t)
  BY DEF Reserving!RowsIn, Active, Reserving!Of, ActiveOf
<1>2. \A S : Reserving!Cardinality(S) = Cardinality(S)
  BY DEF Reserving!Cardinality, Cardinality
<1>3. Reserving!Total(files) = Sum(files, 1..Len(files))
  BY TotalIsSum
<1> QED BY <1>1, <1>2, <1>3 DEF Reserving!CapacityAllows

LEMMA CapacityFromAccounts == SessionInv /\ Accounts => Reserving!CapacityKept
<1> SUFFICES ASSUME SessionInv, Accounts PROVE Reserving!CapacityKept
  OBVIOUS
<1>1. /\ Held \in SUBSET Ids /\ IsFiniteSet(Held)
      /\ \A t : IsFiniteSet(HeldOf(t)) /\ HeldOf(t) \in SUBSET Ids
      /\ \A id \in Ids : BytesOf[id] \in Nat /\ BytesOf[id] = reserved[id].bytes
  BY RowsFinite DEF Accounts
<1>2. Reserving!Bytes(Held) = Sum(BytesOf, Held)
  BY <1>1, BytesAreSum
<1>3. \A t : Reserving!Bytes(HeldOf(t)) = Sum(BytesOf, HeldOf(t))
  BY <1>1, BytesAreSum
<1>4. /\ Reserving!RowsIn({"active"}) = Active /\ Reserving!RowsIn({"active", "kept"}) = Held
      /\ \A t : Reserving!Of(t, Active) = ActiveOf(t) /\ Reserving!Of(t, Held) = HeldOf(t)
  BY DEF Reserving!RowsIn, Active, Held, Reserving!Of, ActiveOf, HeldOf
<1>5. \A S : Reserving!Cardinality(S) = Cardinality(S)
  BY DEF Reserving!Cardinality, Cardinality
<1>6. Reserving!UsageMatchesRows
  BY <1>2, <1>3, <1>4 DEF Reserving!UsageMatchesRows, Accounts
<1>7. Reserving!WithinCapacity
  BY <1>2, <1>3, <1>4, <1>5 DEF Reserving!WithinCapacity, Accounts
<1> QED BY <1>6, <1>7 DEF Reserving!CapacityKept

(* A step that leaves the rows that count and the counters alone *)
LEMMA AccountsKept ==
    ASSUME Accounts, reserved' = reserved, used' = used, usedBy' = usedBy, IsFiniteSet(drawn')
    PROVE  Accounts'
  BY DEF Accounts, Held, Active, HeldOf, ActiveOf, BytesOf

(* The batch is inserted: its bytes are added once, to the node and to its tenant *)
LEMMA InsertAccounts ==
    ASSUME SessionInv, Accounts, NEW c \in BatchCalls, Reserving!Saving(c),
           Reserving!CapacityAllows(batch[c].tenant, batch[c].files),
           Reserving!InsertBatch(c), drawn' = drawn
    PROVE  Accounts'
<1>n. PICK n : n = Len(batch[c].ids)
  OBVIOUS
<1>0. /\ reserved' \in [Ids -> [tenant : Tenants \cup {"none"}, bytes : Nat, state : RowStates]]
      /\ batch[c].ids \in Seq(Ids) /\ batch[c].files \in Seq(Nat)
      /\ Len(batch[c].ids) = Len(batch[c].files) /\ batch[c].step = "open"
      /\ batch[c].tenant \in Tenants
      /\ \A i \in 1..Len(batch[c].ids) :
           reserved'[batch[c].ids[i]] = [tenant |-> batch[c].tenant,
                                         bytes |-> batch[c].files[i], state |-> "active"]
      /\ \A x \in Ids : \/ reserved'[x] = reserved[x]
                       \/ \E i \in 1..Len(batch[c].ids) : x = batch[c].ids[i]
  BY InsertedRows
<1>1. PICK ids : ids = batch[c].ids
  OBVIOUS
<1>2. PICK files : files = batch[c].files
  OBVIOUS
<1>3. PICK t0 : t0 = batch[c].tenant
  OBVIOUS
<1>4. PICK g : g = BytesOf'
  OBVIOUS
<1>5. PICK R : R = {ids[i] : i \in 1..n}
  OBVIOUS
<1>6. /\ ids \in Seq(Ids) /\ files \in Seq(Nat) /\ t0 \in Tenants
      /\ n = Len(ids) /\ n = Len(files) /\ n \in Nat
      /\ \A i \in 1..n : ids[i] \in Ids /\ files[i] \in Nat
  BY <1>n, <1>0, <1>1, <1>2, <1>3
<1>7. /\ \A i \in 1..n : reserved'[ids[i]] = [tenant |-> t0, bytes |-> files[i], state |-> "active"]
      /\ \A x \in Ids : x \notin R => reserved'[x] = reserved[x]
      /\ \A x \in R : x \in Ids /\ \E i \in 1..n : x = ids[i]
  BY <1>n, <1>0, <1>1, <1>2, <1>3, <1>5, <1>6
<1>8. \A x \in R : /\ reserved'[x].state = "active" /\ reserved'[x].tenant = t0
                   /\ reserved[x].state = "none"
  <2> SUFFICES ASSUME NEW x \in R
               PROVE  /\ reserved'[x].state = "active" /\ reserved'[x].tenant = t0
                      /\ reserved[x].state = "none"
    OBVIOUS
  <2>1. PICK i \in 1..n : x = ids[i]
    BY <1>7
  <2>2. reserved'[x] = [tenant |-> t0, bytes |-> files[i], state |-> "active"]
    BY <1>7, <2>1
  <2>3. i \in 1..Len(batch[c].ids) /\ x = batch[c].ids[i] /\ IdsFresh
    BY <1>1, <1>n, <2>1 DEF SessionInv
  <2>4. reserved[x].state = "none"
    BY <2>3 DEF IdsFresh
  <2> QED BY <2>2, <2>4
<1>9. g = [x \in Ids |-> reserved'[x].bytes]
  BY <1>4 DEF BytesOf
<1>10. \A x \in Ids : g[x] \in Nat
  BY <1>0, <1>9
<1>11. \A i \in 1..n : g[ids[i]] = files[i]
  <2> SUFFICES ASSUME NEW i \in 1..n PROVE g[ids[i]] = files[i]
    OBVIOUS
  <2>1. reserved'[ids[i]] = [tenant |-> t0, bytes |-> files[i], state |-> "active"]
    BY <1>7
  <2>2. reserved'[ids[i]].bytes = files[i] /\ ids[i] \in Ids
    BY <1>6, <2>1
  <2> QED BY <1>9, <2>2
<1>12. /\ Sum(files, 1..n) = Sum(g, R)
       /\ IsFiniteSet(R) /\ Cardinality(R) = n
  <2>1. IsFiniteSet(1..n) /\ Cardinality(1..n) = n
    <3>1. 1 \in Int /\ n \in Int /\ (IF 1 > n THEN 0 ELSE n - 1 + 1) = n
      BY <1>6
    <3>2. IsFiniteSet(1..n) /\ Cardinality(1..n) = IF 1 > n THEN 0 ELSE n - 1 + 1
      BY <3>1, FS_Interval
    <3> QED BY <3>1, <3>2
  <2>2. ids \in [1..n -> R] /\ \A r \in R : \E i \in 1..n : ids[i] = r
    <3>1. \A i \in 1..n : ids[i] \in R
      BY <1>5
    <3>2. ids \in Seq(Ids) /\ 1..n = 1..Len(ids)
      BY <1>6
    <3>3. ids = [i \in 1..n |-> ids[i]]
      <4>1. ids = [i \in 1..Len(ids) |-> ids[i]]
        BY ONLY <3>2
      <4> QED BY ONLY <3>2, <4>1
    <3>4. ids \in [1..n -> R]
      BY <3>1, <3>3
    <3> QED BY <1>7, <3>4
  <2>3. \A i, j \in 1..n : ids[i] = ids[j] => i = j
    <3>1. IdsApart
      BY DEF SessionInv
    <3> QED BY <1>1, <1>n, <3>1 DEF IdsApart
  <2>4. \A i \in 1..n : files[i] \in Nat /\ g[ids[i]] = files[i]
    BY <1>6, <1>11
  <2>5. PICK D : D = 1..n
    OBVIOUS
  <2>6. /\ IsFiniteSet(D) /\ ids \in [D -> R] /\ (\A d, e \in D : ids[d] = ids[e] => d = e)
        /\ (\A r \in R : \E d \in D : ids[d] = r)
        /\ \A d \in D : files[d] \in Nat /\ g[ids[d]] = files[d]
    BY <2>1, <2>2, <2>3, <2>4, <2>5
  <2>7. Sum(files, D) = Sum(g, R) /\ IsFiniteSet(R) /\ Cardinality(R) = Cardinality(D)
    BY ONLY <2>6, SumRenamed
  <2> QED BY <2>1, <2>5, <2>7
<1>13. Sum(files, 1..n) \in Nat /\ Reserving!Total(files) = Sum(files, 1..n)
  BY <1>6, TotalIsSum
<1>14. /\ Cardinality(Active) + n <= MaxActive
       /\ Cardinality(ActiveOf(t0)) + n <= MaxActiveOf
       /\ used + Sum(files, 1..n) <= MaxBytes
       /\ usedBy[t0] + Sum(files, 1..n) <= MaxBytesOf
  BY <1>2, <1>3, <1>6, AllowsMeans
<1>15. /\ used' = used + Sum(files, 1..n)
       /\ usedBy' = [usedBy EXCEPT ![t0] = usedBy[t0] + Sum(files, 1..n)]
  BY <1>2, <1>3, <1>13 DEF Reserving!InsertBatch, Reserving!Reserve
<1>16. /\ Held \in SUBSET Ids /\ IsFiniteSet(Held) /\ IsFiniteSet(Active)
       /\ \A t : IsFiniteSet(HeldOf(t)) /\ IsFiniteSet(ActiveOf(t)) /\ HeldOf(t) \in SUBSET Ids
       /\ \A id \in Ids : BytesOf[id] \in Nat /\ BytesOf[id] = reserved[id].bytes
  BY RowsFinite DEF Accounts
<1>17. Held' = Held \cup R /\ Active' = Active \cup R
  BY <1>7, <1>8 DEF Held, Active
<1>18. \A t : /\ HeldOf(t)' = IF t = t0 THEN HeldOf(t) \cup R ELSE HeldOf(t)
              /\ ActiveOf(t)' = IF t = t0 THEN ActiveOf(t) \cup R ELSE ActiveOf(t)
  BY <1>7, <1>8, <1>17 DEF HeldOf, ActiveOf, Held, Active
<1>19. ASSUME NEW S, S \in SUBSET Held, IsFiniteSet(S)
       PROVE  /\ Sum(g, S) = Sum(BytesOf, S) /\ Sum(g, S) \in Nat
              /\ Sum(g, S \cup R) = Sum(BytesOf, S) + Sum(files, 1..n)
  <2>1. \A x \in S : x \in Ids /\ x \notin R /\ g[x] = BytesOf[x]
    BY <1>7, <1>8, <1>9, <1>16, <1>19 DEF Held
  <2>2. Sum(g, S) = Sum(BytesOf, S)
    BY <2>1, SumSame
  <2>3. Sum(g, S \cup R) = Sum(g, S) + Sum(g, R)
    <3>1. S \cap R = {} /\ \A x \in S \cup R : g[x] \in Nat
      BY <1>7, <1>10, <2>1
    <3> QED BY <1>12, <1>19, <3>1, SumUnion
  <2>4. Sum(g, S) \in Nat
    BY <1>10, <1>19, <2>1, SumType
  <2> QED BY <1>12, <2>2, <2>3, <2>4
<1>20. ASSUME NEW S, S \in SUBSET Active, IsFiniteSet(S)
       PROVE  Cardinality(S \cup R) = Cardinality(S) + n /\ Cardinality(S) \in Nat
  <2>1. S \cap R = {}
    BY <1>8, <1>20 DEF Active
  <2>2. Cardinality(S \cup R) = Cardinality(S) + Cardinality(R) - Cardinality(S \cap R)
    BY <1>12, <1>20, FS_Union
  <2>3. Cardinality(S \cap R) = 0 /\ Cardinality(S) \in Nat
    BY <1>20, <2>1, FS_EmptySet, FS_CardinalityType
  <2> QED BY <1>6, <1>12, <2>2, <2>3
<1>21. used' = Sum(BytesOf', Held') /\ used' <= MaxBytes
  BY <1>4, <1>14, <1>15, <1>16, <1>17, <1>19 DEF Accounts
<1>22. Cardinality(Active') <= MaxActive
  BY <1>14, <1>16, <1>17, <1>20
<1>23. ASSUME NEW t \in Tenants
       PROVE  /\ usedBy'[t] \in Nat
              /\ usedBy'[t] = Sum(BytesOf', HeldOf(t)') /\ usedBy'[t] <= MaxBytesOf
              /\ Cardinality(ActiveOf(t)') <= MaxActiveOf
  <2>1. /\ HeldOf(t) \in SUBSET Held /\ ActiveOf(t) \in SUBSET Active
        /\ usedBy[t] = Sum(BytesOf, HeldOf(t)) /\ usedBy[t] <= MaxBytesOf /\ usedBy[t] \in Nat
        /\ Cardinality(ActiveOf(t)) <= MaxActiveOf
    BY DEF HeldOf, ActiveOf, Accounts
  <2>2. CASE t = t0
    <3>1. usedBy'[t] = usedBy[t] + Sum(files, 1..n)
      BY <1>15, <2>2 DEF Accounts
    <3>2. Sum(g, HeldOf(t) \cup R) = Sum(BytesOf, HeldOf(t)) + Sum(files, 1..n)
      BY <1>16, <1>19, <2>1
    <3>3. Cardinality(ActiveOf(t) \cup R) = Cardinality(ActiveOf(t)) + n
      BY <1>16, <1>20, <2>1
    <3>4. HeldOf(t)' = HeldOf(t) \cup R /\ ActiveOf(t)' = ActiveOf(t) \cup R
      BY <1>18, <2>2
    <3>5. usedBy'[t] = Sum(BytesOf', HeldOf(t)')
      BY <1>4, <2>1, <3>1, <3>2, <3>4
    <3>6. usedBy'[t] <= MaxBytesOf /\ Cardinality(ActiveOf(t)') <= MaxActiveOf
      BY <1>14, <2>2, <3>1, <3>3, <3>4
    <3>7. usedBy'[t] \in Nat
      BY <1>13, <2>1, <3>1
    <3> QED BY <3>5, <3>6, <3>7
  <2>3. CASE t # t0
    <3>1. usedBy'[t] = usedBy[t]
      BY <1>15, <2>3 DEF Accounts
    <3>2. Sum(g, HeldOf(t)) = Sum(BytesOf, HeldOf(t))
      BY <1>16, <1>19, <2>1
    <3> QED BY <1>4, <1>18, <2>1, <2>3, <3>1, <3>2
  <2> QED BY <2>2, <2>3
<1>24. usedBy' \in [Tenants -> Nat]
  BY <1>15, <1>23 DEF Accounts
<1>25. IsFiniteSet(drawn')
  BY DEF Accounts
<1> QED BY <1>21, <1>22, <1>23, <1>24, <1>25 DEF Accounts

(* A row leaves the rows that are held, and its bytes leave both counters *)
LEMMA RemoveAccounts ==
    ASSUME SessionInv, Accounts, NEW id \in Ids, Reserving!Remove(id)
    PROVE  Accounts'
<1>1. /\ reserved[id].state \in {"active", "kept"} /\ drawn' = drawn
      /\ reserved' = [reserved EXCEPT ![id].state = "deleted"]
  BY DEF Reserving!Remove
<1>2. PICK t0 : t0 = reserved[id].tenant
  OBVIOUS
<1>3. PICK b : b = reserved[id].bytes
  OBVIOUS
<1>4. t0 \in Tenants /\ b \in Nat
  BY <1>1, <1>2, <1>3 DEF SessionInv, RowsDrawn, BatchTypeOK
<1>5. used' = used + (-b) /\ usedBy' = [usedBy EXCEPT ![t0] = usedBy[t0] + (-b)]
  BY <1>2, <1>3 DEF Reserving!Remove, Reserving!Reserve
<1>6. /\ \A x \in Ids : /\ reserved'[x].bytes = reserved[x].bytes
                        /\ reserved'[x].tenant = reserved[x].tenant
                        /\ x # id => reserved'[x].state = reserved[x].state
      /\ reserved'[id].state = "deleted"
  BY <1>1 DEF SessionInv, BatchTypeOK
<1>7. BytesOf' = BytesOf
  BY <1>6 DEF BytesOf
<1>8. /\ Held \in SUBSET Ids /\ IsFiniteSet(Held) /\ IsFiniteSet(Active)
      /\ \A t : IsFiniteSet(HeldOf(t)) /\ IsFiniteSet(ActiveOf(t)) /\ HeldOf(t) \in SUBSET Ids
      /\ \A x \in Ids : BytesOf[x] \in Nat /\ BytesOf[x] = reserved[x].bytes
  BY RowsFinite DEF Accounts
<1>9. id \in Held /\ Held' = Held \ {id} /\ Active' \in SUBSET Active
  BY <1>1, <1>6 DEF Held, Active
<1>10. \A t : /\ HeldOf(t)' = HeldOf(t) \ {id} /\ ActiveOf(t)' \in SUBSET ActiveOf(t)
              /\ id \in HeldOf(t) <=> t = t0
  BY <1>2, <1>6, <1>9 DEF HeldOf, ActiveOf, Held, Active
<1>11. ASSUME NEW S, IsFiniteSet(S), S \in SUBSET Ids
       PROVE  /\ Sum(BytesOf, S) \in Nat /\ Sum(BytesOf, S \ {id}) \in Nat
              /\ id \in S => Sum(BytesOf, S) = b + Sum(BytesOf, S \ {id})
              /\ id \notin S => Sum(BytesOf, S \ {id}) = Sum(BytesOf, S)
  <2>1. \A x \in S : BytesOf[x] \in Nat
    BY <1>8, <1>11
  <2>2. IsFiniteSet(S \ {id})
    BY <1>11, FS_RemoveElement
  <2>3. Sum(BytesOf, S) \in Nat /\ Sum(BytesOf, S \ {id}) \in Nat
    BY <1>11, <2>1, <2>2, SumType
  <2>4. id \in S => Sum(BytesOf, S) = BytesOf[id] + Sum(BytesOf, S \ {id})
    BY <1>11, <2>1, SumWithout
  <2>5. id \notin S => S \ {id} = S
    OBVIOUS
  <2> QED BY <1>3, <1>8, <2>3, <2>4, <2>5
<1>12. used' = Sum(BytesOf', Held') /\ used' <= MaxBytes
  <2>1. Sum(BytesOf, Held) = b + Sum(BytesOf, Held \ {id}) /\ Sum(BytesOf, Held \ {id}) \in Nat
    BY <1>8, <1>9, <1>11
  <2>2. used = Sum(BytesOf, Held) /\ used <= MaxBytes /\ MaxBytes \in Nat
    BY CapacityConstants DEF Accounts
  <2>3. used' = Sum(BytesOf, Held \ {id})
    BY <1>4, <1>5, <2>1, <2>2
  <2>4. Sum(BytesOf, Held \ {id}) <= MaxBytes
    BY <1>4, <2>1, <2>2
  <2> QED BY <1>7, <1>9, <2>3, <2>4
<1>13. ASSUME NEW S, NEW T, IsFiniteSet(S), T \in SUBSET S, NEW m \in Nat, Cardinality(S) <= m
       PROVE  Cardinality(T) <= m
  <2>1. Cardinality(T) <= Cardinality(S) /\ IsFiniteSet(T)
    BY <1>13, FS_Subset
  <2>2. Cardinality(T) \in Nat /\ Cardinality(S) \in Nat
    BY <1>13, <2>1, FS_CardinalityType
  <2> QED BY <1>13, <2>1, <2>2
<1>14. Cardinality(Active') <= MaxActive
  BY <1>8, <1>9, <1>13, CapacityConstants DEF Accounts
<1>15. ASSUME NEW t \in Tenants
       PROVE  /\ usedBy'[t] \in Nat
              /\ usedBy'[t] = Sum(BytesOf', HeldOf(t)') /\ usedBy'[t] <= MaxBytesOf
              /\ Cardinality(ActiveOf(t)') <= MaxActiveOf
  <2>1. /\ usedBy[t] = Sum(BytesOf, HeldOf(t)) /\ usedBy[t] <= MaxBytesOf /\ usedBy[t] \in Nat
        /\ Cardinality(ActiveOf(t)) <= MaxActiveOf /\ MaxBytesOf \in Nat /\ MaxActiveOf \in Nat
    BY CapacityConstants DEF Accounts
  <2>2. Cardinality(ActiveOf(t)') <= MaxActiveOf
    BY <1>8, <1>10, <1>13, <2>1
  <2>3. usedBy'[t] = IF t = t0 THEN usedBy[t] + (-b) ELSE usedBy[t]
    BY <1>5 DEF Accounts
  <2>4. /\ Sum(BytesOf, HeldOf(t) \ {id}) \in Nat
        /\ t = t0 => Sum(BytesOf, HeldOf(t)) = b + Sum(BytesOf, HeldOf(t) \ {id})
        /\ t # t0 => Sum(BytesOf, HeldOf(t) \ {id}) = Sum(BytesOf, HeldOf(t))
    BY <1>8, <1>10, <1>11
  <2>5. usedBy'[t] = Sum(BytesOf, HeldOf(t) \ {id})
    BY <1>4, <2>1, <2>3, <2>4
  <2>6. Sum(BytesOf, HeldOf(t) \ {id}) <= MaxBytesOf
    BY <1>4, <2>1, <2>4
  <2> QED BY <1>7, <1>10, <2>2, <2>4, <2>5, <2>6
<1>16. usedBy' \in [Tenants -> Nat]
  BY <1>5, <1>15 DEF Accounts
<1>17. IsFiniteSet(drawn')
  BY <1>1 DEF Accounts
<1> QED BY <1>12, <1>14, <1>15, <1>16, <1>17 DEF Accounts

(* A row that changes within the held ones, or outside them *)
LEMMA ChangeAccounts ==
    ASSUME SessionInv, Accounts, UNCHANGED <<used, usedBy, drawn>>,
           \A x \in Ids : /\ reserved'[x].state \in {"active", "kept"} <=>
                               reserved[x].state \in {"active", "kept"}
                          /\ reserved'[x].state = "active" => reserved[x].state = "active"
                          /\ reserved[x].state \in {"active", "kept"} =>
                              /\ reserved'[x].bytes = reserved[x].bytes
                              /\ reserved'[x].tenant = reserved[x].tenant
    PROVE  Accounts'
<1>1. Held' = Held /\ Active' \in SUBSET Active
  BY DEF Held, Active
<1>2. \A t : HeldOf(t)' = HeldOf(t) /\ ActiveOf(t)' \in SUBSET ActiveOf(t)
  BY <1>1 DEF HeldOf, ActiveOf, Held, Active
<1>3. \A x \in Held : BytesOf'[x] = BytesOf[x]
  BY DEF BytesOf, Held
<1>4. /\ IsFiniteSet(Active) /\ \A t : IsFiniteSet(ActiveOf(t))
  BY RowsFinite DEF Accounts
<1>5. PICK g : g = BytesOf'
  OBVIOUS
<1>6. Sum(g, Held) = Sum(BytesOf, Held)
  BY <1>3, <1>5, SumSame
<1>7. \A t : Sum(g, HeldOf(t)) = Sum(BytesOf, HeldOf(t))
  <2> SUFFICES ASSUME NEW t PROVE Sum(g, HeldOf(t)) = Sum(BytesOf, HeldOf(t))
    OBVIOUS
  <2>1. \A x \in HeldOf(t) : g[x] = BytesOf[x]
    BY <1>3, <1>5 DEF HeldOf
  <2> QED BY <2>1, SumSame
<1>13. ASSUME NEW S, NEW T, IsFiniteSet(S), T \in SUBSET S, NEW m \in Nat, Cardinality(S) <= m
       PROVE  Cardinality(T) <= m
  <2>1. Cardinality(T) <= Cardinality(S) /\ IsFiniteSet(T)
    BY <1>13, FS_Subset
  <2>2. Cardinality(T) \in Nat /\ Cardinality(S) \in Nat
    BY <1>13, <2>1, FS_CardinalityType
  <2> QED BY <1>13, <2>1, <2>2
<1>14. Cardinality(Active') <= MaxActive
  BY <1>1, <1>4, <1>13, CapacityConstants DEF Accounts
<1>15. ASSUME NEW t \in Tenants
       PROVE  usedBy'[t] = Sum(BytesOf', HeldOf(t)') /\ Cardinality(ActiveOf(t)') <= MaxActiveOf
  <2>1. usedBy[t] = Sum(BytesOf, HeldOf(t)) /\ Cardinality(ActiveOf(t)) <= MaxActiveOf
    BY DEF Accounts
  <2>2. Cardinality(ActiveOf(t)') <= MaxActiveOf
    BY <1>2, <1>4, <1>13, <2>1, CapacityConstants
  <2> QED BY <1>2, <1>5, <1>7, <2>1, <2>2
<1> QED BY <1>1, <1>5, <1>6, <1>14, <1>15 DEF Accounts

LEMMA AccountStep ==
    SessionInv /\ Accounts /\ [Reserving!Next]_(Reserving!vars) => Accounts'
<1> SUFFICES ASSUME SessionInv, Accounts, [Reserving!Next]_(Reserving!vars) PROVE Accounts'
  OBVIOUS
<1>f. IsFiniteSet(drawn) /\ \A id : IsFiniteSet(drawn \cup {id})
  BY FS_AddElement DEF Accounts
<1>1. ASSUME NEW c \in BatchCalls, NEW t \in Tenants, NEW files \in Reserving!Requests,
             Reserving!CreateBatch(c, t, files)
      PROVE  Accounts'
  BY <1>1, <1>f, AccountsKept DEF Reserving!CreateBatch
<1>2. ASSUME NEW c \in BatchCalls, Reserving!Preflight(c) PROVE Accounts'
  BY <1>2, <1>f, AccountsKept DEF Reserving!Preflight
<1>3. ASSUME NEW c \in BatchCalls, NEW id \in Ids, Reserving!OpenFile(c, id) PROVE Accounts'
  BY <1>3, <1>f, AccountsKept DEF Reserving!OpenFile
<1>4. ASSUME NEW c \in BatchCalls, NEW id \in Ids, Reserving!OpenFails(c, id) PROVE Accounts'
  BY <1>4, <1>f, AccountsKept DEF Reserving!OpenFails
<1>5. ASSUME NEW c \in BatchCalls, Reserving!SaveBatch(c) PROVE Accounts'
  <2>1. drawn' = drawn /\ Reserving!Saving(c)
    BY <1>5 DEF Reserving!SaveBatch
  <2>2. CASE /\ Reserving!CapacityAllows(batch[c].tenant, batch[c].files)
             /\ Reserving!InsertBatch(c)
    BY <2>1, <2>2, InsertAccounts
  <2>3. CASE reserved' = reserved /\ used' = used /\ usedBy' = usedBy
    BY <1>f, <2>1, <2>3, AccountsKept
  <2> QED BY <1>5, <2>2, <2>3 DEF Reserving!SaveBatch
<1>6. ASSUME NEW c \in BatchCalls, Reserving!SaveFails(c) PROVE Accounts'
  BY <1>6, <1>f, AccountsKept DEF Reserving!SaveFails
<1>7. ASSUME NEW c \in BatchCalls, Reserving!AbortNext(c) PROVE Accounts'
  BY <1>7, <1>f, AccountsKept DEF Reserving!AbortNext
<1>8. ASSUME NEW c \in BatchCalls, Reserving!EndCleanup(c) PROVE Accounts'
  BY <1>8, <1>f, AccountsKept DEF Reserving!EndCleanup
<1>9. ASSUME NEW c \in BatchCalls, Reserving!CutOff(c) PROVE Accounts'
  BY <1>9, <1>f, AccountsKept DEF Reserving!CutOff
<1>10. ASSUME NEW id \in Ids, Reserving!Settle(id) PROVE Accounts'
  <2>1. /\ reserved[id].state = "active" /\ UNCHANGED <<used, usedBy, drawn>>
        /\ reserved' = [reserved EXCEPT ![id].state = "kept"]
    BY <1>10 DEF Reserving!Settle
  <2>2. /\ \A x \in Ids : /\ reserved'[x].bytes = reserved[x].bytes
                          /\ reserved'[x].tenant = reserved[x].tenant
                          /\ x # id => reserved'[x].state = reserved[x].state
        /\ reserved'[id].state = "kept"
    BY <2>1 DEF SessionInv, BatchTypeOK
  <2> QED BY <2>1, <2>2, ChangeAccounts
<1>11. ASSUME NEW id \in Ids, Reserving!Remove(id) PROVE Accounts'
  BY <1>11, RemoveAccounts
<1>12. ASSUME NEW id \in Ids, Reserving!Purge(id) PROVE Accounts'
  <2>1. /\ reserved[id].state = "deleted" /\ UNCHANGED <<used, usedBy, drawn>>
        /\ reserved' = [reserved EXCEPT ![id] = [tenant |-> "none", bytes |-> 0, state |-> "none"]]
    BY <1>12 DEF Reserving!Purge, Reserving!NoRow
  <2>2. /\ \A x \in Ids : x # id => reserved'[x] = reserved[x]
        /\ reserved'[id].state = "none"
    BY <2>1 DEF SessionInv, BatchTypeOK
  <2> QED BY <2>1, <2>2, ChangeAccounts
<1>13. CASE UNCHANGED Reserving!vars
  BY <1>13, <1>f, AccountsKept DEF Reserving!vars
<1> QED
  BY <1>1, <1>2, <1>3, <1>4, <1>5, <1>6, <1>7, <1>8, <1>9, <1>10, <1>11, <1>12, <1>13
    DEF Reserving!Next, Reserving!CallStep

-----------------------------------------------------------------------------
ReservingInv == part = "reservation" => SessionInv /\ Accounts

LEMMA ReservingPartInv == Spec => []ReservingInv
<1>1. Init => ReservingInv
  BY SessionInit, AccountsInit DEF Init, Chosen, ReservingInv
<1>2. ReservingInv /\ [Next]_v =>
        ReservingInv'
  <2> SUFFICES ASSUME part = "reservation" => SessionInv /\ Accounts, [Next]_v,
                      part' = "reservation"
               PROVE  SessionInv' /\ Accounts'
    BY DEF ReservingInv
  <2>1. part = "reservation" /\ [Reserving!Next]_(Reserving!vars)
    BY DEF Next, v, reserving, Reserving!vars, Reserve, Send, Serve, Probe, Decode, Decide, Admit,
      Publish
  <2> QED BY <2>1, SessionStep, AccountStep
<1> QED BY <1>1, <1>2, PTL DEF Spec

LEMMA OwnedFromSessions == SessionInv => Reserving!SessionsOwned
<1> SUFFICES ASSUME SessionInv PROVE Reserving!SessionsOwned
  OBVIOUS
<1>1. \A c \in BatchCalls : DOMAIN batch[c].ids = 1..Len(batch[c].ids)
  BY DEF SessionInv, BatchTypeOK
<1>2. \A id \in open \ stranded : HasOwner(id)
  BY DEF SessionInv
<1>3. \A id \in open \ stranded :
        \/ reserved[id].state = "active"
        \/ \E c \in BatchCalls : \E i \in DOMAIN batch[c].ids : batch[c].ids[i] = id
  BY <1>1, <1>2 DEF HasOwner
<1> QED BY <1>3 DEF SessionInv, SavedOpen, Reserving!SessionsOwned

(* However many create_batch calls run together, fail, are cut off or clean up, every
   multipart session the provider holds has an owner or was counted as stranded, and no
   saved upload lost its session. *)
THEOREM EverySessionHasAnOwner == Spec => []SessionsOwned
<1>1. ReservingInv => SessionsOwned
  BY OwnedFromSessions DEF SessionsOwned, ReservingInv
<1> QED BY <1>1, ReservingPartInv, PTL

(* save_batch checks the caps in the transaction that inserts: whatever passed the
   preflight together, the counters the triggers keep are the sums over the rows, and no
   cap, of the node or of a tenant, is ever exceeded. *)
THEOREM CapsAreNeverExceeded == Spec => []CapacityKept
<1>1. ReservingInv => CapacityKept
  BY CapacityFromAccounts DEF CapacityKept, ReservingInv
<1> QED BY <1>1, ReservingPartInv, PTL

-----------------------------------------------------------------------------
(* MultipartTransfer.  The arithmetic of a layout first: parts of p units for a
   source of l, the last one shorter. *)
LEMMA Quotient ==
    ASSUME NEW l \in Nat \ {0}, NEW p \in Nat \ {0}
    PROVE  LET c == (l + p - 1) \div p IN c \in Nat \ {0} /\ (c - 1) * p < l /\ l <= c * p
<1>1. ASSUME NEW u \in Nat \ {0}, NEW a \in Nat
      PROVE  a \div u \in Nat /\ u * (a \div u) <= a /\ a < u * (a \div u) + u
  OBVIOUS
<1>2. l + p - 1 \in Nat
  OBVIOUS
<1>3. PICK c : c = (l + p - 1) \div p
  OBVIOUS
<1>4. c \in Nat /\ p * c <= l + p - 1 /\ l + p - 1 < p * c + p
  BY <1>1, <1>2, <1>3
<1>5. p * c \in Nat /\ c * p = p * c /\ (c - 1) * p = p * c - p
  BY <1>4
<1>6. c # 0
  BY <1>4
<1> QED BY <1>3, <1>4, <1>5, <1>6

(* The lengths of the parts add up to the length of the source *)
LEMMA PartsAddUp ==
    ASSUME NEW l \in Nat \ {0}, NEW p \in Nat \ {0}, NEW c \in Nat \ {0},
           (c - 1) * p < l, l <= c * p,
           NEW f, \A i \in 1..c : f[i] = IF i = c THEN l - (c - 1) * p ELSE p
    PROVE  Sum(f, 1..c) = l
<1>1. \A i \in 1..c : f[i] \in Nat
  <2>1. (c - 1) * p \in Int
    OBVIOUS
  <2> QED BY <2>1
<1>2. \A k \in 0..c : IsFiniteSet(1..k)
  BY FS_Interval
<1>3. ASSUME NEW k \in 1..c PROVE Sum(f, 1..k) = f[k] + Sum(f, 1..(k - 1))
  <2>1. IsFiniteSet(1..k) /\ k \in 1..k /\ (1..k) \ {k} = 1..(k - 1) /\ \A i \in 1..k : f[i] \in Nat
    BY <1>1, <1>2
  <2> QED BY <2>1, SumWithout
<1> DEFINE C == {k \in 0..(c - 1) : Sum(f, 1..k) # k * p}
<1>4. C = {}
  <2> SUFFICES ASSUME C # {} PROVE FALSE
    OBVIOUS
  <2>1. C \in SUBSET Nat
    OBVIOUS
  <2>2. PICK k \in C : \A j \in C : k <= j
    <3> HIDE DEF C
    <3> QED BY <2>1, LeastNumber
  <2>3. k \in 0..(c - 1) /\ Sum(f, 1..k) # k * p
    OBVIOUS
  <2>4. k # 0
    <3>1. 1..0 = {}
      OBVIOUS
    <3> QED BY <2>3, <3>1, SumEmpty
  <2>5. k - 1 \notin C /\ k - 1 \in 0..(c - 1) /\ k \in 1..c /\ k # c
    BY <2>2, <2>3, <2>4
  <2>6. Sum(f, 1..(k - 1)) = (k - 1) * p
    BY <2>5
  <2>7. Sum(f, 1..k) = p + (k - 1) * p
    BY <1>3, <2>5, <2>6
  <2>8. \A a, b \in Int : b + (a - 1) * b = a * b
    OBVIOUS
  <2> QED BY <2>3, <2>7, <2>8
<1>5. Sum(f, 1..(c - 1)) = (c - 1) * p
  <2>1. c - 1 \in 0..(c - 1)
    OBVIOUS
  <2> QED BY <1>4, <2>1
<1>6. c \in 1..c /\ f[c] = l - (c - 1) * p
  OBVIOUS
<1>7. PICK m \in Int : m = (c - 1) * p
  OBVIOUS
<1> QED BY <1>3, <1>5, <1>6, <1>7

LEMMA TransferConstants ==
    /\ MinPart \in Nat \ {0} /\ MaxParts \in Nat /\ MaxLength \in Nat /\ ByteCap \in Nat
    /\ \A size \in PartSizes : size \in Nat
    /\ \A size \in PartSizes : size >= MinPart => MaxLength <= MaxParts * size
  BY ServicesAssumption DEF Transfer!LayoutAssumption

LEMMA SmallerLength ==
    ASSUME NEW a \in Int, NEW b \in Int
    PROVE  Transfer!Min({a, b}) = IF a <= b THEN a ELSE b
<1>1. \E x \in {a, b} : \A y \in {a, b} : x <= y
  OBVIOUS
<1> QED BY <1>1 DEF Transfer!Min

Sources == length \in 1..MaxLength /\ partSize \in PartSizes /\ partSize >= MinPart

Count == Transfer!CeilDiv(length, partSize)

(* The parts of a source: what expected_part_length answers *)
LEMMA Layout ==
    ASSUME Sources
    PROVE  /\ length \in Nat \ {0} /\ partSize \in Nat \ {0} /\ Count \in Nat \ {0}
           /\ (Count - 1) * partSize < length /\ length <= Count * partSize
           /\ Count <= MaxParts
           /\ \A n \in 1..Count : Transfer!expected_part_length(n) =
                IF n = Count THEN length - (Count - 1) * partSize ELSE partSize
           /\ \A n \in Transfer!Numbers : Transfer!expected_part_length(n) \in Nat
<1>1. length \in Nat \ {0} /\ partSize \in Nat \ {0} /\ length <= MaxLength
  BY TransferConstants DEF Sources
<1>2. PICK l \in Nat \ {0}, p \in Nat \ {0} : l = length /\ p = partSize
  BY <1>1
<1>3. PICK c : c = (l + p - 1) \div p
  OBVIOUS
<1>4. c = Count
  BY <1>2, <1>3 DEF Count, Transfer!CeilDiv
<1>5. c \in Nat \ {0} /\ (c - 1) * p < l /\ l <= c * p
  BY <1>3, Quotient
<1>6. c <= MaxParts
  <2>1. l <= MaxParts * p
    <3>1. MaxLength <= MaxParts * p
      BY <1>2, TransferConstants DEF Sources
    <3>2. MaxParts * p \in Nat
      BY TransferConstants
    <3> QED BY <1>1, <1>2, <3>1, <3>2, TransferConstants
  <2>2. (c - 1) * p < MaxParts * p
    <3>1. (c - 1) * p \in Int /\ MaxParts * p \in Int
      BY <1>5, TransferConstants
    <3> QED BY <1>5, <2>1, <3>1
  <2>3. \A a, b \in Int : a * p < b * p => a < b
    OBVIOUS
  <2>4. c - 1 < MaxParts
    BY <1>5, <2>2, <2>3, TransferConstants
  <2> QED BY <1>5, <2>4, TransferConstants
<1>7. ASSUME NEW n \in 1..c
      PROVE  Transfer!expected_part_length(n) = IF n = c THEN l - (c - 1) * p ELSE p
  <2>1. n \in Nat \ {0} /\ n <= MaxParts
    BY <1>5, <1>6, TransferConstants
  <2>2. \A a, b \in Int : a <= b => a * p <= b * p
    OBVIOUS
  <2>3. (n - 1) * p <= (c - 1) * p /\ (n - 1) * p \in Int /\ (c - 1) * p \in Int
    BY <1>5, <2>1, <2>2
  <2>4. (n - 1) * p < l
    BY <1>5, <2>3
  <2>5. Transfer!expected_part_length(n) = Transfer!Min({l - (n - 1) * p, p})
    BY <1>2, <2>1, <2>3, <2>4, TransferConstants DEF Transfer!expected_part_length
  <2>6. Transfer!expected_part_length(n) = IF l - (n - 1) * p <= p THEN l - (n - 1) * p ELSE p
    BY <2>3, <2>5, SmallerLength
  <2>7. CASE n = c
    <3>1. c * p = (c - 1) * p + p
      BY <1>5
    <3>2. l - (c - 1) * p <= p
      BY <1>5, <2>3, <3>1
    <3> QED BY <2>6, <2>7, <3>2
  <2>8. CASE n # c
    <3>1. n <= c - 1 /\ n * p = (n - 1) * p + p
      BY <1>5, <2>1, <2>8
    <3>2. n * p <= (c - 1) * p
      BY <1>5, <2>1, <2>2, <3>1
    <3>3. l - (n - 1) * p > p
      BY <1>5, <2>3, <3>1, <3>2
    <3> QED BY <2>6, <2>8, <3>3, <2>3
  <2> QED BY <2>7, <2>8
<1>8. ASSUME NEW n \in Transfer!Numbers PROVE Transfer!expected_part_length(n) \in Nat
  <2>1. n \in Nat /\ (n - 1) * p \in Int
    BY TransferConstants DEF Transfer!Numbers
  <2>2. Transfer!Min({l - (n - 1) * p, p}) = IF l - (n - 1) * p <= p THEN l - (n - 1) * p ELSE p
    BY <2>1, SmallerLength
  <2>3. PICK m \in Int : m = (n - 1) * p
    BY <2>1
  <2>4. m < l => Transfer!Min({l - (n - 1) * p, p}) \in Nat
    BY <2>2, <2>3
  <2> QED BY <1>2, <2>3, <2>4 DEF Transfer!expected_part_length
<1> QED BY <1>1, <1>2, <1>4, <1>5, <1>6, <1>7, <1>8

CopyStates == {"none", "open", "mismatch", "complete"}

TransferTypeOK ==
    /\ Sources
    /\ signed \in SUBSET (Transfer!Numbers \X Nat)
    /\ held \in [Transfer!Numbers -> Nat]
    /\ stored \in Nat
    /\ copied \in [state : CopyStates, length : Nat]

(* A URL is signed for the length of its part, and the provider takes no other *)
SignedLengths == \A url \in signed : url[2] = Transfer!expected_part_length(url[1])

HeldLengths == \A n \in Transfer!Numbers : held[n] \in {0, Transfer!expected_part_length(n)}

TransferInv ==
    /\ TransferTypeOK /\ SignedLengths /\ HeldLengths
    /\ Transfer!StoredAsReserved /\ Transfer!CopyIsWhole

LEMMA LayoutSame ==
    ASSUME UNCHANGED <<length, partSize>>, NEW n
    PROVE  Transfer!expected_part_length(n)' = Transfer!expected_part_length(n)
  BY DEF Transfer!expected_part_length

LEMMA TransferInit == Transfer!Init => TransferInv
<1> SUFFICES ASSUME Transfer!Init PROVE TransferInv
  OBVIOUS
<1> USE DEF Transfer!Init
<1>1. TransferTypeOK
  BY DEF TransferTypeOK, Sources, CopyStates, Transfer!NoFile
<1>2. SignedLengths /\ HeldLengths
  BY DEF SignedLengths, HeldLengths
<1> QED BY <1>1, <1>2 DEF TransferInv, Transfer!StoredAsReserved, Transfer!CopyIsWhole, Transfer!NoFile

(* The sum the provider computes *)
LEMMA AssembledIsSum ==
    ASSUME NEW list, IsFiniteSet(DOMAIN list), NEW f, \A i \in DOMAIN list : f[i] \in Nat,
           \A i \in DOMAIN list : f[i] = held[list[i]]
    PROVE  Transfer!Assembled(list) = Sum(f, DOMAIN list)
<1> DEFINE D == DOMAIN list
           Q(it) == it = [s \in SUBSET D |-> IF s = {} THEN 0 ELSE
                            held[list[CHOOSE x \in s : TRUE]] + it[s \ {CHOOSE x \in s : TRUE}]]
<1>1. Transfer!Assembled(list) = (CHOOSE it : Q(it))[D]
  BY DEF Transfer!Assembled, Transfer!FoldSet, Transfer!MapThenFoldSet
<1>3. \A it : Q(it) <=> IsFold(it, f, D)
  BY DEF IsFold
<1>4. Q([s \in SUBSET D |-> Sum(f, s)])
  BY <1>3, FoldExists
<1>5. Q(CHOOSE it : Q(it))
  <2> HIDE DEF Q
  <2> QED BY <1>4
<1>6. (CHOOSE it : Q(it))[D] = Sum(f, D)
  <2> HIDE DEF Q
  <2> QED BY <1>3, <1>5, FoldIsSum
<1> QED BY <1>1, <1>6

LEMMA AssembledWhole ==
    ASSUME TransferInv, NEW list, Transfer!CompleteMultipart(list)
    PROVE  stored' = length
<1>1. /\ list = [i \in 1..Count |-> i] /\ \A i \in DOMAIN list : held[list[i]] > 0
      /\ stored' = Transfer!Assembled(list)
  BY DEF Transfer!CompleteMultipart, Transfer!validate_completion, Count
<1>2. PICK c \in Nat \ {0} : c = Count
  BY Layout DEF TransferInv, TransferTypeOK
<1>3. PICK l \in Nat \ {0}, p \in Nat \ {0} : l = length /\ p = partSize
  BY Layout DEF TransferInv, TransferTypeOK
<1>4. /\ (c - 1) * p < l /\ l <= c * p /\ c <= MaxParts
      /\ \A n \in 1..c : Transfer!expected_part_length(n) = IF n = c THEN l - (c - 1) * p ELSE p
  BY <1>2, <1>3, Layout DEF TransferInv, TransferTypeOK
<1>5. DOMAIN list = 1..c /\ \A i \in 1..c : list[i] = i
  BY <1>1, <1>2
<1>6. \A i \in 1..c : i \in Transfer!Numbers
  BY <1>2, <1>4, TransferConstants DEF Transfer!Numbers
<1>7. ASSUME NEW i \in 1..c PROVE held[i] = Transfer!expected_part_length(i) /\ held[i] \in Nat
  <2>1. held[i] > 0
    BY <1>1, <1>5
  <2>2. i \in Transfer!Numbers
    BY <1>6
  <2>3. held[i] \in Nat /\ held[i] \in {0, Transfer!expected_part_length(i)}
    BY <2>2 DEF TransferInv, HeldLengths, TransferTypeOK
  <2> QED BY <2>1, <2>3
<1>8. PICK f : f = held
  OBVIOUS
<1>9. \A i \in 1..c : f[i] = IF i = c THEN l - (c - 1) * p ELSE p
  BY <1>4, <1>7, <1>8
<1>10. Sum(f, 1..c) = l
  BY <1>4, <1>9, PartsAddUp
<1>11. IsFiniteSet(1..c)
  BY FS_Interval
<1>12. stored' = Sum(f, 1..c)
  BY <1>1, <1>5, <1>7, <1>8, <1>11, AssembledIsSum
<1> QED BY <1>3, <1>10, <1>12

LEMMA TransferStep == TransferInv /\ [Transfer!Next]_(Transfer!vars) => TransferInv'
<1> SUFFICES ASSUME TransferInv, [Transfer!Next]_(Transfer!vars) PROVE TransferInv'
  OBVIOUS
<1>0. /\ UNCHANGED <<length, partSize>>
      /\ TransferTypeOK /\ SignedLengths /\ HeldLengths
      /\ Transfer!StoredAsReserved /\ Transfer!CopyIsWhole
  BY DEF TransferInv, Transfer!Next, Transfer!vars, Transfer!PresignPart, Transfer!SendPart,
    Transfer!CompleteMultipart, Transfer!OpenDownload, Transfer!StreamChunk
<1>00. length \in Nat \ {0} /\ Sources' /\ \A n : Transfer!expected_part_length(n)' = Transfer!expected_part_length(n)
  BY <1>0, Layout, LayoutSame DEF Sources, TransferTypeOK
<1> USE DEF TransferTypeOK, SignedLengths, HeldLengths, Transfer!StoredAsReserved,
      Transfer!CopyIsWhole
<1>1. ASSUME NEW n \in Transfer!Numbers, NEW len \in 1..MaxLength, Transfer!PresignPart(n, len)
      PROVE  TransferInv'
  <2>1. /\ Transfer!expected_part_length(n) = len /\ signed' = signed \cup {<<n, len>>}
        /\ UNCHANGED <<held, stored, copied>> /\ len \in Nat
    BY <1>1, TransferConstants DEF Transfer!PresignPart
  <2>2. SignedLengths'
    BY <1>0, <1>00, <2>1
  <2>3. HeldLengths'
    BY <1>0, <1>00, <2>1
  <2>4. TransferTypeOK'
    BY <1>0, <1>00, <2>1
  <2> QED BY <1>0, <2>1, <2>2, <2>3, <2>4 DEF TransferInv
<1>2. ASSUME NEW url \in signed, Transfer!SendPart(url) PROVE TransferInv'
  <2>1. held' = [held EXCEPT ![url[1]] = url[2]] /\ UNCHANGED <<signed, stored, copied>>
    BY <1>2 DEF Transfer!SendPart
  <2>2. /\ url[1] \in Transfer!Numbers /\ url[2] \in Nat
        /\ url[2] = Transfer!expected_part_length(url[1])
    BY <1>0
  <2>3. PICK n \in Transfer!Numbers, len \in Nat : n = url[1] /\ len = url[2]
    BY <2>2
  <2>4. held' = [held EXCEPT ![n] = len] /\ len = Transfer!expected_part_length(n)
    BY <2>1, <2>2, <2>3
  <2>5. TransferTypeOK'
    BY <1>0, <1>00, <2>1, <2>4
  <2>6. HeldLengths'
    BY <1>0, <1>00, <2>4
  <2>7. SignedLengths'
    BY <1>0, <1>00, <2>1
  <2> QED BY <1>0, <2>1, <2>5, <2>6, <2>7 DEF TransferInv
<1>3. ASSUME NEW list, Transfer!CompleteMultipart(list) PROVE TransferInv'
  <2>1. stored' = length /\ UNCHANGED <<signed, held, copied>>
    BY <1>3, AssembledWhole DEF Transfer!CompleteMultipart
  <2>2. TransferTypeOK' /\ HeldLengths' /\ SignedLengths'
    BY <1>0, <1>00, <2>1
  <2> QED BY <1>0, <2>1, <2>2 DEF TransferInv
<1>4. CASE Transfer!OpenDownload
  <2>1. copied' = [state |-> "open", length |-> 0] /\ UNCHANGED <<signed, held, stored>>
    BY <1>0, <1>4 DEF Transfer!OpenDownload
  <2>2. TransferTypeOK' /\ HeldLengths' /\ SignedLengths'
    BY <1>0, <1>00, <2>1 DEF CopyStates
  <2> QED BY <1>0, <2>1, <2>2 DEF TransferInv
<1>5. ASSUME NEW n \in 0..MaxLength, Transfer!StreamChunk(n) PROVE TransferInv'
  <2>1. /\ copied.state = "open" /\ UNCHANGED <<signed, held, stored>>
        /\ \/ copied' = Transfer!NoFile
           \/ copied' = [copied EXCEPT !.length = @ + n]
           \/ copied.length = length /\ copied' = [copied EXCEPT !.state = "complete"]
    BY <1>5 DEF Transfer!StreamChunk
  <2>2. PICK s \in CopyStates, k \in Nat : copied' = [state |-> s, length |-> k]
                                           /\ s # "mismatch" /\ (s = "complete" => k = length)
    <3>1. CASE copied' = Transfer!NoFile
      BY <3>1 DEF Transfer!NoFile, CopyStates
    <3>2. CASE copied' = [copied EXCEPT !.length = @ + n]
      <4>1. copied' = [state |-> "open", length |-> copied.length + n]
        BY <1>0, <2>1, <3>2
      <4>2. copied.length + n \in Nat
        BY <1>0, TransferConstants
      <4> QED BY <4>1, <4>2 DEF CopyStates
    <3>3. CASE copied.length = length /\ copied' = [copied EXCEPT !.state = "complete"]
      <4>1. copied' = [state |-> "complete", length |-> copied.length]
        BY <1>0, <3>3
      <4> QED BY <1>0, <3>3, <4>1 DEF CopyStates
    <3> QED BY <2>1, <3>1, <3>2, <3>3
  <2>3. TransferTypeOK' /\ HeldLengths' /\ SignedLengths'
    BY <1>0, <1>00, <2>1, <2>2
  <2> QED BY <1>0, <2>1, <2>2, <2>3 DEF TransferInv
<1>6. CASE UNCHANGED Transfer!vars
  <2>1. UNCHANGED <<signed, held, stored, copied>>
    BY <1>6 DEF Transfer!vars
  <2>2. TransferTypeOK' /\ HeldLengths' /\ SignedLengths'
    BY <1>0, <1>00, <2>1
  <2> QED BY <1>0, <2>1, <2>2 DEF TransferInv
<1> QED BY <1>1, <1>2, <1>3, <1>4, <1>5, <1>6 DEF Transfer!Next

(* Every part of the layout is there: the list validate_completion asks for is taken *)
LEMMA LayoutIsTaken == TransferInv => Transfer!LayoutCompletes
<1> SUFFICES ASSUME TransferInv,
                    \A n \in 1..MaxParts : Transfer!expected_part_length(n) > 0 => held[n] > 0
             PROVE  /\ Transfer!validate_completed_parts(Transfer!FullList)
                    /\ \A i \in DOMAIN Transfer!FullList :
                         held[i] >= IF i < Len(Transfer!FullList) THEN MinPart ELSE 1
  BY DEF Transfer!LayoutCompletes
<1>1. PICK c \in Nat \ {0} : c = Count
  BY Layout DEF TransferInv, TransferTypeOK
<1>2. PICK l \in Nat \ {0}, p \in Nat \ {0} : l = length /\ p = partSize /\ p >= MinPart
  BY Layout DEF TransferInv, TransferTypeOK, Sources
<1>3. /\ (c - 1) * p < l /\ l <= c * p /\ c <= MaxParts
      /\ \A n \in 1..c : Transfer!expected_part_length(n) = IF n = c THEN l - (c - 1) * p ELSE p
  BY <1>1, <1>2, Layout DEF TransferInv, TransferTypeOK
<1>4. PICK list : list = Transfer!FullList
  OBVIOUS
<1>5. list = [i \in 1..c |-> i]
  BY <1>1, <1>4 DEF Transfer!FullList, Count
<1>6. list \in Seq(Nat) /\ Len(list) = c /\ DOMAIN list = 1..c /\ \A i \in 1..c : list[i] = i
  BY <1>5
<1>7. \A i \in 1..c : i \in 1..MaxParts /\ i \in Transfer!Numbers
  BY <1>1, <1>3, TransferConstants DEF Transfer!Numbers
<1>8. ASSUME NEW i \in 1..c PROVE held[i] >= IF i < c THEN MinPart ELSE 1
  <2>1. PICK m \in Int : m = (c - 1) * p
    OBVIOUS
  <2>2. Transfer!expected_part_length(i) = IF i = c THEN l - m ELSE p
    BY <1>3, <2>1
  <2>3. Transfer!expected_part_length(i) > 0
    BY <1>3, <2>1, <2>2
  <2>4. held[i] > 0
    BY <1>7, <2>3
  <2>5. held[i] = Transfer!expected_part_length(i) /\ held[i] \in Nat
    BY <1>7, <2>4 DEF TransferInv, HeldLengths, TransferTypeOK
  <2> QED BY <1>2, <2>2, <2>4, <2>5
<1>9. Transfer!validate_completed_parts(list)
  BY <1>3, <1>6, TransferConstants DEF Transfer!validate_completed_parts
<1> QED BY <1>4, <1>6, <1>8, <1>9

TransferPartInv == part = "transfer" => TransferInv

LEMMA TransferPart == Spec => []TransferPartInv
<1>1. Init => TransferPartInv
  BY TransferInit DEF Init, Chosen, TransferPartInv
<1>2. TransferPartInv /\ [Next]_v => TransferPartInv'
  <2> SUFFICES ASSUME part = "transfer" => TransferInv, [Next]_v, part' = "transfer"
               PROVE  TransferInv'
    BY DEF TransferPartInv
  <2>1. part = "transfer" /\ [Transfer!Next]_(Transfer!vars)
    BY DEF Next, v, transfer, Transfer!vars, Reserve, Send, Serve, Probe, Decode, Decide, Admit,
      Publish
  <2> QED BY <2>1, TransferStep
<1> QED BY <1>1, <1>2, PTL DEF Spec

(* MultipartTransfer: for every source length and every part size whose layout fits, in
   whatever order and however often the parts are sent, the assembled object has the
   reserved length, a complete copy is the whole source, and a layout that has arrived is
   one the provider takes. *)
THEOREM LengthsAreExact == Spec => []TransferExact
<1>1. TransferPartInv => TransferExact
  BY LayoutIsTaken DEF TransferExact, Transfer!TransferExact, TransferPartInv, TransferInv
<1> QED BY <1>1, TransferPart, PTL
=============================================================================
