-------------------------- MODULE AccountTagsProofs --------------------------
(***************************************************************************)
(* What the versioned writes guarantee while an account exists (OpenSpec): *)
(* no service loses another one's tags, nothing but a restore or a         *)
(* versioned write ends a deletion wait, and the tag limit is passed only  *)
(* by an update counted on a read that lagged.                             *)
(***************************************************************************)
EXTENDS AccountSettingsProofs, FiniteSetTheorems

LEMMA Successor ==
  ASSUME NEW m \in Nat, NEW n \in 0..m
  PROVE  n \in Nat /\ n + 1 > n /\ (n < m => n + 1 \in 0..m)
  OBVIOUS

LEMMA SameIsAtMost ==
  ASSUME NEW n \in Nat, NEW m, m = n
  PROVE  m <= n
  OBVIOUS

USE NoRowAssumption, BoundsAssumption

(* The count the limit check computes before the write is the size of the  *)
(* set the write leaves, for the requests DynamoDB accepts: those that     *)
(* only add or only remove.                                                *)
LEMMA ExpectedCountExact ==
  ASSUME NEW current \in SUBSET Tags, NEW add \in SUBSET Tags,
         NEW remove \in SUBSET Tags,
         (add = {}) # (remove = {})
  PROVE  Cardinality((current \cup add) \ remove)
            = expectedTagCount(current, add, remove)
  <1>1. IsFiniteSet(current) /\ IsFiniteSet(add)
    BY FS_Subset, TagsAssumption
  <1>2. CASE add = {}
    <2>1. /\ (current \cup add) \ remove = current \ remove
          /\ add \ current = {}
      BY <1>2
    <2>2. Cardinality(add \ current) = 0
      BY <2>1, FS_EmptySet
    <2>3. Cardinality(current \ remove) \in Nat
      BY <1>1, FS_Difference, FS_CardinalityType
    <2>4. Cardinality((current \cup add) \ remove)
             = Cardinality(current \ remove)
      BY <2>1
    <2>5. expectedTagCount(current, add, remove)
             = Cardinality(current \ remove) + 0
      BY <2>2 DEF expectedTagCount
    <2> QED
      BY <2>3, <2>4, <2>5
  <1>3. CASE remove = {}
    <2>1. /\ (current \cup add) \ remove = current \cup (add \ current)
          /\ current \ remove = current
          /\ current \cap (add \ current) = {}
      BY <1>3
    <2>2. IsFiniteSet(add \ current)
      BY <1>1, FS_Difference
    <2>3. Cardinality(current \cap (add \ current)) = 0
      BY <2>1, FS_EmptySet
    <2>4. /\ Cardinality(current) \in Nat
          /\ Cardinality(add \ current) \in Nat
      BY <1>1, <2>2, FS_CardinalityType
    <2>5. Cardinality(current \cup (add \ current)) =
             Cardinality(current) + Cardinality(add \ current)
               - Cardinality(current \cap (add \ current))
      BY <1>1, <2>2, FS_Union
    <2>6. Cardinality((current \cup add) \ remove)
             = Cardinality(current \cup (add \ current))
      BY <2>1
    <2>7. expectedTagCount(current, add, remove)
             = Cardinality(current) + Cardinality(add \ current)
      BY <2>1 DEF expectedTagCount
    <2> QED
      BY <2>3, <2>4, <2>5, <2>6, <2>7
  <1> QED
    BY <1>2, <1>3

------------------------------------------------------------------------------
(* While the account exists                                                *)

(* The row is there for every read, so no request ever creates defaults;   *)
(* versions only grow, so the current one is the highest ever shown; and a *)
(* request about to write tags passed the namespace check.                 *)
OpenInv ==
    /\ TypeOK
    /\ settings # NoRow
    /\ lagged.settings # NoRow
    /\ issued = settings.version
    /\ \A r \in Requests :
         /\ calls[r].step \in {"idle", "mutate tags", "commit restore"}
         /\ calls[r].step = "mutate tags" =>
               /\ calls[r].service \in Service
               /\ InNamespace(calls[r].service, calls[r].add \cup calls[r].remove)

LEMMA OpenInitially == InitOpen => OpenInv
  <1> SUFFICES ASSUME InitOpen PROVE OpenInv
    OBVIOUS
  <1>1. settings # NoRow /\ lagged.settings # NoRow /\ settings.version = issued
    BY DefaultRowType DEF InitOpen, DefaultRow
  <1>2. \A r \in Requests : calls[r].step = "idle"
    BY DEF InitOpen, Idle
  <1> QED
    BY <1>1, <1>2, InitType DEF OpenInv

(* The three kinds of step an existing account sees: none of the row's     *)
(* business, a versioned write, or a change of status alone.               *)
SameVersionAndTags ==
    /\ settings' # NoRow
    /\ settings'.tags = settings.tags
    /\ settings'.version = settings.version
    /\ UNCHANGED issued

Raised ==
    /\ settings' # NoRow
    /\ settings'.version = settings.version + 1
    /\ issued' = settings'.version

LEMMA WritesOpen ==
  ASSUME OpenInv, Writes
  PROVE  /\ SameVersionAndTags \/ (Raised /\ settings'.tags = settings.tags)
         /\ UNCHANGED <<calls, lagged>>
  <1> USE DEF OpenInv
  <1>1. settings \in Row /\ settings.version \in 0..MaxVersion
    BY DEF TypeOK, Row
  <1>2. CASE SoftDeleteCustomer
    <2>1. settings' = [settings EXCEPT !.status = "pending_deletion",
                                       !.changedAt = clock]
      BY <1>2 DEF SoftDeleteCustomer
    <2>2. settings' \in Row
      BY <1>1, <2>1 DEF Row, Status, TypeOK
    <2> QED
      BY <1>1, <1>2, <2>1, <2>2 DEF SoftDeleteCustomer, SameVersionAndTags, Row
  <1>3. ASSUME NEW svc \in Service, NEW v \in Shown,
               NEW st \in Status \cup {KeepStatus},
               UpdateSettings(svc, v, st)
        PROVE  /\ Raised /\ settings'.tags = settings.tags
               /\ UNCHANGED <<calls, lagged>>
    <2>0. settings.version = v /\ v < MaxVersion
      BY <1>3 DEF UpdateSettings, VersionMatches
    <2>1. v \in Nat /\ v + 1 \in 0..MaxVersion /\ v + 1 > v
      BY <2>0, <1>1, Successor
    <2>2. settings' \in Row \cup {NoRow}
      BY <1>3, WritesType DEF Writes, TypeOK
    <2>3. settings'.version = v + 1 /\ settings'.tags = settings.tags
      BY <1>1, <1>3 DEF UpdateSettings, Row
    <2>4. settings' # NoRow
      <3>2. settings' \in Row
        BY <1>1, <1>3, <2>1
        DEF UpdateSettings, KeepStatus, TypeOK, Row, Status, Time
      <3> QED
        BY <3>2
    <2>5. issued' = v + 1
      <3>1. issued = v
        BY <2>0
      <3> QED
        BY <1>3, <2>1, <3>1 DEF UpdateSettings
    <2> QED
      BY <1>3, <2>0, <2>3, <2>4, <2>5 DEF UpdateSettings, Raised
  <1> QED
    BY <1>2, <1>3 DEF Writes

LEMMA MutateTagsOpen ==
  ASSUME OpenInv, NEW r \in Requests, MutateTags(r)
  PROVE  \/ /\ ~TagWriteAccepted(calls[r])
            /\ UNCHANGED <<settings, issued>>
         \/ /\ TagWriteAccepted(calls[r])
            /\ calls[r].version = settings.version
            /\ settings'.tags =
                 (settings.tags \cup calls[r].add) \ calls[r].remove
            /\ settings'.status = settings.status
            /\ Raised
  <1> USE DEF OpenInv
  <1>1. CASE ~TagWriteAccepted(calls[r])
    BY <1>1 DEF MutateTags
  <1>2. CASE TagWriteAccepted(calls[r])
    <2>1. settings \in Row /\ calls[r].version = settings.version
      BY <1>2 DEF TagWriteAccepted, VersionMatches, TypeOK
    <2>2. settings' = [settings EXCEPT
                !.tags = (@ \cup calls[r].add) \ calls[r].remove,
                !.version = calls[r].version + 1]
      BY <1>2 DEF MutateTags
    <2>3. /\ settings'.tags =
                (settings.tags \cup calls[r].add) \ calls[r].remove
          /\ settings'.status = settings.status
          /\ settings'.version = settings.version + 1
      BY <2>1, <2>2 DEF Row
    <2>4. /\ settings.version + 1 \in 0..MaxVersion
          /\ (settings.tags \cup calls[r].add) \ calls[r].remove \in SUBSET Tags
      BY <2>1, CallType DEF Row
    <2>5. settings' \in Row
      BY <2>1, <2>2, <2>4 DEF Row
    <2>6. issued' = settings.version + 1
      <3>1. settings.version + 1 > settings.version
        <4>1. settings.version \in 0..MaxVersion
          BY <2>1 DEF Row
        <4> QED
          BY <4>1, Successor
      <3>2. issued = settings.version
        OBVIOUS
      <3> QED
        BY <1>2, <2>1, <3>1, <3>2 DEF MutateTags
    <2> QED
      BY <1>2, <2>1, <2>3, <2>5, <2>6 DEF Raised
  <1> QED
    BY <1>1, <1>2

LEMMA FinishOpen ==
  ASSUME OpenInv, NEW r \in Requests, Finish(r)
  PROVE  /\ calls'[r] = Idle
         /\ \A q \in Requests \ {r} : calls'[q] = calls[q]
         /\ UNCHANGED lagged
         /\ MutateTags(r) \/ SameVersionAndTags
  <1> USE DEF OpenInv
  <1>1. MutateTags(r) \/ CommitRestore(r) \/ Abandon(r)
    BY DEF Finish, InitTags, EraseItems, PutProfile
  <1>2. CASE MutateTags(r)
    BY <1>2 DEF MutateTags, Done, TypeOK
  <1>3. CASE CommitRestore(r)
    <2>1. settings \in Row
      BY DEF TypeOK
    <2>2. CASE StillPending
      <3>1. settings' = [settings EXCEPT !.status = "active",
                                         !.changedAt = NoTime]
        BY <1>3, <2>2 DEF CommitRestore
      <3>2. settings' \in Row
        BY <2>1, <3>1 DEF Row, Status
      <3> QED
        BY <1>3, <2>1, <3>1, <3>2
        DEF CommitRestore, Done, TypeOK, SameVersionAndTags, Row
    <2>3. CASE ~StillPending
      BY <1>3, <2>3 DEF CommitRestore, Done, TypeOK, SameVersionAndTags
    <2> QED
      BY <2>2, <2>3
  <1>4. CASE Abandon(r)
    BY <1>4 DEF Abandon, Done, TypeOK, SameVersionAndTags
  <1> QED
    BY <1>1, <1>2, <1>3, <1>4

LEMMA ReadableSettings ==
  ASSUME NEW read \in Readable
  PROVE  read.settings \in {settings, lagged.settings}
  <1>1. CASE read = [profile |-> profile, settings |-> settings]
    BY <1>1
  <1>2. CASE read = lagged
    BY <1>2
  <1> QED
    BY <1>1, <1>2 DEF Readable

LEMMA BeginTagsOpen ==
  ASSUME OpenInv, NEW r \in Requests, NEW svc \in Service, NEW v \in Shown,
         NEW add \in SUBSET Tags, NEW remove \in SUBSET Tags,
         BeginTags(r, svc, v, add, remove)
  PROVE  /\ calls'[r].step = "mutate tags"
         /\ calls'[r].service = svc
         /\ calls'[r].version = v
         /\ calls'[r].add = add
         /\ calls'[r].remove = remove
         /\ \A q \in Requests \ {r} : calls'[q] = calls[q]
         /\ InNamespace(svc, add \cup remove)
         /\ UNCHANGED <<settings, lagged, issued>>
         /\ calls'[r].counted =>
               \E row \in {settings, lagged.settings} :
                  /\ row.version = v
                  /\ expectedTagCount(row.tags, add, remove) <= MaxTags
  <1> USE DEF OpenInv
  <1> DEFINE found(read) ==
                 [Idle EXCEPT !.step = "mutate tags", !.service = svc,
                    !.version = v, !.add = add, !.remove = remove,
                    !.counted = (read.settings.version = v)]
  <1>1. PICK read \in Readable :
           \/ read.settings = NoRow
           \/ /\ expectedTagCount(read.settings.tags, add, remove) <= MaxTags
              /\ calls' = [calls EXCEPT ![r] = found(read)]
    BY DEF BeginTags
  <1>2. read.settings \in {settings, lagged.settings}
    BY ReadableSettings
  <1>3. read.settings # NoRow
    BY <1>2
  <1>4. /\ found(read).step = "mutate tags" /\ found(read).service = svc
        /\ found(read).version = v
        /\ found(read).add = add /\ found(read).remove = remove
        /\ found(read).counted = (read.settings.version = v)
    BY DEF Idle
  <1>5. calls' = [calls EXCEPT ![r] = found(read)]
    BY <1>1, <1>3
  <1> HIDE DEF found
  <1>6. calls'[r] = found(read) /\ \A q \in Requests \ {r} : calls'[q] = calls[q]
    BY <1>5 DEF TypeOK
  <1>7. InNamespace(svc, add \cup remove) /\ UNCHANGED <<settings, lagged, issued>>
    BY DEF BeginTags
  <1> QED
    BY <1>1, <1>2, <1>3, <1>4, <1>6, <1>7

LEMMA BeginRestoreOpen ==
  ASSUME OpenInv, NEW r \in Requests, BeginRestore(r)
  PROVE  /\ calls'[r].step = "commit restore"
         /\ \A q \in Requests \ {r} : calls'[q] = calls[q]
         /\ UNCHANGED <<settings, lagged, issued>>
  BY DEF BeginRestore, OpenInv, TypeOK, Idle

LEMMA IdleStep == Idle.step = "idle"
  BY DEF Idle

LEMMA OpenInductive == OpenInv /\ [NextOpen]_vars => OpenInv'
  <1> SUFFICES ASSUME OpenInv, [NextOpen]_vars PROVE OpenInv'
    OBVIOUS
  <1>0. TypeOK'
    BY NextType, NextOpenIsNext DEF OpenInv
  <1>a. ASSUME SameVersionAndTags \/ Raised
        PROVE  settings' # NoRow /\ issued' = settings'.version
    BY <1>a DEF SameVersionAndTags, Raised, OpenInv
  <1>1. CASE Writes
    <2>1. SameVersionAndTags \/ Raised
      BY <1>1, WritesOpen
    <2>2. UNCHANGED <<calls, lagged>>
      BY <1>1, WritesOpen
    <2> QED
      BY <2>1, <2>2, <1>0, <1>a DEF OpenInv
  <1>2. ASSUME NEW r \in Requests, Steps(r) PROVE OpenInv'
    <2>1. ASSUME NEW svc \in Service, NEW v \in Shown,
                 NEW add \in SUBSET Tags, NEW remove \in SUBSET Tags,
                 BeginTags(r, svc, v, add, remove)
          PROVE  OpenInv'
      <3>1. /\ calls'[r].step = "mutate tags"
            /\ calls'[r].service = svc
            /\ calls'[r].add = add
            /\ calls'[r].remove = remove
        BY <2>1, BeginTagsOpen
      <3>2. InNamespace(calls'[r].service, calls'[r].add \cup calls'[r].remove)
        <4>1. InNamespace(svc, add \cup remove)
          BY <2>1, BeginTagsOpen
        <4> QED
          BY <3>1, <4>1
      <3>3. \A q \in Requests \ {r} : calls'[q] = calls[q]
        BY <2>1, BeginTagsOpen
      <3>4. UNCHANGED <<settings, lagged, issued>>
        BY <2>1, BeginTagsOpen
      <3> QED
        BY <3>1, <3>2, <3>3, <3>4, <1>0 DEF OpenInv, InNamespace
    <2>2. CASE BeginRestore(r)
      <3>1. /\ calls'[r].step = "commit restore"
            /\ \A q \in Requests \ {r} : calls'[q] = calls[q]
            /\ UNCHANGED <<settings, lagged, issued>>
        BY <2>2, BeginRestoreOpen
      <3> QED
        BY <3>1, <1>0 DEF OpenInv, InNamespace
    <2>3. CASE Finish(r)
      <3>1. Idle.step = "idle"
        BY DEF Idle
      <3>2. SameVersionAndTags \/ Raised
        <4>1. settings # NoRow
          BY DEF OpenInv
        <4>2. CASE MutateTags(r)
          BY <4>1, <4>2, MutateTagsOpen DEF SameVersionAndTags
        <4> QED
          BY <2>3, <4>2, FinishOpen
      <3> QED
        <4>1. /\ calls'[r].step = "idle"
              /\ \A q \in Requests \ {r} : calls'[q] = calls[q]
              /\ UNCHANGED lagged
          BY <2>3, <3>1, FinishOpen
        <4> QED
          BY <4>1, <3>2, <1>0, <1>a DEF OpenInv, InNamespace
    <2> QED
      BY <1>2, <2>1, <2>2, <2>3 DEF Steps
  <1>3. CASE Replicate
    <2>1. /\ UNCHANGED <<settings, calls, issued>>
          /\ lagged'.settings = settings
      BY <1>3 DEF Replicate
    <2> QED
      BY <2>1, <1>0 DEF OpenInv, InNamespace
  <1>4. CASE Tick
    BY <1>4, <1>0 DEF Tick, OpenInv, InNamespace
  <1>5. CASE UNCHANGED vars
    BY <1>5, <1>0 DEF vars, OpenInv, InNamespace
  <1> QED
    BY <1>1, <1>2, <1>3, <1>4, <1>5 DEF NextOpen

(* A step that changes the row's tags is the tag write of one request.     *)
LEMMA TagsChangeOnlyByWrite ==
  ASSUME OpenInv, [NextOpen]_vars, TagsChanged # {}
  PROVE  \E r \in Requests :
            /\ calls'[r] = Idle
            /\ MutateTags(r) /\ TagWriteAccepted(calls[r])
  <1>1. settings.tags # settings'.tags
    BY DEF TagsChanged
  <1>2. ~Writes
    BY <1>1, WritesOpen DEF SameVersionAndTags
  <1>3. ~Replicate /\ ~Tick /\ ~UNCHANGED vars
    BY <1>1 DEF Replicate, Tick, vars
  <1>4. PICK r \in Requests : Steps(r)
    BY <1>2, <1>3 DEF NextOpen
  <1>5. Finish(r)
    BY <1>1, <1>4 DEF Steps, BeginTags, BeginRestore
  <1> QED
    BY <1>1, <1>5, FinishOpen, MutateTagsOpen DEF SameVersionAndTags

(* No service loses another one's tags, for any number of tag updates,     *)
(* settings updates, deletions and restores racing on an existing account, *)
(* and whatever earlier state its reads return.                            *)
THEOREM CrossServiceWritesAreKept == OpenSpec => CrossServiceWritesKept
  <1>1. OpenInv /\ [NextOpen]_vars =>
           [\A t \in TagsChanged : WrittenByOwner(t)]_vars
    <2> SUFFICES ASSUME OpenInv, [NextOpen]_vars, NEW t \in TagsChanged
                 PROVE  WrittenByOwner(t)
      OBVIOUS
    <2>1. PICK r \in Requests :
             /\ calls'[r] = Idle
             /\ MutateTags(r) /\ TagWriteAccepted(calls[r])
      BY TagsChangeOnlyByWrite
    <2>2. /\ calls[r].version = settings.version
          /\ settings'.tags =
                (settings.tags \cup calls[r].add) \ calls[r].remove
      BY <2>1, MutateTagsOpen
    <2>3. t \in calls[r].add \cup calls[r].remove
      BY <2>2 DEF TagsChanged
    <2>4. calls[r].step = "mutate tags" /\ calls'[r].step = "idle"
      BY <2>1, IdleStep DEF MutateTags
    <2>5. InNamespace(calls[r].service, calls[r].add \cup calls[r].remove)
      BY <2>4 DEF OpenInv
    <2>6. tagNamespaceMap[calls[r].service] = t.owner
      BY <2>3, <2>5 DEF InNamespace
    <2> QED
      BY <2>2, <2>4, <2>6 DEF WrittenByOwner
  <1> QED
    BY <1>1, OpenInitially, OpenInductive, PTL
    DEF OpenSpec, CrossServiceWritesKept

(* A deletion wait ends only by a restore or by a versioned write.         *)
THEOREM DeletionsAreNotCancelled == OpenSpec => DeletionNotCancelled
  <1>1. OpenInv /\ [NextOpen]_vars =>
           [LeavesPending =>
               \/ settings'.version = settings.version + 1
               \/ \E r \in Requests : RestoreTakesEffect(r)]_vars
    <2> SUFFICES ASSUME OpenInv, [NextOpen]_vars, LeavesPending,
                        settings'.version # settings.version + 1
                 PROVE  \E r \in Requests : RestoreTakesEffect(r)
      OBVIOUS
    <2>1. settings \in Row /\ settings.status # settings'.status
      BY DEF LeavesPending, StillPending, OpenInv, TypeOK
    <2>2. ~Writes
      <3>1. ~Raised
        BY DEF Raised
      <3>2. ~SoftDeleteCustomer
        BY <2>1 DEF SoftDeleteCustomer, LeavesPending, Row
      <3>3. ASSUME NEW svc \in Service, NEW v \in Shown,
                   NEW st \in Status \cup {KeepStatus},
                   UpdateSettings(svc, v, st)
            PROVE  FALSE
        BY <2>1, <3>3 DEF UpdateSettings, VersionMatches, Row
      <3> QED
        BY <3>2, <3>3 DEF Writes
    <2>3. ~Replicate /\ ~Tick /\ ~UNCHANGED vars
      BY <2>1 DEF Replicate, Tick, vars
    <2>4. PICK r \in Requests : Steps(r)
      BY <2>2, <2>3 DEF NextOpen
    <2>5. Finish(r)
      BY <2>1, <2>4 DEF Steps, BeginTags, BeginRestore
    <2>6. ~MutateTags(r)
      BY <2>1, MutateTagsOpen DEF Raised
    <2>7. ~Abandon(r)
      BY <2>1 DEF Abandon
    <2>8. CommitRestore(r)
      BY <2>5, <2>6, <2>7 DEF Finish, OpenInv, InitTags, EraseItems, PutProfile
    <2>9. calls'[r].step = "idle" /\ calls[r].step = "commit restore"
      BY <2>5, <2>8, FinishOpen, IdleStep DEF CommitRestore
    <2> QED
      BY <2>1, <2>9 DEF RestoreTakesEffect
  <1> QED
    BY <1>1, OpenInitially, OpenInductive, PTL DEF OpenSpec, DeletionNotCancelled

------------------------------------------------------------------------------
(* The tag limit                                                           *)

(* A lagging read returns an older version, or the tags of this one.  A    *)
(* request about to write whose tags were counted on the version it names  *)
(* either names a version that is gone, or fits the row as it is.          *)
TagInv ==
    /\ OpenInv
    /\ lagged.settings.version <= settings.version
    /\ lagged.settings.version = settings.version =>
          lagged.settings.tags = settings.tags
    /\ \A r \in Requests :
         calls[r].step = "mutate tags" /\ calls[r].counted =>
            /\ calls[r].version <= settings.version
            /\ calls[r].version = settings.version =>
                  expectedTagCount(settings.tags, calls[r].add,
                                   calls[r].remove) <= MaxTags

LEMMA TagInitially == InitOpen => TagInv
  <1> SUFFICES ASSUME InitOpen PROVE TagInv
    OBVIOUS
  <1>1. /\ lagged.settings.version = 0
        /\ settings.version = 0
        /\ lagged.settings.tags = settings.tags
    BY DEF InitOpen, DefaultRow
  <1>2. lagged.settings.version <= settings.version
    BY <1>1, SameIsAtMost
  <1>3. \A r \in Requests : calls[r].step # "mutate tags"
    BY DEF InitOpen, Idle
  <1> QED
    BY <1>1, <1>2, <1>3, OpenInitially DEF TagInv

LEMMA VersionsAreNat ==
  ASSUME OpenInv
  PROVE  /\ settings.version \in Nat
         /\ lagged.settings.version \in Nat
         /\ \A r \in Requests : calls[r].version \in Nat
  <1>1. settings \in Row /\ lagged.settings \in Row
    BY DEF OpenInv, TypeOK
  <1>2. settings.version \in 0..MaxVersion /\ lagged.settings.version \in 0..MaxVersion
    BY <1>1 DEF Row
  <1>3. settings.version \in Nat /\ lagged.settings.version \in Nat
    BY <1>2, Successor
  <1>4. \A r \in Requests : calls[r].version \in Nat
    BY CallType DEF OpenInv
  <1> QED
    BY <1>3, <1>4

(* After a versioned write every read that lags, and every request in      *)
(* flight, is of an older version.                                         *)
LEMMA OlderAfterRaise ==
  ASSUME TagInv, Raised, NEW v \in Nat, v <= settings.version
  PROVE  v <= settings'.version /\ v # settings'.version
  <1>1. settings.version \in Nat
    BY VersionsAreNat DEF TagInv
  <1>2. settings'.version = settings.version + 1
    BY DEF Raised
  <1> QED
    BY <1>1, <1>2

LEMMA TagInductive == TagInv /\ [NextOpen]_vars => TagInv'
  <1> SUFFICES ASSUME TagInv, [NextOpen]_vars PROVE TagInv'
    OBVIOUS
  <1>0. OpenInv /\ OpenInv'
    BY OpenInductive DEF TagInv
  <1>1. settings.version \in Nat
    BY <1>0, VersionsAreNat
  <1> DEFINE NoNewTags == \A q \in Requests :
                             calls'[q].step = "mutate tags" =>
                                calls'[q] = calls[q]
  <1>2. ASSUME settings'.tags = settings.tags,
               settings'.version = settings.version,
               NoNewTags,
               lagged' = lagged \/ lagged'.settings = settings
        PROVE  TagInv'
    <2>1. /\ lagged'.settings.version <= settings'.version
          /\ lagged'.settings.version = settings'.version =>
                lagged'.settings.tags = settings'.tags
      <3>1. CASE lagged' = lagged
        BY <1>2, <3>1 DEF TagInv
      <3>2. CASE lagged'.settings = settings
        <4>1. /\ lagged'.settings.version = settings.version
              /\ lagged'.settings.tags = settings.tags
          BY <3>2
        <4>2. lagged'.settings.version <= settings.version
          BY <1>1, <4>1, SameIsAtMost
        <4> QED
          BY <1>2, <4>1, <4>2
      <3> QED
        BY <1>2, <3>1, <3>2
    <2>2. ASSUME NEW q \in Requests, calls'[q].step = "mutate tags",
                 calls'[q].counted
          PROVE  /\ calls'[q].version <= settings'.version
                 /\ calls'[q].version = settings'.version =>
                       expectedTagCount(settings'.tags, calls'[q].add,
                                        calls'[q].remove) <= MaxTags
      <3>1. calls'[q] = calls[q]
        BY <1>2, <2>2
      <3> QED
        BY <1>2, <2>2, <3>1 DEF TagInv
    <2> QED
      BY <1>0, <2>1, <2>2 DEF TagInv
  <1>3. ASSUME Raised, NoNewTags, lagged' = lagged
        PROVE  TagInv'
    <2>1. /\ lagged'.settings.version <= settings'.version
          /\ lagged'.settings.version # settings'.version
      BY <1>0, <1>3, OlderAfterRaise, VersionsAreNat DEF TagInv
    <2>2. ASSUME NEW q \in Requests, calls'[q].step = "mutate tags",
                 calls'[q].counted
          PROVE  /\ calls'[q].version <= settings'.version
                 /\ calls'[q].version # settings'.version
      <3>1. calls'[q] = calls[q]
        BY <1>3, <2>2
      <3>2. calls[q].version \in Nat /\ calls[q].version <= settings.version
        BY <1>0, <2>2, <3>1, VersionsAreNat DEF TagInv
      <3> QED
        BY <1>3, <3>1, <3>2, OlderAfterRaise
    <2> QED
      BY <1>0, <2>1, <2>2 DEF TagInv
  <1>4. CASE Writes
    <2>1. UNCHANGED <<calls, lagged>>
      BY <1>0, <1>4, WritesOpen
    <2> QED
      BY <1>0, <1>2, <1>3, <1>4, <2>1, WritesOpen DEF SameVersionAndTags
  <1>5. ASSUME NEW r \in Requests, Steps(r) PROVE TagInv'
    <2>1. ASSUME NEW svc \in Service, NEW v \in Shown,
                 NEW add \in SUBSET Tags, NEW remove \in SUBSET Tags,
                 BeginTags(r, svc, v, add, remove)
          PROVE  TagInv'
      <3>1. /\ calls'[r].version = v
            /\ calls'[r].add = add
            /\ calls'[r].remove = remove
        BY <1>0, <2>1, BeginTagsOpen
      <3>2. v <= settings.version
        <4>1. v \in 0..issued
          BY DEF Shown
        <4>2. issued = settings.version
          BY <1>0 DEF OpenInv
        <4> QED
          BY <1>1, <4>1, <4>2
      <3>3. /\ \A q \in Requests \ {r} : calls'[q] = calls[q]
            /\ UNCHANGED <<settings, lagged>>
        BY <1>0, <2>1, BeginTagsOpen
      <3>4. calls'[r].counted /\ v = settings.version =>
               expectedTagCount(settings.tags, add, remove) <= MaxTags
        <4>1. calls'[r].counted =>
                 \E row \in {settings, lagged.settings} :
                    /\ row.version = v
                    /\ expectedTagCount(row.tags, add, remove) <= MaxTags
          BY <1>0, <2>1, BeginTagsOpen
        <4>2. lagged.settings.version = settings.version =>
                 lagged.settings.tags = settings.tags
          BY DEF TagInv
        <4> QED
          BY <4>1, <4>2
      <3> QED
        BY <1>0, <3>1, <3>2, <3>3, <3>4 DEF TagInv
    <2>2. CASE BeginRestore(r)
      BY <1>0, <1>2, <2>2, BeginRestoreOpen
    <2>3. CASE Finish(r)
      <3>1. NoNewTags /\ lagged' = lagged
        BY <1>0, <2>3, FinishOpen, IdleStep
      <3>2. CASE SameVersionAndTags
        BY <1>2, <3>1, <3>2 DEF SameVersionAndTags
      <3>3. CASE MutateTags(r)
        BY <1>0, <1>2, <1>3, <3>1, <3>3, MutateTagsOpen
      <3> QED
        BY <1>0, <2>3, <3>2, <3>3, FinishOpen
    <2> QED
      BY <1>5, <2>1, <2>2, <2>3 DEF Steps
  <1>6. CASE Replicate
    BY <1>2, <1>6 DEF Replicate
  <1>7. CASE Tick
    BY <1>2, <1>7 DEF Tick
  <1>8. CASE UNCHANGED vars
    BY <1>2, <1>8 DEF vars
  <1> QED
    BY <1>4, <1>5, <1>6, <1>7, <1>8 DEF NextOpen

(* For any number of requests, reads that lag included, the tags of an     *)
(* existing customer grow beyond the limit only by a tag write whose count *)
(* was made on another version of the row than the one it named.           *)
THEOREM LimitPassedOnlyByLagging == OpenSpec => LimitPassedOnlyByLag
  <1>1. TagInv /\ [NextOpen]_vars =>
           [GrowsOverLimit => \E r \in Requests : WrittenUncounted(r)]_vars
    <2> SUFFICES ASSUME TagInv, [NextOpen]_vars, GrowsOverLimit
                 PROVE  \E r \in Requests : WrittenUncounted(r)
      OBVIOUS
    <2>0. OpenInv /\ settings \in Row
      BY DEF TagInv, OpenInv, TypeOK
    <2>1. settings.tags \in SUBSET Tags /\ IsFiniteSet(settings.tags)
      BY <2>0, FS_Subset, TagsAssumption DEF Row
    <2>2. TagsChanged # {}
      <3>1. settings' \in Row
        <4>1. TypeOK'
          BY <2>0, OpenInductive DEF OpenInv
        <4> QED
          BY <4>1 DEF GrowsOverLimit, TypeOK
      <3>2. settings'.tags # settings.tags
        <4>1. Cardinality(settings.tags) \in Nat
          BY <2>1, FS_CardinalityType
        <4> QED
          BY <4>1 DEF GrowsOverLimit
      <3> QED
        BY <2>0, <3>1, <3>2 DEF TagsChanged, GrowsOverLimit, Row
    <2>3. PICK r \in Requests :
             /\ calls'[r] = Idle
             /\ MutateTags(r) /\ TagWriteAccepted(calls[r])
      BY <2>0, <2>2, TagsChangeOnlyByWrite
    <2>4. calls[r].step = "mutate tags" /\ calls'[r].step = "idle"
      BY <2>3, IdleStep DEF MutateTags
    <2>5. /\ calls[r].version = settings.version
          /\ settings'.tags =
                (settings.tags \cup calls[r].add) \ calls[r].remove
      BY <2>0, <2>3, MutateTagsOpen
    <2>6. calls[r] \in Call
      BY <2>0 DEF OpenInv, TypeOK
    <2>7. /\ calls[r].add \in SUBSET Tags
          /\ calls[r].remove \in SUBSET Tags
          /\ (calls[r].add = {}) # (calls[r].remove = {})
      BY <2>3, <2>6 DEF Call, TagWriteAccepted
    <2>8. Cardinality(settings'.tags) =
             expectedTagCount(settings.tags, calls[r].add, calls[r].remove)
      BY <2>1, <2>5, <2>7, ExpectedCountExact
    <2>9. Cardinality(settings'.tags) \in Nat
      <3>1. IsFiniteSet(settings'.tags)
        BY <2>1, <2>5, <2>7, FS_Subset, TagsAssumption
      <3> QED
        BY <3>1, FS_CardinalityType
    <2>10. ~calls[r].counted
      <3>1. Cardinality(settings'.tags) > MaxTags
        BY DEF GrowsOverLimit
      <3>2. calls[r].counted =>
               expectedTagCount(settings.tags, calls[r].add,
                                calls[r].remove) <= MaxTags
        BY <2>4, <2>5 DEF TagInv
      <3> QED
        BY <2>8, <2>9, <3>1, <3>2
    <2> QED
      BY <2>4, <2>10 DEF WrittenUncounted
  <1> QED
    BY <1>1, TagInitially, TagInductive, PTL
    DEF OpenSpec, LimitPassedOnlyByLag

------------------------------------------------------------------------------
(* What an existing account promises: the races are not seen               *)

(* A step of a request in flight is none of the row's business, the tag    *)
(* update of one namespace, or a restore.                                  *)
LEMMA FinishIsAtomic ==
  ASSUME OpenInv, NEW r \in Requests, Finish(r)
  PROVE  [Life!Next]_(Life!vars)
  <1>1. /\ settings \in Row /\ settings # NoRow
        /\ calls[r] \in Call
        /\ OpenInv
    BY DEF OpenInv, TypeOK
  <1>2. MutateTags(r) \/ CommitRestore(r) \/ Abandon(r)
    BY <1>1 DEF Finish, OpenInv, InitTags, EraseItems, PutProfile
  <1>3. CASE MutateTags(r) /\ ~TagWriteAccepted(calls[r])
    BY <1>3 DEF MutateTags, Life!vars
  <1>4. CASE MutateTags(r) /\ TagWriteAccepted(calls[r])
    <2> DEFINE owner == tagNamespaceMap[calls[r].service]
               tags == (settings.tags \cup calls[r].add) \ calls[r].remove
    <2>1. /\ settings.tags \in SUBSET Tags
          /\ calls[r].add \in SUBSET Tags
          /\ calls[r].remove \in SUBSET Tags
      BY <1>1 DEF Row, Call
    <2>2. /\ settings' = [settings EXCEPT !.tags = tags, !.version = @ + 1]
          /\ clock' = clock
      <3>1. calls[r].version = settings.version
        BY <1>4 DEF TagWriteAccepted, VersionMatches
      <3> QED
        BY <1>1, <1>4, <3>1 DEF MutateTags, Row
    <2>3. \A t \in calls[r].add \cup calls[r].remove : t.owner = owner
      BY <1>1, <1>4 DEF OpenInv, MutateTags, InNamespace
    <2>4. (calls[r].add = {}) # (calls[r].remove = {})
      BY <1>4 DEF TagWriteAccepted
    <2>5. owner \in {t.owner : t \in Tags}
      BY <2>1, <2>3, <2>4
    <2>6. tags \in SUBSET Tags
      BY <2>1
    <2>7. \A t \in (tags \ settings.tags) \cup (settings.tags \ tags) :
             t.owner = owner
      BY <2>3
    <2>8. tags \subseteq settings.tags \/ settings.tags \subseteq tags
      BY <2>4
    <2> HIDE DEF owner, tags
    <2>9. Life!WriteTags(owner, tags)
      BY <2>2, <2>7, <2>8 DEF Life!WriteTags
    <2> QED
      BY <2>5, <2>6, <2>9 DEF Life!Next
  <1>5. CASE CommitRestore(r)
    <2>1. CASE StillPending
      BY <1>5, <2>1 DEF CommitRestore, StillPending, Life!Restore, Life!Next
    <2>2. CASE ~StillPending
      BY <1>5, <2>2 DEF CommitRestore, Life!vars
    <2> QED
      BY <2>1, <2>2
  <1>6. CASE Abandon(r)
    BY <1>6 DEF Abandon, Life!vars
  <1> QED
    BY <1>2, <1>3, <1>4, <1>5, <1>6

(* An existing account implements AccountLife, whatever its reads return:  *)
(* its callers cannot tell the two-call tag updates and restores that race *)
(* on it from atomic ones, and no write is lost.                           *)
THEOREM AccountsAreAtomic == OpenSpec => AccountIsAtomic
  <1>1. InitOpen => Life!Init
    BY DEF InitOpen, DefaultRow, Life!Init
  <1>2. OpenInv /\ [NextOpen]_vars => [Life!Next]_(Life!vars)
    <2> SUFFICES ASSUME OpenInv, [NextOpen]_vars
                 PROVE  [Life!Next]_(Life!vars)
      OBVIOUS
    <2>0. settings \in Row
      BY DEF OpenInv, TypeOK
    <2>1. CASE SoftDeleteCustomer
      BY <2>1 DEF SoftDeleteCustomer, Life!Delete, Life!Next
    <2>2. ASSUME NEW svc \in Service, NEW v \in Shown,
                 NEW st \in Status \cup {KeepStatus},
                 UpdateSettings(svc, v, st)
          PROVE  Life!Next
      <3>1. settings.version = v
        BY <2>2 DEF UpdateSettings, VersionMatches
      <3>2. CASE st = KeepStatus
        BY <2>0, <2>2, <3>1, <3>2 DEF UpdateSettings, Row, Life!Edit, Life!Next
      <3>3. CASE st # KeepStatus
        <4>1. Life!SetStatus(st)
          BY <2>0, <2>2, <3>1, <3>3 DEF UpdateSettings, Row, Life!SetStatus
        <4> QED
          BY <3>3, <4>1 DEF Life!Next
      <3> QED
        BY <3>2, <3>3
    <2>3. ASSUME NEW r \in Requests, Steps(r) PROVE [Life!Next]_(Life!vars)
      <3>1. CASE Finish(r)
        BY <3>1, FinishIsAtomic
      <3>2. CASE ~Finish(r)
        BY <2>3, <3>2 DEF Steps, BeginTags, BeginRestore, Life!vars
      <3> QED
        BY <3>1, <3>2
    <2>4. CASE Replicate
      BY <2>4 DEF Replicate, Life!vars
    <2>5. CASE Tick
      BY <2>5 DEF Tick, Life!Tick, Life!Next
    <2>6. CASE UNCHANGED vars
      BY <2>6 DEF vars, Life!vars
    <2> QED
      BY <2>1, <2>2, <2>3, <2>4, <2>5, <2>6 DEF NextOpen, Writes
  <1> QED
    BY <1>1, <1>2, OpenInitially, OpenInductive, PTL
    DEF OpenSpec, AccountIsAtomic, Life!Spec

------------------------------------------------------------------------------
(* Over the whole life of a customer                                       *)

TagSteps == {"init tags", "mutate tags"}

(* A request that will write tags passed the namespace check, with or      *)
(* without a row.                                                          *)
CheckedInv ==
    /\ TypeOK
    /\ \A r \in Requests :
         calls[r].step \in TagSteps =>
            InNamespace(calls[r].service, calls[r].add \cup calls[r].remove)

LEMMA CheckedInitially == Init \/ InitOpen => CheckedInv
  <1>1. Init \/ InitOpen => \A r \in Requests : calls[r].step = "idle"
    BY DEF Init, InitOpen, Idle
  <1> QED
    BY <1>1, InitType DEF CheckedInv, TagSteps

(* No step but the first of a tag update gives a request tags to write.    *)
SameTags(r) ==
    calls'[r].step \in TagSteps =>
        /\ calls[r].step \in TagSteps
        /\ calls'[r].service = calls[r].service
        /\ calls'[r].add = calls[r].add
        /\ calls'[r].remove = calls[r].remove

LEMMA FinishSameTags ==
  ASSUME TypeOK, NEW r \in Requests, Finish(r)
  PROVE  \A q \in Requests : SameTags(q)
  <1>0. calls[r] \in Call
    BY DEF TypeOK
  <1>1. CASE Done(r)
    BY <1>1, IdleStep DEF Done, TypeOK, SameTags, TagSteps
  <1>2. CASE InitTags(r) /\ ~Done(r)
    <2>1. /\ calls'[r] = [calls[r] EXCEPT !.step = "mutate tags"]
          /\ calls[r].step = "init tags"
          /\ \A q \in Requests \ {r} : calls'[q] = calls[q]
      BY <1>2 DEF InitTags, TypeOK
    <2>2. SameTags(r)
      BY <1>0, <2>1 DEF Call, SameTags, TagSteps
    <2> QED
      BY <2>1, <2>2 DEF SameTags
  <1>3. CASE EraseItems(r) /\ ~Done(r)
    <2>1. PICK chunk : calls' = [calls EXCEPT ![r].listed = @ \ chunk]
      BY <1>3 DEF EraseItems
    <2>2. calls'[r].step = calls[r].step /\ calls[r].step = "erase items"
      BY <1>0, <1>3, <2>1 DEF EraseItems, TypeOK, Call
    <2>3. \A q \in Requests \ {r} : calls'[q] = calls[q]
      BY <2>1 DEF TypeOK
    <2> QED
      BY <2>2, <2>3 DEF SameTags, TagSteps
  <1> QED
    BY <1>1, <1>2, <1>3
    DEF Finish, MutateTags, CommitRestore, PutProfile, Abandon

LEMMA BeginTagsChecked ==
  ASSUME CheckedInv, TypeOK', NEW r \in Requests, NEW svc \in Service,
         NEW v \in Shown, NEW add \in SUBSET Tags, NEW remove \in SUBSET Tags,
         BeginTags(r, svc, v, add, remove)
  PROVE  CheckedInv'
  <1>1. TypeOK
    BY DEF CheckedInv
  <1>2. /\ calls'[r].service = svc
        /\ calls'[r].add = add
        /\ calls'[r].remove = remove
    BY <1>1, BeginTagsCall
  <1>3. \A q \in Requests \ {r} : calls'[q] = calls[q]
    BY <1>1, BeginTagsCall
  <1>4. InNamespace(svc, add \cup remove)
    BY DEF BeginTags
  <1> QED
    BY <1>2, <1>3, <1>4 DEF CheckedInv, InNamespace

LEMMA OthersSameTags ==
  ASSUME TypeOK, NEW r \in Requests, BeginRestore(r) \/ ProfileSteps(r)
  PROVE  \A q \in Requests : SameTags(q)
  <1>1. CASE BeginRestore(r)
    BY <1>1 DEF BeginRestore, TypeOK, Idle, SameTags, TagSteps
  <1>2. CASE BeginErase(r)
    BY <1>2 DEF BeginErase, TypeOK, Idle, SameTags, TagSteps
  <1>3. CASE BeginUpdateUser(r)
    BY <1>3 DEF BeginUpdateUser, TypeOK, Idle, SameTags, TagSteps
  <1> QED
    BY <1>1, <1>2, <1>3 DEF ProfileSteps

LEMMA CheckedInductive == CheckedInv /\ [Next]_vars => CheckedInv'
  <1> SUFFICES ASSUME CheckedInv, [Next]_vars PROVE CheckedInv'
    OBVIOUS
  <1>0. TypeOK /\ TypeOK'
    BY NextType DEF CheckedInv
  <1>a. ASSUME \A q \in Requests : SameTags(q) PROVE CheckedInv'
    BY <1>0, <1>a DEF CheckedInv, SameTags, InNamespace
  <1>b. ASSUME UNCHANGED calls PROVE CheckedInv'
    BY <1>a, <1>b DEF SameTags
  <1>1. CASE CreateUser \/ Writes \/ Replicate \/ Tick \/ UNCHANGED vars
    BY <1>1, <1>b DEF CreateUser, Writes, UpdateSettings, SoftDeleteCustomer,
                      Replicate, Tick, vars
  <1>2. ASSUME NEW r \in Requests, Steps(r) PROVE CheckedInv'
    BY <1>0, <1>2, <1>a, BeginTagsChecked, OthersSameTags, FinishSameTags
    DEF Steps
  <1>3. ASSUME NEW r \in Requests, ProfileSteps(r) PROVE CheckedInv'
    BY <1>0, <1>3, <1>a, OthersSameTags
  <1> QED
    BY <1>1, <1>2, <1>3 DEF Next

(* What a step that loses nothing does.                                    *)
KeepsWrites ==
    /\ \A t \in TagsChanged : WrittenByOwner(t)
    /\ LeavesPending =>
          \/ settings'.version = settings.version + 1
          \/ \E r \in Requests : RestoreTakesEffect(r)

LEMMA NoRowNoLoss ==
  ASSUME settings' = settings \/ settings = NoRow \/ settings' = NoRow
  PROVE  KeepsWrites
  BY DEF KeepsWrites, TagsChanged, LeavesPending, StillPending

LEMMA SameTagsNoLoss ==
  ASSUME settings'.tags = settings.tags,
         LeavesPending =>
            \/ settings'.version = settings.version + 1
            \/ \E r \in Requests : RestoreTakesEffect(r)
  PROVE  KeepsWrites
  BY DEF KeepsWrites, TagsChanged

LEMMA WritesKeepWrites ==
  ASSUME TypeOK, Writes
  PROVE  KeepsWrites
  <1>1. settings \in Row
    BY DEF Writes, UpdateSettings, VersionMatches, SoftDeleteCustomer, TypeOK
  <1>2. CASE SoftDeleteCustomer
    <2>1. settings'.tags = settings.tags /\ settings'.status = "pending_deletion"
      BY <1>1, <1>2 DEF SoftDeleteCustomer, Row
    <2> QED
      BY <2>1, SameTagsNoLoss DEF LeavesPending
  <1>3. ASSUME NEW svc \in Service, NEW v \in Shown,
               NEW st \in Status \cup {KeepStatus},
               UpdateSettings(svc, v, st)
        PROVE  KeepsWrites
    <2>1. /\ settings'.tags = settings.tags
          /\ settings'.version = settings.version + 1
      BY <1>1, <1>3 DEF UpdateSettings, VersionMatches, Row
    <2> QED
      BY <2>1, SameTagsNoLoss
  <1> QED
    BY <1>2, <1>3 DEF Writes

LEMMA TagWriteKeepsWrites ==
  ASSUME CheckedInv, NEW r \in Requests, MutateTags(r)
  PROVE  KeepsWrites
  <1>1. CASE ~TagWriteAccepted(calls[r])
    BY <1>1, NoRowNoLoss DEF MutateTags
  <1>2. CASE TagWriteAccepted(calls[r])
    <2>1. settings \in Row /\ calls[r].version = settings.version
      BY <1>2 DEF TagWriteAccepted, VersionMatches, CheckedInv, TypeOK
    <2>2. settings' = [settings EXCEPT
                !.tags = (@ \cup calls[r].add) \ calls[r].remove,
                !.version = calls[r].version + 1]
      BY <1>2 DEF MutateTags
    <2>3. /\ settings'.tags =
                (settings.tags \cup calls[r].add) \ calls[r].remove
          /\ settings'.status = settings.status
      BY <2>1, <2>2 DEF Row
    <2>4. ~LeavesPending
      BY <2>3 DEF LeavesPending, StillPending
    <2>5. calls[r].step = "mutate tags" /\ calls'[r].step = "idle"
      BY IdleStep DEF MutateTags, Done, CheckedInv, TypeOK
    <2>6. InNamespace(calls[r].service, calls[r].add \cup calls[r].remove)
      BY <2>5 DEF CheckedInv, TagSteps
    <2>7. ASSUME NEW t \in TagsChanged PROVE WrittenByOwner(t)
      <3>1. t \in calls[r].add \cup calls[r].remove
        BY <2>3, <2>7 DEF TagsChanged
      <3>2. tagNamespaceMap[calls[r].service] = t.owner
        BY <2>6, <3>1 DEF InNamespace
      <3> QED
        BY <2>1, <2>5, <3>2 DEF WrittenByOwner
    <2> QED
      BY <2>4, <2>7 DEF KeepsWrites
  <1> QED
    BY <1>1, <1>2

LEMMA RestoreKeepsWrites ==
  ASSUME TypeOK, NEW r \in Requests, CommitRestore(r)
  PROVE  KeepsWrites
  <1>1. CASE StillPending
    <2>1. settings \in Row
      BY <1>1 DEF StillPending, TypeOK
    <2>2. settings'.tags = settings.tags /\ settings' # settings
      BY <1>1, <2>1 DEF CommitRestore, StillPending, Row
    <2>3. RestoreTakesEffect(r)
      BY <2>2, IdleStep DEF CommitRestore, Done, TypeOK, RestoreTakesEffect
    <2> QED
      BY <2>2, <2>3, SameTagsNoLoss
  <1>2. CASE ~StillPending
    BY <1>2, NoRowNoLoss DEF CommitRestore
  <1> QED
    BY <1>1, <1>2

(* The put of defaults by a tag update that had read no row is the only    *)
(* step that takes another service's tags, or a deletion wait, from an     *)
(* existing row: with sign-ups, erasures and re-creations, lagging reads   *)
(* and any number of requests.                                             *)
THEOREM OnlyDefaultsLose == Spec \/ OpenSpec => OnlyDefaultsLoseWrites
  <1>1. CheckedInv /\ [Next]_vars =>
           [\/ \E r \in Requests : DefaultsPut(r)
            \/ KeepsWrites]_vars
    <2> SUFFICES ASSUME CheckedInv, Next, ~ \E r \in Requests : DefaultsPut(r)
                 PROVE  KeepsWrites
      OBVIOUS
    <2>0. TypeOK
      BY DEF CheckedInv
    <2>1. CASE CreateUser
      BY <2>1, NoRowNoLoss DEF CreateUser
    <2>2. CASE Writes
      BY <2>0, <2>2, WritesKeepWrites
    <2>3. ASSUME NEW r \in Requests, Finish(r) PROVE KeepsWrites
      <3>1. CASE InitTags(r)
        <4>1. calls'[r].step # "init tags"
          BY <2>0, <3>1, IdleStep DEF InitTags, Done, TypeOK, Call
        <4>2. DefaultsPut(r)
          BY <3>1, <4>1 DEF InitTags, DefaultsPut
        <4> QED
          BY <4>2
      <3>2. CASE EraseItems(r)
        BY <3>2, NoRowNoLoss DEF EraseItems
      <3>3. CASE PutProfile(r) \/ Abandon(r)
        BY <3>3, NoRowNoLoss DEF PutProfile, Abandon
      <3> QED
        BY <2>0, <2>3, <3>1, <3>2, <3>3, TagWriteKeepsWrites, RestoreKeepsWrites
        DEF Finish
    <2>4. ASSUME NEW r \in Requests, Steps(r), ~Finish(r) PROVE KeepsWrites
      BY <2>4, NoRowNoLoss DEF Steps, BeginTags, BeginRestore
    <2>5. ASSUME NEW r \in Requests, ProfileSteps(r) PROVE KeepsWrites
      BY <2>5, NoRowNoLoss DEF ProfileSteps, BeginErase, BeginUpdateUser
    <2>6. CASE Replicate \/ Tick
      BY <2>6, NoRowNoLoss DEF Replicate, Tick
    <2> QED
      BY <2>1, <2>2, <2>3, <2>4, <2>5, <2>6 DEF Next
  <1>2. [NextOpen]_vars => [Next]_vars
    BY NextOpenIsNext
  <1> QED
    BY <1>1, <1>2, CheckedInitially, CheckedInductive, PTL
    DEF Spec, OpenSpec, OnlyDefaultsLoseWrites, KeepsWrites

==============================================================================
