--------------------------- MODULE AccountSettings ---------------------------
(***************************************************************************)
(* The SETTINGS item of one customer (PK = CUSTOMER#<id>, SK = SETTINGS)   *)
(* and the requests that race on it: sign-up, the versioned settings       *)
(* update, the multi-step tag update of the sibling services, the soft     *)
(* delete, the two-step restore and the hard erase.  Of the PROFILE item,  *)
(* which sign-up and the erase touch as well, only the existence is kept.  *)
(*                                                                         *)
(* Every step is one call to DynamoDB, which is atomic per item (and per   *)
(* transaction); the interleaving of the requests is that of their calls.  *)
(* A handler that makes one write and keeps nothing across calls is one    *)
(* action; a handler that reads, decides and writes keeps its state in     *)
(* calls[r] between its steps.                                             *)
(*                                                                         *)
(* Only one customer is modelled: no statement of the code touches the     *)
(* settings of two.  Verification flags, reasons and updated_at are        *)
(* payload that no branch reads, and are left out.                         *)
(*                                                                         *)
(* A definition named X_Y is a broken variant of X, by the plausible       *)
(* mistake Y; a property is only trusted if it tells X from X_Y.           *)
(***************************************************************************)
EXTENDS Integers, FiniteSets

CONSTANTS
    Requests,     \* slots for the requests that are between two steps
    Tags,         \* the tags clients use, as records [owner, name]
    MaxTags,      \* the limit on tags per customer (20 in the code)
    Window,       \* how long a deleted account can be restored (30 days)
    NoRow,        \* stands for the row of an item that does not exist
    MaxClock,     \* bound: the clock stops here
    MaxVersion    \* bound: no version above it is written

VARIABLES
    profile,      \* whether the PROFILE item exists
    settings,     \* the SETTINGS item, or NoRow
    lagged,       \* the state of both items a lagging read returns
    calls,        \* calls[r]: what request r remembers between its steps
    issued,       \* the highest version any row ever carried
    clock         \* time.Now(), shared by the service's containers

vars == <<profile, settings, lagged, calls, issued, clock>>

------------------------------------------------------------------------------
(* The service callers and the tag namespace each of them owns.            *)

Service == {"loyalty-api", "marketing-api", "promotions-api",
            "customer-servicing-api", "customer-api"}

Namespace == {"loyalty.", "marketing.", "support.", "system."}

tagNamespaceMap ==
    [s \in Service |->
        CASE s = "loyalty-api"            -> "loyalty."
          [] s = "marketing-api"          -> "marketing."
          [] s = "promotions-api"         -> "marketing."
          [] s = "customer-servicing-api" -> "support."
          [] s = "customer-api"           -> "system."]

ASSUME RequestsAssumption == IsFiniteSet(Requests)
ASSUME TagsAssumption     == /\ IsFiniteSet(Tags)
                             /\ \A t \in Tags : t.owner \in Namespace
ASSUME BoundsAssumption   == /\ MaxTags \in Nat
                             /\ Window \in Nat
                             /\ MaxClock \in Nat
                             /\ MaxVersion \in Nat \ {0}

Status == {"active", "suspended", "closed", "pending_deletion"}

Existence == {"present", "absent"}

NoTime == -1                     \* status_changed_at is absent
Time   == 0..MaxClock

Row == [status    : Status,
        changedAt : Time \cup {NoTime},
        tags      : SUBSET Tags,
        version   : 0..MaxVersion]

ASSUME NoRowAssumption == NoRow \notin Row

DefaultRow_NoStatus == [status |-> "", changedAt |-> NoTime,
                        tags |-> {}, version |-> 0]

DefaultRow == [status |-> "active", changedAt |-> NoTime,
               tags |-> {}, version |-> 0]

(* What a request carries from one DynamoDB call to the next: the step it  *)
(* is about to take, and its arguments.  Two fields are history: counted,  *)
(* whether a tag update found the row at the very version it names, and    *)
(* readAt, the time at which a restore looked at the row.                  *)
Call == [step    : {"idle", "init tags", "mutate tags", "commit restore",
                    "erase items", "put profile"},
         service : Service,
         version : 0..(MaxVersion - 1),
         add     : SUBSET Tags,
         remove  : SUBSET Tags,
         listed  : SUBSET {"PROFILE", "SETTINGS"},
         counted : BOOLEAN,
         readAt  : Time]

Idle == [step |-> "idle", service |-> "customer-api", version |-> 0,
         add |-> {}, remove |-> {}, listed |-> {}, counted |-> FALSE,
         readAt |-> 0]

Done(r) == calls' = [calls EXCEPT ![r] = Idle]

TypeOK ==
    /\ profile \in Existence
    /\ settings \in Row \cup {NoRow}
    /\ lagged \in [profile : Existence, settings : Row \cup {NoRow}]
    /\ calls \in [Requests -> Call]
    /\ issued \in 0..MaxVersion
    /\ clock \in Time

Init ==
    /\ profile = "absent"
    /\ settings = NoRow
    /\ lagged = [profile |-> "absent", settings |-> NoRow]
    /\ calls = [r \in Requests |-> Idle]
    /\ issued = 0
    /\ clock = 0

------------------------------------------------------------------------------
(* DynamoDB                                                                *)

(* No read of the code asks for consistency, so each may return the state  *)
(* of a replica that lags behind.                                          *)
Readable ==
    {[profile |-> profile, settings |-> settings], lagged}

Replicate ==
    /\ lagged' = [profile |-> profile, settings |-> settings]
    /\ UNCHANGED <<profile, settings, calls, issued, clock>>

Tick ==
    /\ clock < MaxClock
    /\ clock' = clock + 1
    /\ UNCHANGED <<profile, settings, lagged, calls, issued>>

(* A version a client can name is one it was shown: a row carried it       *)
(* before, or it is the zero value of a client that was shown none.        *)
Shown == 0..issued

\* The condition of every versioned write: attribute_exists AND #v = :expected.
VersionMatches_ExistsOnly(v) == settings # NoRow

VersionMatches(v) ==
    /\ settings # NoRow
    /\ settings.version = v

------------------------------------------------------------------------------
(* Requests of one write                                                   *)

(* TransactWriteItems of two Puts, both attribute_not_exists.  On an item  *)
(* that exists the request is answered "already exists" and nothing moves. *)
CreateUser ==
    /\ profile = "absent"
    /\ settings = NoRow
    /\ profile' = "present"
    /\ settings' = DefaultRow
    /\ UNCHANGED <<lagged, calls, issued, clock>>

(* The handler lets two services set a status; the write is one            *)
(* conditional UpdateItem.  The re-read that follows only fills the reply. *)
KeepStatus == "keep"

MayChangeStatus(svc) == svc \in {"customer-servicing-api", "customer-api"}

UpdateSettings_NoClock(svc, v, st) ==
    /\ st # KeepStatus => MayChangeStatus(svc)
    /\ VersionMatches(v)
    /\ v < MaxVersion
    /\ settings' = [settings EXCEPT !.version = v + 1,
                       !.status = IF st = KeepStatus THEN @ ELSE st]
    /\ issued' = IF v + 1 > issued THEN v + 1 ELSE issued
    /\ UNCHANGED <<profile, lagged, calls, clock>>

UpdateSettings(svc, v, st) ==
    /\ st # KeepStatus => MayChangeStatus(svc)
    /\ VersionMatches(v)
    /\ v < MaxVersion
    /\ settings' =
         IF st = KeepStatus
         THEN [settings EXCEPT !.version = v + 1]
         ELSE [settings EXCEPT !.version = v + 1,
                               !.status = st, !.changedAt = clock]
    /\ issued' = IF v + 1 > issued THEN v + 1 ELSE issued
    /\ UNCHANGED <<profile, lagged, calls, clock>>

(* From any status, and again on an account already pending: the clock of  *)
(* the deletion starts over.  The version is neither checked nor raised.   *)
SoftDeleteCustomer ==
    /\ settings # NoRow
    /\ settings' = [settings EXCEPT !.status = "pending_deletion",
                                    !.changedAt = clock]
    /\ UNCHANGED <<profile, lagged, calls, issued, clock>>

------------------------------------------------------------------------------
(* UpdateSettingsTags: read, perhaps create defaults, then write           *)

expectedTagCount(current, add, remove) ==
    Cardinality(current \ remove) + Cardinality(add \ current)

InNamespace_OneTag(svc, tags) ==
    tags # {} => \E t \in tags : t.owner = tagNamespaceMap[svc]

InNamespace(svc, tags) == \A t \in tags : t.owner = tagNamespaceMap[svc]

BeginTags_ErrorAsNotFound(r, svc, v, add, remove) ==
    /\ calls[r].step = "idle"
    /\ v < MaxVersion
    /\ InNamespace(svc, add \cup remove)
    /\ calls' = [calls EXCEPT ![r] =
          [Idle EXCEPT !.step = "init tags", !.service = svc,
             !.version = v, !.add = add, !.remove = remove]]
    /\ UNCHANGED <<profile, settings, lagged, issued, clock>>

(* The checks and the first call.  A row that is not found sends the       *)
(* request to create one; otherwise the limit is checked on what was read. *)
BeginTags(r, svc, v, add, remove) ==
    /\ calls[r].step = "idle"
    /\ v < MaxVersion
    /\ InNamespace(svc, add \cup remove)
    /\ \E read \in Readable :
         \/ /\ read.settings = NoRow
            /\ calls' = [calls EXCEPT ![r] =
                  [Idle EXCEPT !.step = "init tags", !.service = svc,
                     !.version = v, !.add = add, !.remove = remove]]
         \/ /\ read.settings # NoRow
            /\ expectedTagCount(read.settings.tags, add, remove) <= MaxTags
            /\ calls' = [calls EXCEPT ![r] =
                  [Idle EXCEPT !.step = "mutate tags", !.service = svc,
                     !.version = v, !.add = add, !.remove = remove,
                     !.counted = (read.settings.version = v)]]
    /\ UNCHANGED <<profile, settings, lagged, issued, clock>>

(* The row was not found: an unconditional Put of the defaults, version 0, *)
(* over whatever the item is by now.  The limit is then checked against    *)
(* the defaults, not against a row.                                        *)
InitTags(r) ==
    /\ calls[r].step = "init tags"
    /\ settings' = DefaultRow
    /\ IF expectedTagCount({}, calls[r].add, calls[r].remove) <= MaxTags
       THEN calls' = [calls EXCEPT ![r].step = "mutate tags"]
       ELSE Done(r)
    /\ UNCHANGED <<profile, lagged, issued, clock>>

(* MutateSettingsTags.  No tags at all: answered without a write.  Tags to *)
(* add and tags to remove together name the attribute twice in one         *)
(* expression, which DynamoDB rejects.  Otherwise one conditional write.   *)
TagWriteAccepted(c) ==
    /\ (c.add = {}) # (c.remove = {})
    /\ VersionMatches(c.version)

MutateTags(r) ==
    /\ calls[r].step = "mutate tags"
    /\ Done(r)
    /\ IF TagWriteAccepted(calls[r])
       THEN /\ settings' = [settings EXCEPT
                  !.tags = (@ \cup calls[r].add) \ calls[r].remove,
                  !.version = calls[r].version + 1]
            /\ issued' = IF calls[r].version + 1 > issued
                         THEN calls[r].version + 1 ELSE issued
       ELSE UNCHANGED <<settings, issued>>
    /\ UNCHANGED <<profile, lagged, clock>>

------------------------------------------------------------------------------
(* RestoreCustomer: read and decide, then write if still pending           *)

Restorable_NoWindow(row) ==
    /\ row # NoRow
    /\ row.status = "pending_deletion"

Restorable(row) ==
    /\ row # NoRow
    /\ row.status = "pending_deletion"
    /\ row.changedAt # NoTime
    /\ clock - row.changedAt <= Window

BeginRestore(r) ==
    /\ calls[r].step = "idle"
    /\ \E read \in Readable : Restorable(read.settings)
    /\ calls' = [calls EXCEPT ![r] =
          [Idle EXCEPT !.step = "commit restore", !.readAt = clock]]
    /\ UNCHANGED <<profile, settings, lagged, issued, clock>>

StillPending ==
    /\ settings # NoRow
    /\ settings.status = "pending_deletion"

CommitRestore(r) ==
    /\ calls[r].step = "commit restore"
    /\ Done(r)
    /\ IF StillPending
       THEN settings' = [settings EXCEPT !.status = "active",
                                         !.changedAt = NoTime]
       ELSE UNCHANGED settings
    /\ UNCHANGED <<profile, lagged, issued, clock>>

------------------------------------------------------------------------------
(* DeleteUser: list the items of the customer, then delete those listed    *)

ItemsOf(read) ==
    (IF read.profile = "present" THEN {"PROFILE"} ELSE {})
        \cup (IF read.settings # NoRow THEN {"SETTINGS"} ELSE {})

BeginErase(r) ==
    /\ calls[r].step = "idle"
    /\ \E read \in Readable :
         /\ ItemsOf(read) # {}
         /\ calls' = [calls EXCEPT ![r] =
               [Idle EXCEPT !.step = "erase items", !.listed = ItemsOf(read)]]
    /\ UNCHANGED <<profile, settings, lagged, issued, clock>>

(* One transaction per chunk of 100 items, in the order of the keys, in    *)
(* which PROFILE comes just before SETTINGS: both are in one chunk, or     *)
(* PROFILE ends a chunk and SETTINGS begins the next.                      *)
Chunks(listed) ==
    {listed} \cup (IF listed = {"PROFILE", "SETTINGS"} THEN {{"PROFILE"}} ELSE {})

EraseItems(r) ==
    /\ calls[r].step = "erase items"
    /\ \E chunk \in Chunks(calls[r].listed) :
         /\ profile' = IF "PROFILE" \in chunk THEN "absent" ELSE profile
         /\ settings' = IF "SETTINGS" \in chunk THEN NoRow ELSE settings
         /\ \/ /\ chunk = calls[r].listed
               /\ Done(r)
            \/ /\ chunk # calls[r].listed
               /\ calls' = [calls EXCEPT ![r].listed = @ \ chunk]
    /\ UNCHANGED <<lagged, issued, clock>>

(* UpdateUser reads the PROFILE item and puts it back, without a condition *)
(* and with the fields of the request changed: it may bring back an item   *)
(* that was erased.                                                        *)
BeginUpdateUser(r) ==
    /\ calls[r].step = "idle"
    /\ \E read \in Readable : read.profile = "present"
    /\ calls' = [calls EXCEPT ![r] = [Idle EXCEPT !.step = "put profile"]]
    /\ UNCHANGED <<profile, settings, lagged, issued, clock>>

PutProfile(r) ==
    /\ calls[r].step = "put profile"
    /\ profile' = "present"
    /\ Done(r)
    /\ UNCHANGED <<settings, lagged, issued, clock>>

(* A call to DynamoDB fails, or the container dies, between two steps: the *)
(* request is gone and what it already wrote stays.                        *)
Abandon(r) ==
    /\ calls[r].step # "idle"
    /\ Done(r)
    /\ UNCHANGED <<profile, settings, lagged, issued, clock>>

------------------------------------------------------------------------------
Writes ==
    \/ \E svc \in Service, v \in Shown, st \in Status \cup {KeepStatus} :
           UpdateSettings(svc, v, st)
    \/ SoftDeleteCustomer

Finish(r) ==
    \/ InitTags(r)
    \/ MutateTags(r)
    \/ CommitRestore(r)
    \/ EraseItems(r)
    \/ PutProfile(r)
    \/ Abandon(r)

Steps(r) ==
    \/ \E svc \in Service, v \in Shown, add, remove \in SUBSET Tags :
           BeginTags(r, svc, v, add, remove)
    \/ BeginRestore(r)
    \/ Finish(r)

ProfileSteps(r) ==
    \/ BeginErase(r)
    \/ BeginUpdateUser(r)

Next ==
    \/ CreateUser
    \/ Writes
    \/ \E r \in Requests : Steps(r) \/ ProfileSteps(r)
    \/ Replicate
    \/ Tick

Spec == Init /\ [][Next]_vars

(* The life of one account: it has been created and is not erased.         *)
InitOpen ==
    /\ profile = "present"
    /\ settings = DefaultRow
    /\ lagged = [profile |-> "present", settings |-> DefaultRow]
    /\ calls = [r \in Requests |-> Idle]
    /\ issued = 0
    /\ clock = 0

NextOpen ==
    \/ Writes
    \/ \E r \in Requests : Steps(r)
    \/ Replicate
    \/ Tick

OpenSpec == InitOpen /\ [][NextOpen]_vars

------------------------------------------------------------------------------
(* Properties                                                              *)

(* An account waiting for deletion always carries the time its wait began: *)
(* four writers set status or status_changed_at (sign-up, versioned        *)
(* update, soft delete, restore), and a row pending without the time could *)
(* neither be restored nor ever fall due for erasure.                      *)
PendingHasClock ==
    StillPending => settings.changedAt # NoTime

(* A customer never has more tags than the limit (data-model.md): the      *)
(* count is checked against a read that may lag, the version against the   *)
(* row itself, so a tag write may pass the check and take the row over it. *)
TagLimit ==
    settings # NoRow => Cardinality(settings.tags) <= MaxTags

(* With any number of updates racing, the tags of an existing customer     *)
(* grow beyond the limit only by a tag write whose read lagged behind the  *)
(* version it named: the version condition protects the count of all the   *)
(* others, although the count is checked in one call and the write is      *)
(* another.                                                                *)
GrowsOverLimit ==
    /\ settings # NoRow
    /\ settings' # NoRow
    /\ Cardinality(settings'.tags) > MaxTags
    /\ Cardinality(settings'.tags) > Cardinality(settings.tags)

WrittenUncounted(r) ==
    /\ calls[r].step = "mutate tags"
    /\ calls'[r].step = "idle"
    /\ ~calls[r].counted

LimitPassedOnlyByLag ==
    [][GrowsOverLimit => \E r \in Requests : WrittenUncounted(r)]_vars

(* A restore takes effect only on an account whose current deletion wait   *)
(* had not run out when the request looked at it, whatever state of the    *)
(* item that read returned and whatever happened before the write.         *)
RestoreTakesEffect(r) ==
    /\ calls[r].step = "commit restore"
    /\ calls'[r].step = "idle"
    /\ settings' # settings

RestoreWithinWindow ==
    [][\A r \in Requests : RestoreTakesEffect(r) =>
          /\ StillPending
          /\ settings.changedAt + Window >= calls[r].readAt]_vars

(* A tag of an existing row appears or disappears only by a tag write of a *)
(* service that owns the tag's namespace and that named the very version   *)
(* it replaced: no service can lose what another one wrote.                *)
TagsChanged ==
    IF settings # NoRow /\ settings' # NoRow
    THEN (settings.tags \ settings'.tags) \cup (settings'.tags \ settings.tags)
    ELSE {}

WrittenByOwner(t) ==
    \E r \in Requests :
        /\ calls[r].step = "mutate tags"
        /\ calls'[r].step = "idle"
        /\ tagNamespaceMap[calls[r].service] = t.owner
        /\ calls[r].version = settings.version

CrossServiceWritesKept ==
    [][\A t \in TagsChanged : WrittenByOwner(t)]_vars

(* An account leaves its deletion wait only by a restore or by a write     *)
(* that raised the version, never as a side effect of another request.     *)
LeavesPending ==
    /\ StillPending
    /\ settings' # NoRow
    /\ settings'.status # "pending_deletion"

DeletionNotCancelled ==
    [][LeavesPending =>
          \/ settings'.version = settings.version + 1
          \/ \E r \in Requests : RestoreTakesEffect(r)]_vars

(* Over the whole life of a customer, sign-ups and erasures included, only *)
(* one kind of step takes a tag or a deletion wait from an existing row    *)
(* without leave: the put of defaults by a tag update that had read no row.*)
DefaultsPut(r) ==
    /\ calls[r].step = "init tags"
    /\ calls'[r].step # "init tags"
    /\ settings' = DefaultRow

OnlyDefaultsLoseWrites ==
    [][\/ \E r \in Requests : DefaultsPut(r)
       \/ /\ \A t \in TagsChanged : WrittenByOwner(t)
          /\ LeavesPending =>
                \/ settings'.version = settings.version + 1
                \/ \E r \in Requests : RestoreTakesEffect(r)]_vars

(* To its callers an existing account changes atomically, although a tag   *)
(* update and a restore are two calls and what they read may lag: the      *)
(* races are those of AccountLife, which has none.                         *)
Life == INSTANCE AccountLife WITH row <- settings, now <- clock

AccountIsAtomic == Life!Spec

==============================================================================
