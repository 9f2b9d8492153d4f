------------------------------ MODULE Erasure ------------------------------
(***************************************************************************)
(* The hard erase of one customer: the items under the customer's key are  *)
(* listed, deleted in chunks, and then the stored exports are deleted.  It *)
(* runs while the customer's other requests do, any of its calls may fail, *)
(* and a worker outside this code starts it again until it succeeds.       *)
(*                                                                         *)
(* One item stands for the items of a kind: what is kept of it is whether  *)
(* it is there.  DeleteProfile begins by reading the profile and drops the *)
(* cached copies after the items; both are in module Profile, and neither  *)
(* answer changes what is erased.                                          *)
(*                                                                         *)
(* A definition named X_Y is a broken variant of X, by the mistake Y.      *)
(***************************************************************************)
EXTENDS Integers, FiniteSets

CONSTANTS
    Workers,     \* slots for the erases in flight
    Requests,    \* slots for the requests that write after a read
    ExportIds,   \* ids of the exports
    ChunkSize,   \* items of one transaction (100 in the code)
    PageSize,    \* objects of one listing (1000)
    MaxWrites    \* bound: items put in a behaviour

ASSUME SizesAssumption == /\ ChunkSize \in Nat \ {0}
                          /\ PageSize \in Nat \ {0}
                          /\ MaxWrites \in Nat

VARIABLES
    items,       \* the kinds of item that are in the table
    unsettled,   \* those whose coming or going a read may not see yet
    objects,     \* the exports and the avatar that are stored
    erases,      \* erases[w]: what the erase of worker w remembers
    requests,    \* requests[r]: what request r is about to write
    wanted,      \* the worker has an erase to do
    writes

vars == <<items, unsettled, objects, erases, requests, wanted, writes>>

(* The kinds, by the order of their sort keys.                             *)
Order == [ADDR |-> 1, CONSENT |-> 2, PASSKEY |-> 3, PAY |-> 4, PREFS |-> 5,
          PROFILE |-> 6, SETTINGS |-> 7]
Kinds == DOMAIN Order

Objects == ExportIds \cup {"avatar"}

ASSUME IdsAssumption == ExportIds \cap (Kinds \cup {"avatar"}) = {}

(* late is a history variable: what this erase can not have deleted.  An   *)
(* item is late when it was written after the listing, or was not visible  *)
(* to it yet; an export when it was stored after the listing, lies beyond  *)
(* its page, or was refused by S3; the avatar when uploaded after the      *)
(* listing of the items.                                                   *)
Stages == {"idle", "list", "delete", "exports", "remove", "erased"}
Erase  == [step : Stages, todo : SUBSET Kinds, page : SUBSET ExportIds,
           late : SUBSET (Kinds \cup Objects)]
At(step, todo, page, late) ==
    [step |-> step, todo |-> todo, page |-> page, late |-> late]
Idle == At("idle", {}, {}, {})

Writes == {"none", "profile", "defaults", "export", "avatar"}

TypeOK ==
    /\ items \subseteq Kinds
    /\ unsettled \subseteq Kinds
    /\ objects \subseteq Objects
    /\ erases \in [Workers -> Erase]
    /\ requests \in [Requests -> Writes]
    /\ wanted \in BOOLEAN
    /\ writes \in 0..MaxWrites
    /\ \A w \in Workers :
          /\ erases[w].step = "delete" <=> erases[w].todo # {}
          /\ erases[w].step = "remove" <=> erases[w].page # {}

Init ==
    /\ items = {}
    /\ unsettled = {}
    /\ objects = {}
    /\ erases = [w \in Workers |-> Idle]
    /\ requests = [r \in Requests |-> "none"]
    /\ wanted = FALSE
    /\ writes = 0

------------------------------------------------------------------------------
(* Helpers                                                                 *)

Stored == objects \cap ExportIds

Listable == {(items \ unsettled) \cup seen : seen \in SUBSET unsettled}

MaySee(k)  == k \in items \cup unsettled
MayMiss(k) == k \notin items \ unsettled

(* Replaces the items, whose comings and goings are unsettled for a while. *)
Become(kinds) ==
    /\ items' = kinds
    /\ unsettled' = unsettled \cup (items \ kinds) \cup (kinds \ items)

Passed(key) ==
    IF key \in ExportIds THEN {"remove", "erased"}
    ELSE {"delete", "exports", "remove", "erased"}

Note(keys) ==
    erases' = [w \in Workers |->
        [erases[w] EXCEPT !.late =
            @ \cup {key \in keys : erases[w].step \in Passed(key)}]]

Put(kinds) ==
    /\ writes < MaxWrites
    /\ writes' = writes + 1
    /\ Become(items \cup kinds)
    /\ Note(kinds)
    /\ UNCHANGED <<objects, wanted>>

Drop(k) ==
    /\ k \in items
    /\ Become(items \ {k})
    /\ UNCHANGED <<objects, erases, requests, wanted, writes>>

Store(object) ==
    /\ objects' = objects \cup {object}
    /\ Note({object})
    /\ UNCHANGED <<items, unsettled, wanted, writes>>

Settle ==
    /\ unsettled' = {}
    /\ UNCHANGED <<items, objects, erases, requests, wanted, writes>>

------------------------------------------------------------------------------
(* The customer's requests that write in one call: puts without a          *)
(* condition, but for the sign-up and the passkey.  Every consent record   *)
(* has a key of its own.                                                   *)

CreateUser ==
    /\ items \cap {"PROFILE", "SETTINGS"} = {}
    /\ Put({"PROFILE", "SETTINGS"})
    /\ UNCHANGED requests

CreateAddress    == Put({"ADDR"}) /\ UNCHANGED requests
UpsertPayment    == Put({"PAY"}) /\ UNCHANGED requests
AppendConsentLog == Put({"CONSENT"}) /\ UNCHANGED requests

CreatePasskey ==
    /\ "PASSKEY" \notin items
    /\ Put({"PASSKEY"})
    /\ UNCHANGED requests

(* A request that names an unknown channel, or sets nothing, writes        *)
(* nothing; any other creates the item if there is none.                   *)
AllKnown(channels) == channels \subseteq {"known"}

UpdatePreferences(channels, fields) ==
    /\ AllKnown(channels)
    /\ fields # {} \/ channels # {}
    /\ Put({"PREFS"})
    /\ UNCHANGED requests

DeleteAddress     == Drop("ADDR")
DeletePayment     == Drop("PAY")
DeletePasskey     == Drop("PASSKEY")
DeletePreferences == Drop("PREFS")

------------------------------------------------------------------------------
(* Those that read first and write without looking again.                  *)

Begin(r, write) ==
    /\ requests[r] = "none"
    /\ requests' = [requests EXCEPT ![r] = write]
    /\ UNCHANGED <<items, unsettled, objects, erases, wanted, writes>>

End(r) == requests' = [requests EXCEPT ![r] = "none"]

BeginUpdateUser(r) == MaySee("PROFILE") /\ Begin(r, "profile")

PutProfile(r) ==
    /\ requests[r] = "profile"
    /\ Put({"PROFILE"})
    /\ End(r)

BeginTags(r) == MayMiss("SETTINGS") /\ Begin(r, "defaults")

PutDefaults(r) ==
    /\ requests[r] = "defaults"
    /\ Put({"SETTINGS"})
    /\ End(r)

(* ExportProfile reads the profile, then the other kinds one by one, none  *)
(* of which has to be there, and stores what it read under a fresh id.     *)
BeginExport(r) == MaySee("PROFILE") /\ Begin(r, "export")

StoreExport(r, id) ==
    /\ requests[r] = "export"
    /\ id \notin objects
    /\ Store(id)
    /\ End(r)

(* GetAvatarUploadURL reads nothing; the customer may upload until the     *)
(* link expires.                                                           *)
GetAvatarUploadURL(r) == Begin(r, "avatar")

Upload(r) ==
    /\ requests[r] = "avatar"
    /\ Store("avatar")
    /\ UNCHANGED requests

(* A call failed, the container stopped, or the link expired.              *)
GiveUp(r) ==
    /\ requests[r] # "none"
    /\ End(r)
    /\ UNCHANGED <<items, unsettled, objects, erases, wanted, writes>>

------------------------------------------------------------------------------
(* The erase                                                               *)

(* The account has been pending deletion for long enough.                  *)
FallDue ==
    /\ wanted' = TRUE
    /\ UNCHANGED <<items, unsettled, objects, erases, requests, writes>>

BeginErase(w) ==
    /\ wanted /\ erases[w].step = "idle"
    /\ erases' = [erases EXCEPT ![w] = At("list", {}, {}, {})]
    /\ UNCHANGED <<items, unsettled, objects, requests, wanted, writes>>

(* DeleteUser: nothing to delete is a success, so that an erase that got   *)
(* this far before still reaches the exports.                              *)
AfterListing_NotFound(listed) ==
    IF listed = {} THEN "idle" ELSE "delete"

AfterListing(listed) ==
    IF listed = {} THEN "exports" ELSE "delete"

ListItems(w) ==
    /\ erases[w].step = "list"
    /\ \E listed \in Listable :
          erases' = [erases EXCEPT ![w] =
             At(AfterListing(listed), listed, {}, items \ listed)]
    /\ UNCHANGED <<items, unsettled, objects, requests, wanted, writes>>

FirstOf(kinds, n) ==
    {k \in kinds : Cardinality({j \in kinds : Order[j] < Order[k]}) < n}

Chunk(todo) == FirstOf(todo, ChunkSize)

Rest_OffByOne(todo) == todo \ FirstOf(todo, ChunkSize + 1)

Rest(todo) == todo \ Chunk(todo)

DeleteChunk(w) ==
    LET todo == erases[w].todo IN
    /\ erases[w].step = "delete"
    /\ Become(items \ Chunk(todo))
    /\ erases' = [erases EXCEPT ![w] =
          At(IF Rest(todo) = {} THEN "exports" ELSE "delete",
             Rest(todo), {}, erases[w].late \ Chunk(todo))]
    /\ UNCHANGED <<objects, requests, wanted, writes>>

(* deleteS3Exports: one page of the listing, and one call that deletes it; *)
(* what S3 says of the single objects is not looked at.                    *)
AfterPage_Always(page) == "remove"

AfterPage(page) == IF page = {} THEN "erased" ELSE "remove"

ListExports(w) ==
    /\ erases[w].step = "exports"
    /\ \E page \in SUBSET Stored :
          /\ Cardinality(page) <= PageSize
          /\ page = Stored \/ Cardinality(page) = PageSize
          /\ erases' = [erases EXCEPT ![w] =
                At(AfterPage(page), {}, page, @.late \cup (Stored \ page))]
    /\ UNCHANGED <<items, unsettled, objects, requests, wanted, writes>>

RemoveExports(w) ==
    LET page == erases[w].page IN
    /\ erases[w].step = "remove"
    /\ \E refused \in SUBSET page :
          /\ objects' = objects \ (page \ refused)
          /\ erases' = [erases EXCEPT ![w] =
                At("erased", {}, {}, @.late \cup refused)]
    /\ UNCHANGED <<items, unsettled, requests, wanted, writes>>

Confirm(w) ==
    /\ erases[w].step = "erased"
    /\ erases' = [erases EXCEPT ![w] = Idle]
    /\ wanted' = FALSE
    /\ UNCHANGED <<items, unsettled, objects, requests, writes>>

(* A call fails, or the container stops: DeleteProfile ends with an error. *)
Fail(w) ==
    /\ erases[w].step \in {"list", "delete", "exports", "remove"}
    /\ erases' = [erases EXCEPT ![w] = Idle]
    /\ UNCHANGED <<items, unsettled, objects, requests, wanted, writes>>

(* Or the deletion was done, but its answer got lost.                      *)
FailAfterDelete(w) ==
    /\ erases[w].step \in {"delete", "remove"}
    /\ IF erases[w].step = "delete"
       THEN Become(items \ Chunk(erases[w].todo)) /\ UNCHANGED objects
       ELSE /\ objects' = objects \ erases[w].page
            /\ UNCHANGED <<items, unsettled>>
    /\ erases' = [erases EXCEPT ![w] = Idle]
    /\ UNCHANGED <<requests, wanted, writes>>

------------------------------------------------------------------------------
Customer(r) ==
    \/ BeginUpdateUser(r) \/ PutProfile(r)
    \/ BeginTags(r) \/ PutDefaults(r)
    \/ BeginExport(r) \/ \E id \in ExportIds : StoreExport(r, id)
    \/ GetAvatarUploadURL(r) \/ Upload(r)
    \/ GiveUp(r)

EraseStep(w) ==
    \/ BeginErase(w) \/ ListItems(w) \/ DeleteChunk(w)
    \/ ListExports(w) \/ RemoveExports(w) \/ Confirm(w)
    \/ Fail(w) \/ FailAfterDelete(w)

Next ==
    \/ CreateUser \/ CreateAddress \/ UpsertPayment \/ AppendConsentLog
    \/ CreatePasskey
    \/ \E channels \in SUBSET {"known", "unknown"}, fields \in SUBSET {"other"} :
          UpdatePreferences(channels, fields)
    \/ DeleteAddress \/ DeletePayment \/ DeletePasskey \/ DeletePreferences
    \/ \E r \in Requests : Customer(r)
    \/ \E w \in Workers : EraseStep(w)
    \/ FallDue \/ Settle

(* The worker starts again whenever an erase is due and none is running,   *)
(* and a call that is made again and again succeeds at last.  Nothing is   *)
(* assumed of the customer's requests.                                     *)
Fairness ==
    /\ WF_vars(Settle)
    /\ \A w \in Workers :
          /\ WF_vars(BeginErase(w)) /\ WF_vars(Confirm(w))
          /\ SF_vars(ListItems(w)) /\ SF_vars(DeleteChunk(w))
          /\ SF_vars(ListExports(w)) /\ SF_vars(RemoveExports(w))

Spec == Init /\ [][Next]_vars /\ Fairness

------------------------------------------------------------------------------
(* Properties                                                              *)

(* When DeleteProfile reports success, every item and export that is still *)
(* there escaped this very attempt: it came, or became visible, after the  *)
(* listing, or was left to chance by the listing of the exports and by the *)
(* answer to their deletion.  Failed attempts and answers that got lost,   *)
(* at any call and any number of times, leave nothing else behind.         *)
LeftoversAreLate ==
    \A w \in Workers :
        erases[w].step = "erased" => items \cup Stored \subseteq erases[w].late

(* An erase that has become due is done at last, although each of its      *)
(* calls may fail half-way and the customer goes on writing: an attempt is *)
(* not stopped by what the attempts before it have deleted already.        *)
EraseCompletes == wanted ~> ~wanted

==============================================================================
