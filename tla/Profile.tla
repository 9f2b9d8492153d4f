------------------------------ MODULE Profile ------------------------------
(***************************************************************************)
(* The PROFILE item of one customer, with the password that lives in it,   *)
(* and the copies of it that containers keep in their caches: the profile  *)
(* by customer id and the credentials by e-mail address as it was typed.   *)
(*                                                                         *)
(* One action per call to the table, the index or the cache.  The cache of *)
(* a container is the LossyMap of TTLCache: a lookup may always miss, so   *)
(* eviction is no action.  The writes of an item are numbered by their     *)
(* place in its history; a read may return any version that was current at *)
(* most Lag ago.  The e-mail address of a profile never changes.           *)
(*                                                                         *)
(* A definition named X_Y is a broken variant of X, by the mistake Y.      *)
(***************************************************************************)
EXTENDS Integers, Sequences

CONSTANTS
    Containers,
    Requests,     \* slots for the requests in flight, of all containers
    Spellings,    \* ways in which the e-mail address is typed
    AsStored,     \* the one the profile has, in lower case
    Ttl,          \* lifetime of a cache entry
    Lag,          \* how long an overwritten version may still be read
    Horizon       \* bound: versions of the item and instants, together

ASSUME TtlAssumption == Ttl \in Nat
ASSUME LagAssumption == Lag \in Nat

VARIABLES
    versions,     \* the history of the PROFILE item; the last is current
    cache,        \* cache[c][k]: the entry of container c under key k
    calls,        \* calls[r]: what request r remembers between its steps
    promised,     \* history: promised[c][k], the version that c must not
                  \* serve older copies than, after what it has answered
    clock

vars == <<versions, cache, calls, promised, clock>>

ASSUME SpellingsAssumption == AsStored \in Spellings /\ "profile" \notin Spellings

(* The profile is cached by customer id, the credentials by the address as *)
(* typed.                                                                  *)
Keys == {"profile"} \cup Spellings

(* password is the number of the version that set it.                      *)
Version == [state : {"there", "gone"}, password : Nat, since : Nat]

(* note is a history variable of a copy on its way into a cache: "late"    *)
(* when the version read was not current, or its key was purged since.     *)
Notes == {"sound", "late"}
Entry == [version : Nat, expires : Nat, filling : Nat,
          note : Notes \cup {"none"}]
NoEntry == [version |-> 0, expires |-> 0, filling |-> 0, note |-> "none"]

Operations == {"none", "get", "update", "soft", "erase", "blind erase"}
Steps == {"idle", "read", "fill", "put", "items", "purge", "forget"}
Call == [op : Operations, step : Steps, container : Containers, key : Keys,
         version : Nat, at : Nat, note : Notes]
At(op, step, c, k, v, at, note) ==
    [op |-> op, step |-> step, container |-> c, key |-> k,
     version |-> v, at |-> at, note |-> note]

Latest  == Len(versions)
Current == versions[Latest]

TypeOK ==
    /\ versions \in Seq(Version) /\ versions # <<>>
    /\ cache \in [Containers -> [Keys -> Entry]]
    /\ calls \in [Requests -> Call]
    /\ promised \in [Containers -> [Keys -> Nat]]
    /\ clock \in Nat

Init ==
    /\ versions = <<[state |-> "there", password |-> 1, since |-> 0]>>
    /\ cache = [c \in Containers |-> [k \in Keys |-> NoEntry]]
    /\ \E c \in Containers :
          calls = [r \in Requests |-> At("none", "idle", c, "profile", 0, 0, "sound")]
    /\ promised = [c \in Containers |-> [k \in Keys |-> 1]]
    /\ clock = 0

------------------------------------------------------------------------------
(* Helpers                                                                 *)

Later(m, n) == IF m < n THEN n ELSE m

(* An eventually consistent read: the current version or one replaced at   *)
(* most Lag ago.                                                           *)
Readable == {v \in 1..Latest :
                v = Latest \/ versions[v + 1].since + Lag >= clock}

Soundness(v) == IF v = Latest THEN "sound" ELSE "late"

Write(state, password) ==
    /\ Latest + clock < Horizon
    /\ versions' = Append(versions,
          [state |-> state, password |-> password, since |-> clock])

Done(call) == At("none", "idle", call.container, "profile", 0, 0, "sound")

End(r) == calls' = [calls EXCEPT ![r] = Done(@)]

(* GetProfile, called by DeleteProfile too, which goes on with the erase:  *)
(* without the address if there was no profile.                            *)
Answered(call, found) ==
    IF call.op = "get" THEN Done(call)
    ELSE At(IF found THEN "erase" ELSE "blind erase", "items",
            call.container, "profile", 0, 0, "sound")

------------------------------------------------------------------------------
(* GetProfile and GetCredentials: cache, table, cache.  An erase begins    *)
(* with GetProfile.                                                        *)

Get(c, k) == At("get", "read", c, k, 0, 0, "sound")
Erase(c)  == At("erase", "read", c, "profile", 0, 0, "sound")

Lookups(c) == {Get(c, k) : k \in Keys} \cup {Erase(c)}

Live(entry) == entry.note # "none" /\ clock <= entry.expires

CacheAfterHit_Sliding(c, k) ==
    [cache EXCEPT ![c][k].expires = clock + Ttl]

CacheAfterHit(c, k) == cache

Hit(r, call) ==
    /\ calls[r].step = "idle"
    /\ Live(cache[call.container][call.key])
    /\ calls' = [calls EXCEPT ![r] = Answered(call, TRUE)]
    /\ cache' = CacheAfterHit(call.container, call.key)
    /\ UNCHANGED <<versions, promised, clock>>

Miss(r, call) ==
    /\ calls[r].step = "idle"
    /\ calls' = [calls EXCEPT ![r] = call]
    /\ UNCHANGED <<versions, cache, promised, clock>>

(* The address is looked up in an index that lags, and a batch may leave   *)
(* its key unprocessed: both are answered "not found".                     *)
NotResolved(call) == call.key # "profile"

(* GetItem; for credentials, the index and then BatchGetItem.  "Not found" *)
(* is not cached.                                                          *)
Read(r) ==
    LET call == calls[r] IN
    /\ call.step = "read"
    /\ \/ \E v \in Readable :
             calls' = [calls EXCEPT ![r] =
                IF versions[v].state = "there"
                THEN At(call.op, "fill", call.container, call.key, v, clock,
                        Soundness(v))
                ELSE Answered(call, FALSE)]
       \/ NotResolved(call) /\ End(r)
    /\ UNCHANGED <<versions, cache, promised, clock>>

Fill(r) ==
    LET call == calls[r] IN
    /\ call.step = "fill"
    /\ cache' = [cache EXCEPT ![call.container][call.key] =
          [version |-> call.version, expires |-> clock + Ttl,
           filling |-> clock - call.at, note |-> call.note]]
    /\ calls' = [calls EXCEPT ![r] = Answered(call, TRUE)]
    /\ UNCHANGED <<versions, promised, clock>>

------------------------------------------------------------------------------
(* The writers                                                             *)

(* A write of the item by request r, which goes on with one of next.       *)
WriteBy(r, state, password, next) ==
    /\ Write(state, password)
    /\ \E call \in next : calls' = [calls EXCEPT ![r] = call]

(* UpdateUser: the whole item is read, changed and put back without a      *)
(* condition, password and all.  The put may be done and reported failed.  *)
BeginUpdate(r, c) ==
    /\ calls[r].step = "idle"
    /\ \E v \in Readable :
          /\ versions[v].state = "there"
          /\ calls' = [calls EXCEPT ![r] =
                At("update", "put", c, "profile", v, clock, "sound")]
    /\ UNCHANGED <<versions, cache, promised, clock>>

KeptPassword_Fresh(v) == 0

KeptPassword_Unset(v) == -1

KeptPassword(v) == versions[v].password

PutProfile(r) ==
    LET call == calls[r] IN
    /\ call.step = "put"
    /\ WriteBy(r, "there", KeptPassword(call.version),
          {At("update", "purge", call.container, "profile", Latest + 1, 0, "sound"),
           Done(call)})
    /\ UNCHANGED <<cache, promised, clock>>

(* UpdateUserCredentials: one conditional write, no cache is touched.      *)
UpdateCredentials ==
    /\ Current.state = "there"
    /\ Write("there", Latest + 1)
    /\ UNCHANGED <<cache, calls, promised, clock>>

CreateUser ==
    /\ Current.state = "gone"
    /\ Write("there", Latest + 1)
    /\ UNCHANGED <<cache, calls, promised, clock>>

(* DeleteUser, the second call of DeleteProfile: the listing lags and may  *)
(* not have the item.  The deletion may be done and reported failed.  The  *)
(* request remembers which version of the item its answer speaks of.       *)
EraseItem(r) ==
    LET call == calls[r]
        Erased(v) == At(call.op, "purge", call.container, "profile", v, 0, "sound")
    IN
    /\ call.step = "items"
    /\ \/ /\ Current.state = "there"
          /\ WriteBy(r, "gone", 0, {Erased(Latest + 1), Done(call)})
       \/ /\ \E v \in Readable :
                /\ versions[v].state = "gone"
                /\ calls' = [calls EXCEPT ![r] = Erased(v)]
          /\ UNCHANGED versions
    /\ UNCHANGED <<cache, promised, clock>>

------------------------------------------------------------------------------
(* Invalidation, in the container that serves the request only.            *)

(* history: a fill under way is overtaken by the deletion of its key.      *)
Outrun(q, c, k) ==
    IF q.step = "fill" /\ q.container = c /\ q.key = k
    THEN At(q.op, q.step, q.container, q.key, q.version, q.at, "late")
    ELSE q

CacheWithout_Nothing(c, k) == cache

CacheWithout(c, k) == [cache EXCEPT ![c][k] = NoEntry]

Promise(c, keys, v) ==
    promised' = [promised EXCEPT ![c] =
       [k \in Keys |-> IF k \in keys THEN Later(@[k], v) ELSE @[k]]]

(* The request answers for version v of the item.                          *)
PurgeFor(r, c, v, after) ==
    /\ cache' = CacheWithout(c, "profile")
    /\ Promise(c, {"profile"}, v)
    /\ calls' = [q \in Requests |-> IF q = r THEN after
                                   ELSE Outrun(calls[q], c, "profile")]
    /\ UNCHANGED <<versions, clock>>

Purge(r) ==
    LET call == calls[r] IN
    /\ call.step = "purge"
    /\ PurgeFor(r, call.container, call.version,
          IF call.op = "erase"
          THEN At("erase", "forget", call.container, "profile", call.version, 0, "sound")
          ELSE Done(call))

(* SoftDeleteProfile begins with a write to SETTINGS and leaves the        *)
(* profile alone: it answers for the version it finds at each purge.       *)
SoftDelete(r, c) ==
    /\ calls[r].step = "idle"
    /\ PurgeFor(r, c, Latest, At("soft", "forget", c, "profile", 0, 0, "sound"))

(* credentialsCache.Delete(strings.ToLower(email)).  A soft delete reads   *)
(* the address first, and is answered without this step if it cannot.      *)
(* What an erase promises is not about one spelling.                       *)
Forget(r) ==
    LET call == calls[r] IN
    /\ call.step = "forget"
    /\ call.op = "soft" => \E v \in Readable : versions[v].state = "there"
    /\ cache' = CacheWithout(call.container, AsStored)
    /\ Promise(call.container,
               IF call.op = "erase" THEN Spellings ELSE {AsStored},
               IF call.op = "erase" THEN call.version ELSE Latest)
    /\ calls' = [q \in Requests |->
          IF q = r THEN Done(call)
          ELSE Outrun(calls[q], call.container, AsStored)]
    /\ UNCHANGED <<versions, clock>>

------------------------------------------------------------------------------
(* A call to the table that fails, or finds no profile after a soft        *)
(* delete, ends its request.                                               *)
Fail(r) ==
    /\ \/ calls[r].step \in {"read", "put", "items"}
       \/ calls[r].step = "forget" /\ calls[r].op = "soft"
    /\ End(r)
    /\ UNCHANGED <<versions, cache, promised, clock>>

(* A container dies with its requests and its caches.                      *)
Restart(c) ==
    /\ cache' = [cache EXCEPT ![c] = [k \in Keys |-> NoEntry]]
    /\ promised' = [promised EXCEPT ![c] = [k \in Keys |-> 1]]
    /\ calls' = [r \in Requests |-> IF calls[r].container = c THEN Done(calls[r])
                                    ELSE calls[r]]
    /\ UNCHANGED <<versions, clock>>

Tick ==
    /\ Latest + clock < Horizon
    /\ clock' = clock + 1
    /\ cache' = [c \in Containers |-> [k \in Keys |->
          IF cache[c][k].expires < clock + 1 THEN NoEntry ELSE cache[c][k]]]
    /\ UNCHANGED <<versions, calls, promised>>

Next ==
    \/ \E r \in Requests, c \in Containers :
          \/ \E call \in Lookups(c) : Hit(r, call) \/ Miss(r, call)
          \/ BeginUpdate(r, c)
          \/ SoftDelete(r, c)
    \/ \E r \in Requests :
          \/ Read(r)
          \/ Fill(r)
          \/ PutProfile(r)
          \/ EraseItem(r)
          \/ Purge(r)
          \/ Forget(r)
          \/ Fail(r)
    \/ \E c \in Containers : Restart(c)
    \/ UpdateCredentials
    \/ CreateUser
    \/ Tick

Spec == Init /\ [][Next]_vars

------------------------------------------------------------------------------
(* Properties                                                              *)

(* What a cache serves, and what a request is about to store in it, was    *)
(* current not longer ago than the lifetime of an entry, the time its fill *)
(* took from read to store, and the lag of the read.  No invalidation is   *)
(* needed for it: it bounds the wait for a changed password everywhere.    *)
StalenessBounded ==
    \A c \in Containers, k \in Keys :
        LET entry == cache[c][k] IN
        Live(entry) /\ entry.version < Latest =>
            versions[entry.version + 1].since + Lag + entry.filling + Ttl >= clock

(* After a container has purged a key for an update, an erase or a soft    *)
(* delete, it serves nothing under it that is older than the update, the   *)
(* erase or the version a soft delete found, unless the read of that copy  *)
(* lagged or its fill was under way when the key was purged.  (A soft      *)
(* delete that cannot read the address does not purge the credentials.)    *)
PromisesKept(keys) ==
    \A c \in Containers, k \in keys :
        Live(cache[c][k]) /\ cache[c][k].note = "sound"
            => promised[c][k] <= cache[c][k].version

InvalidationReaches == PromisesKept({"profile", AsStored})

(* What docs/HLD.md says of an erase: the cached profile and credentials   *)
(* go with it, whatever the spelling under which they were asked for.      *)
ErasedIsForgotten == PromisesKept(Keys)

(* An update puts back a password that the item had when the update read   *)
(* it, or at most Lag before: it may undo a change of the password and an  *)
(* erase that came since, but nothing older, however long they take.       *)
UpdateUndoesOnlyRecent ==
    [][\A r \in Requests : PutProfile(r) =>
          \E v \in 1..Latest :
             /\ versions[v].state = "there"
             /\ versions[v].password = Current'.password
             /\ v < Latest => versions[v + 1].since + Lag >= calls[r].at]_vars

(* What docs/HLD.md says of every update: it is partial, and leaves the    *)
(* fields it does not name, here the password, as they are.                *)
UpdateIsPartial ==
    [][\A r \in Requests : PutProfile(r) =>
          /\ Current.state = "there"
          /\ Current'.password = Current.password]_vars

==============================================================================
