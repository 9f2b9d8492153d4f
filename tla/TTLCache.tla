------------------------------ MODULE TTLCache ------------------------------
(***************************************************************************)
(* The generic cache of internal/cache, with one entry lifetime as both    *)
(* its users have.  Its map is a sync.Map: a load, a store and a delete of *)
(* one key are atomic, and nothing else is.  A Range visits every key once *)
(* in some order; each visit sees the key as it is at that moment, so a    *)
(* key stored or deleted during the Range may be seen or missed.           *)
(*                                                                         *)
(* Get is a load, a look at the clock and perhaps a delete.  Set counts    *)
(* the entries, may look for an entry to evict and delete it, and stores.  *)
(* The evictor deletes what it saw expired.  These steps interleave.       *)
(*                                                                         *)
(* latest and overlaps are history variables.                              *)
(* A definition named X_Y is a broken variant of X, by the mistake Y.      *)
(***************************************************************************)
EXTENDS Integers, FiniteSets

CONSTANTS
    Callers,      \* goroutines that use the cache
    Keys,
    Values,
    NoValue,      \* the answer of a miss
    NoKey,        \* no victim was chosen
    Ttl,          \* the ttl that every Set is given
    MaxEntries,   \* the cap; 0 is no cap
    MaxProbe,     \* how many entries evictOne looks at (32)
    MaxTime,      \* bound: the last instant of the clock
    MaxOverlaps   \* bound: how many Sets begin while another is in progress

ASSUME NoValueAssumption == NoValue \notin Values
ASSUME NoKeyAssumption == NoKey \notin Keys
ASSUME KeysAssumption == IsFiniteSet(Keys)
ASSUME TtlAssumption == Ttl \in Nat
ASSUME MaxEntriesAssumption == MaxEntries \in Nat
ASSUME MaxProbeAssumption == MaxProbe \in Nat \ {0}
ASSUME MaxTimeAssumption == MaxTime \in Nat
ASSUME MaxOverlapsAssumption == MaxOverlaps \in Nat

VARIABLES
    now,          \* the clock
    m,            \* m[k]: the entry of key k, or Missing
    calls,        \* calls[c]: the Get or Set of caller c
    swept,        \* the key the evictor is about to delete, or NoKey
    latest,       \* latest[k]: the entry last stored and not deleted by a caller
    overlaps      \* how many Sets began while another was in progress

vars == <<now, m, calls, swept, latest, overlaps>>

Time    == 0..MaxTime
Entry   == [value : Values, expiresAt : 0..(MaxTime + Ttl)]
Missing == [value |-> NoValue, expiresAt |-> -1]

GetSteps == {"check", "purge"}
SetSteps == {"measure", "sample", "evict", "store"}

(* entry is what a Get loaded or what a Set is to store; left and size are *)
(* the keys a Range has yet to visit and the entries it has met; since is  *)
(* when the sampling began; answer is what the last Get returned.          *)
Call == [step   : {"idle"} \cup GetSteps \cup SetSteps,
         key    : Keys \cup {NoKey},
         entry  : [value : Values \cup {NoValue}, expiresAt : -1..(MaxTime + Ttl)],
         left   : SUBSET Keys,
         size   : 0..(MaxEntries + MaxProbe),
         since  : Time,
         victim : Keys \cup {NoKey},
         answer : Values \cup {NoValue}]

TypeOK ==
    /\ now \in Time
    /\ m \in [Keys -> Entry \cup {Missing}]
    /\ calls \in [Callers -> Call]
    /\ swept \in Keys \cup {NoKey}
    /\ latest \in [Keys -> Entry \cup {Missing}]
    /\ overlaps \in 0..MaxOverlaps

At(step, key, entry, answer) ==
    [step |-> step, key |-> key, entry |-> entry, left |-> {}, size |-> 0,
     since |-> 0, victim |-> NoKey, answer |-> answer]

Idle(answer) == At("idle", NoKey, Missing, answer)

Init ==
    /\ now = 0
    /\ m = [k \in Keys |-> Missing]
    /\ calls = [c \in Callers |-> Idle(NoValue)]
    /\ swept = NoKey
    /\ latest = [k \in Keys |-> Missing]
    /\ overlaps = 0

Expired_Never(entry) == entry = Missing
Expired(entry) == now > entry.expiresAt

Size == Cardinality({k \in Keys : m[k] # Missing})

Remove(k) == m' = [m EXCEPT ![k] = Missing]

Tick ==
    /\ now < MaxTime
    /\ now' = now + 1
    /\ UNCHANGED <<m, calls, swept, latest, overlaps>>

------------------------------------------------------------------------------
(* Get: the load; a missing key answers at once.                           *)
Load(c, k) ==
    /\ calls[c].step = "idle"
    /\ calls' = [calls EXCEPT ![c] =
          IF m[k] = Missing THEN Idle(NoValue)
          ELSE At("check", k, m[k], @.answer)]
    /\ UNCHANGED <<now, m, swept, latest, overlaps>>

Check(c) ==
    /\ calls[c].step = "check"
    /\ calls' = [calls EXCEPT ![c] =
          IF Expired(@.entry) THEN [@ EXCEPT !.step = "purge"]
          ELSE Idle(@.entry.value)]
    /\ UNCHANGED <<now, m, swept, latest, overlaps>>

(* The delete of an expired entry removes whatever the key now holds.      *)
Purge(c) ==
    /\ calls[c].step = "purge"
    /\ Remove(calls[c].key)
    /\ calls' = [calls EXCEPT ![c] = Idle(NoValue)]
    /\ UNCHANGED <<now, swept, latest, overlaps>>

------------------------------------------------------------------------------
(* Set: expiresAt is computed last, before the store.                      *)
Stamped_Unset(call) == [call EXCEPT !.step = "store"]

Stamped(call) ==
    At("store", call.key,
       [value |-> call.entry.value, expiresAt |-> now + Ttl], call.answer)

InSet(c) == calls[c].step \in SetSteps

BeginSet(c, k, v) ==
    /\ calls[c].step = "idle"
    /\ LET asked == At("measure", k, [value |-> v, expiresAt |-> -1],
                       calls[c].answer)
       IN  calls' = [calls EXCEPT ![c] =
              IF MaxEntries > 0 THEN [asked EXCEPT !.left = Keys]
              ELSE Stamped(asked)]
    /\ IF \E d \in Callers : InSet(d)
       THEN overlaps < MaxOverlaps /\ overlaps' = overlaps + 1
       ELSE UNCHANGED overlaps
    /\ UNCHANGED <<now, m, swept, latest>>

(* One visit of the Range that counts; it stops as soon as the cap is met. *)
Measure(c, k) ==
    /\ calls[c].step = "measure"
    /\ k \in calls[c].left
    /\ calls[c].size < MaxEntries
    /\ calls' = [calls EXCEPT ![c].left = @ \ {k},
                              ![c].size = IF m[k] = Missing THEN @ ELSE @ + 1]
    /\ UNCHANGED <<now, m, swept, latest, overlaps>>

Measured(c) ==
    /\ calls[c].step = "measure"
    /\ calls[c].left = {} \/ calls[c].size = MaxEntries
    /\ calls' = [calls EXCEPT ![c] =
          IF @.size >= MaxEntries
          THEN [@ EXCEPT !.step = "sample", !.left = Keys, !.size = 0, !.since = now]
          ELSE Stamped(@)]
    /\ UNCHANGED <<now, m, swept, latest, overlaps>>

(* One visit of the Range of evictOne: the first entry met is the victim   *)
(* unless one that was expired when the sampling began turns up.           *)
FirstMet_Dropped(call, k) == NoKey
FirstMet(call, k) == IF call.size = 0 THEN k ELSE call.victim

Seen(call, k) ==
    IF m[k] = Missing THEN [call EXCEPT !.left = @ \ {k}]
    ELSE IF call.since > m[k].expiresAt
    THEN [call EXCEPT !.step = "evict", !.victim = k]
    ELSE [call EXCEPT !.left = @ \ {k}, !.size = @ + 1, !.victim = FirstMet(call, k)]

Sample(c, k) ==
    /\ calls[c].step = "sample"
    /\ k \in calls[c].left
    /\ calls[c].size < MaxProbe
    /\ calls' = [calls EXCEPT ![c] = Seen(@, k)]
    /\ UNCHANGED <<now, m, swept, latest, overlaps>>

Sampled(c) ==
    /\ calls[c].step = "sample"
    /\ calls[c].left = {} \/ calls[c].size = MaxProbe
    /\ calls' = [calls EXCEPT ![c] =
          IF @.victim # NoKey THEN [@ EXCEPT !.step = "evict"] ELSE Stamped(@)]
    /\ UNCHANGED <<now, m, swept, latest, overlaps>>

Evict(c) ==
    /\ calls[c].step = "evict"
    /\ Remove(calls[c].victim)
    /\ calls' = [calls EXCEPT ![c] = Stamped(@)]
    /\ UNCHANGED <<now, swept, latest, overlaps>>

Store(c) ==
    /\ calls[c].step = "store"
    /\ m' = [m EXCEPT ![calls[c].key] = calls[c].entry]
    /\ latest' = [latest EXCEPT ![calls[c].key] = calls[c].entry]
    /\ calls' = [calls EXCEPT ![c] = Idle(@.answer)]
    /\ UNCHANGED <<now, swept, overlaps>>

------------------------------------------------------------------------------
(* Delete is one step; a caller that deletes keeps nothing about it.       *)
Delete(k) ==
    /\ Remove(k)
    /\ latest' = [latest EXCEPT ![k] = Missing]
    /\ UNCHANGED <<now, calls, swept, overlaps>>

(* The background evictor's Range, one visit at a time, on every tick.     *)
SweepVisit(k) ==
    /\ swept = NoKey
    /\ m[k] # Missing
    /\ Expired(m[k])
    /\ swept' = k
    /\ UNCHANGED <<now, m, calls, latest, overlaps>>

SweepDelete ==
    /\ swept # NoKey
    /\ Remove(swept)
    /\ swept' = NoKey
    /\ UNCHANGED <<now, calls, latest, overlaps>>

GetNext(c) == Check(c) \/ Purge(c) \/ \E k \in Keys : Load(c, k)

SetNext(c) ==
    \/ Measured(c) \/ Sampled(c) \/ Evict(c) \/ Store(c)
    \/ \E k \in Keys : \/ Measure(c, k) \/ Sample(c, k)
                       \/ \E v \in Values : BeginSet(c, k, v)

Next ==
    \/ Tick \/ SweepDelete
    \/ \E k \in Keys : Delete(k) \/ SweepVisit(k)
    \/ \E c \in Callers : GetNext(c) \/ SetNext(c)

Spec == Init /\ [][Next]_vars

------------------------------------------------------------------------------
(* The cap gives way only to concurrent stores, and for each of them by    *)
(* one entry: Set counts, evicts and stores in three steps, so two Sets    *)
(* may count the same room or evict the same entry.  What is gained that   *)
(* way stays: a later Set evicts one entry for the one it stores.          *)
CapSlack == MaxEntries > 0 => Size <= MaxEntries + overlaps

(* The map, the cap, the sampling and the evictor together keep the        *)
(* promise of LossyMap: no interleaving serves an expired entry, an entry  *)
(* that was replaced or deleted before the lookup, or one of another key.  *)
Answering(call) ==
    [step   |-> IF call.step \in GetSteps THEN "found" ELSE "idle",
     found  |-> IF call.step \in GetSteps THEN call.entry ELSE Missing,
     answer |-> call.answer]

Lookups == [c \in Callers |-> Answering(calls[c])]

Lossy == INSTANCE LossyMap WITH lookup <- Lookups

ServesLatest == Lossy!Spec
=============================================================================
