------------------------------ MODULE LossyMap ------------------------------
(***************************************************************************)
(* What the in-process cache promises its callers, without its map, its    *)
(* cap and its evictions: a lookup answers with what was last stored under *)
(* the key, if that is not past its expiry when the answer is given, or    *)
(* with nothing.  It may answer with nothing at any time.                  *)
(***************************************************************************)
EXTENDS Integers

CONSTANTS
    Callers,      \* goroutines that use the cache
    Keys,
    Values,
    NoValue,      \* the answer of a miss
    Ttl,          \* how long a stored value may be served
    MaxTime       \* bound: the last instant of the clock

VARIABLES
    now,          \* the clock
    latest,       \* latest[k]: the entry last stored under k, or Missing
    lookup        \* lookup[c]: the lookup of caller c

vars == <<now, latest, lookup>>

Time    == 0..MaxTime
Entry   == [value : Values, expiresAt : 0..(MaxTime + Ttl)]
Missing == [value |-> NoValue, expiresAt |-> -1]
Lookup  == [step   : {"idle", "found"},
            found  : Entry \cup {Missing},
            answer : Values \cup {NoValue}]

(* time.Now().After(expiresAt) is strict: the instant of expiry is served. *)
Expired(entry) == now > entry.expiresAt

Init ==
    /\ now = 0
    /\ latest = [k \in Keys |-> Missing]
    /\ lookup = [c \in Callers |->
                   [step |-> "idle", found |-> Missing, answer |-> NoValue]]

Tick ==
    /\ now < MaxTime
    /\ now' = now + 1
    /\ UNCHANGED <<latest, lookup>>

(* A value becomes the latest of its key; its stamp may be older than the  *)
(* moment it is stored, never newer.                                       *)
Put(k, entry) ==
    /\ entry.expiresAt <= now + Ttl
    /\ latest' = [latest EXCEPT ![k] = entry]
    /\ UNCHANGED <<now, lookup>>

Forget(k) ==
    /\ latest' = [latest EXCEPT ![k] = Missing]
    /\ UNCHANGED <<now, lookup>>

Find(c, k) ==
    /\ lookup[c].step = "idle"
    /\ lookup' = [lookup EXCEPT ![c] =
          [step |-> "found", found |-> latest[k], answer |-> @.answer]]
    /\ UNCHANGED <<now, latest>>

Reply(c) ==
    /\ lookup[c].step = "found"
    /\ ~Expired(lookup[c].found)
    /\ lookup' = [lookup EXCEPT ![c] =
          [step |-> "idle", found |-> Missing, answer |-> @.found.value]]
    /\ UNCHANGED <<now, latest>>

Miss(c) ==
    /\ lookup' = [lookup EXCEPT ![c] =
          [step |-> "idle", found |-> Missing, answer |-> NoValue]]
    /\ UNCHANGED <<now, latest>>

Next ==
    \/ Tick
    \/ \E k \in Keys : Forget(k) \/ \E entry \in Entry : Put(k, entry)
    \/ \E c \in Callers : Reply(c) \/ Miss(c) \/ \E k \in Keys : Find(c, k)

Spec == Init /\ [][Next]_vars
=============================================================================
