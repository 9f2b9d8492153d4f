----------------------------- MODULE DefaultFlag -----------------------------
(***************************************************************************)
(* The is_default flag of a customer's addresses (ADDR#) or payment        *)
(* methods (PAY#).  A request that makes an item the default first writes  *)
(* the item with the flag on and then calls SetAddressDefault or           *)
(* SetPaymentDefault, which look for another default and take the flag     *)
(* from it: three calls to DynamoDB, between which other requests act.     *)
(*                                                                         *)
(* Both kinds of item run the same code on keys of their own; kind says    *)
(* which one a behaviour is about.  Everything else in an item is payload. *)
(*                                                                         *)
(* A definition named X_Y is a broken variant of X, by the mistake Y.      *)
(***************************************************************************)
EXTENDS Naturals, FiniteSets

CONSTANTS
    Requests,  \* slots for the requests in flight
    MaxId      \* bound: the number of item ids a customer uses

ASSUME RequestsAssumption == IsFiniteSet(Requests)
ASSUME MaxIdAssumption    == MaxId \in Nat \ {0}

VARIABLES
    kind,      \* "ADDR#" or "PAY#"
    items,     \* items[i]: the item with the i-th sort key
    calls      \* calls[r]: what request r remembers between its steps

vars == <<kind, items, calls>>

Ids   == 1..MaxId          \* in the order of the sort keys
NoId  == 0

Item == {"absent", "plain", "default"}

Flag_Unset(isDefault) == IF isDefault THEN "default" ELSE "unset"

Flag(isDefault) == IF isDefault THEN "default" ELSE "plain"

Call == [step   : {"idle", "query", "flip", "promote"},
         target : Ids \cup {NoId},
         old    : Ids \cup {NoId}]

Idle == [step |-> "idle", target |-> NoId, old |-> NoId]

Done(r) == calls' = [calls EXCEPT ![r] = Idle]

TypeOK ==
    /\ kind \in {"ADDR#", "PAY#"}
    /\ items \in [Ids -> Item]
    /\ calls \in [Requests -> Call]

Init ==
    /\ kind \in {"ADDR#", "PAY#"}
    /\ items = [i \in Ids |-> "absent"]
    /\ calls = [r \in Requests |-> Idle]

------------------------------------------------------------------------------
(* The first write of a request                                            *)

(* Go on to the enforcement of the default when the flag was sent on.      *)
ThenEnforce(r, id, isDefault) ==
    IF isDefault
    THEN calls' = [calls EXCEPT ![r] =
                      [step |-> "query", target |-> id, old |-> NoId]]
    ELSE UNCHANGED calls

(* An unconditional Put: a client may name the id of an item that exists   *)
(* and replace it.                                                         *)
Put(r, id, isDefault) ==
    /\ calls[r].step = "idle"
    /\ items' = [items EXCEPT ![id] = Flag(isDefault)]
    /\ ThenEnforce(r, id, isDefault)
    /\ UNCHANGED kind

AddAddress(r, id, isDefault) ==
    /\ kind = "ADDR#"
    /\ Put(r, id, isDefault)

UpsertPayment(r, id, isDefault) ==
    /\ kind = "PAY#"
    /\ Put(r, id, isDefault)

(* The partial update of an address that sends the flag; the condition     *)
(* attribute_exists answers "not found" for an item that is gone.          *)
UpdateAddress(r, id, isDefault) ==
    /\ kind = "ADDR#"
    /\ calls[r].step = "idle"
    /\ items[id] # "absent"
    /\ items' = [items EXCEPT ![id] = Flag(isDefault)]
    /\ ThenEnforce(r, id, isDefault)
    /\ UNCHANGED kind

Delete(id) ==
    /\ items[id] # "absent"
    /\ items' = [items EXCEPT ![id] = "absent"]
    /\ UNCHANGED <<kind, calls>>

------------------------------------------------------------------------------
(* SetAddressDefault and SetPaymentDefault                                 *)

Present == {i \in Ids : items[i] # "absent"}

(* The query has Limit 1 and a filter.  DynamoDB applies the limit to the  *)
(* items it evaluates, in key order, and the filter to what the limit      *)
(* left: only the first item of the customer can be found.                 *)
Evaluated == {i \in Present : \A j \in Present : i <= j}

Found(target) == {i \in Evaluated : items[i] = "default" /\ i # target}

(* A query that is answered.  DynamoDB answers this one only with the      *)
(* mention of SK taken out of its filter (see RefuseQuery): the steps that *)
(* follow are those the code takes on any answer.                          *)
QueryDefault(r) ==
    /\ calls[r].step = "query"
    /\ IF Found(calls[r].target) = {}
       THEN calls' = [calls EXCEPT ![r].step = "promote"]
       ELSE \E old \in Found(calls[r].target) :
               calls' = [calls EXCEPT ![r].step = "flip", ![r].old = old]
    /\ UNCHANGED <<kind, items>>

(* The filter names SK, a key attribute, and DynamoDB refuses such a query *)
(* (ValidationException): the request ends with an error, after its first  *)
(* write, and the items keep the flags they have.                          *)
RefuseQuery(r) ==
    /\ calls[r].step = "query"
    /\ Done(r)
    /\ UNCHANGED <<kind, items>>

(* One transaction of two updates, each on the condition that its item     *)
(* exists; it is cancelled as a whole if one of them is gone.              *)
FlipAccepted(c) ==
    /\ items[c.old] # "absent"
    /\ items[c.target] # "absent"

Flip_ListThenLoop(r) ==
    /\ calls[r].step = "flip"
    /\ items' = [items EXCEPT
          ![calls[r].old] = IF @ = "absent" THEN @ ELSE "plain",
          ![calls[r].target] = IF @ = "absent" THEN @ ELSE "default"]
    /\ Done(r)
    /\ UNCHANGED kind

Flip(r) ==
    /\ calls[r].step = "flip"
    /\ items' = IF FlipAccepted(calls[r])
                THEN [items EXCEPT ![calls[r].old] = "plain",
                                   ![calls[r].target] = "default"]
                ELSE items
    /\ Done(r)
    /\ UNCHANGED kind

(* No other default was found: one update of the target, if it exists.     *)
PromoteAccepted_NoCondition(c) == TRUE

PromoteAccepted(c) == items[c.target] # "absent"

Promote(r) ==
    /\ calls[r].step = "promote"
    /\ items' = IF PromoteAccepted(calls[r])
                THEN [items EXCEPT ![calls[r].target] = "default"]
                ELSE items
    /\ Done(r)
    /\ UNCHANGED kind

(* A call fails, or the container dies, between two steps.                 *)
Abandon(r) ==
    /\ calls[r].step # "idle"
    /\ Done(r)
    /\ UNCHANGED <<kind, items>>

------------------------------------------------------------------------------
FirstWrite(r) ==
    \E id \in Ids, isDefault \in BOOLEAN :
        \/ AddAddress(r, id, isDefault)
        \/ UpsertPayment(r, id, isDefault)
        \/ UpdateAddress(r, id, isDefault)

Enforce(r) ==
    \/ QueryDefault(r)
    \/ RefuseQuery(r)
    \/ Flip(r)
    \/ Promote(r)

Next ==
    \/ \E r \in Requests : FirstWrite(r) \/ Enforce(r) \/ Abandon(r)
    \/ \E id \in Ids : Delete(id)

Spec == Init /\ [][Next]_vars

------------------------------------------------------------------------------
(* Properties                                                              *)

(* A request that enforces a default never leaves the customer without     *)
(* one, and never takes the flag from an item without giving it to another *)
(* in the same step: there is no zero-defaults window, whatever deletions  *)
(* and other requests come between the query and the write.                *)
Demoted == {i \in Ids : items[i] = "default" /\ items'[i] = "plain"}

EnforcementStep ==
    \E r \in Requests :
        calls[r].step \in {"flip", "promote"} /\ calls'[r].step = "idle"

FlipKeepsADefault ==
    [][EnforcementStep /\ Demoted # {} =>
          \E j \in Ids : items'[j] = "default" /\ items[j] # "absent"]_vars

(* Enforcing a default never brings back an item that was deleted after    *)
(* the request wrote it: only a first write makes an item present.         *)
EnforcementNeverCreates ==
    [][EnforcementStep => \A i \in Ids : items[i] = "absent" =>
                                         items'[i] = "absent"]_vars

==============================================================================
