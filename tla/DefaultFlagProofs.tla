-------------------------- MODULE DefaultFlagProofs --------------------------
(* Theorems of DefaultFlag, for any number of requests and of items.       *)
EXTENDS DefaultFlag, TLAPS

LEMMA TypeInit == Init => TypeOK
BY DEF Init, TypeOK, Item, Call, Idle

(* What a first write leaves in calls.                                     *)
LEMMA ThenEnforceType ==
    ASSUME TypeOK, NEW r \in Requests, NEW id \in Ids, NEW isDefault,
           ThenEnforce(r, id, isDefault)
    PROVE  calls' \in [Requests -> Call]
<1>1. [step |-> "query", target |-> id, old |-> NoId] \in Call
    BY DEF Call
<1> QED
    BY <1>1 DEF TypeOK, ThenEnforce

LEMMA FlagType == \A isDefault : Flag(isDefault) \in Item
BY DEF Flag, Item

LEMMA FirstWriteType ==
    ASSUME TypeOK, NEW r \in Requests, FirstWrite(r)
    PROVE  TypeOK'
<1>1. PICK id \in Ids, isDefault \in BOOLEAN :
         /\ items' = [items EXCEPT ![id] = Flag(isDefault)]
         /\ ThenEnforce(r, id, isDefault)
         /\ UNCHANGED kind
    BY Zenon DEF FirstWrite, AddAddress, UpsertPayment, UpdateAddress, Put
<1>2. calls' \in [Requests -> Call]
    BY <1>1, ThenEnforceType
<1>3. items' \in [Ids -> Item]
    BY <1>1, FlagType DEF TypeOK
<1> QED
    BY <1>1, <1>2, <1>3 DEF TypeOK

LEMMA DoneType ==
    ASSUME TypeOK, NEW r \in Requests, Done(r)
    PROVE  calls' \in [Requests -> Call]
BY DEF TypeOK, Done, Idle, Call

LEMMA EnforceType ==
    ASSUME TypeOK, NEW r \in Requests, Enforce(r)
    PROVE  TypeOK'
<1>1. ASSUME QueryDefault(r) PROVE TypeOK'
    <2>1. calls' \in [Requests -> Call]
        <3>1. CASE Found(calls[r].target) = {}
            BY <1>1, <3>1 DEF QueryDefault, TypeOK, Call
        <3>2. CASE Found(calls[r].target) # {}
            <4>1. PICK old \in Found(calls[r].target) :
                     calls' = [calls EXCEPT ![r].step = "flip", ![r].old = old]
                BY <1>1, <3>2 DEF QueryDefault
            <4>2. old \in Ids
                BY <4>1 DEF Found, Evaluated, Present
            <4> QED
                BY <4>1, <4>2 DEF TypeOK, Call
        <3> QED
            BY <3>1, <3>2
    <2> QED
        BY <1>1, <2>1 DEF QueryDefault, TypeOK
<1>2. ASSUME Flip(r) PROVE TypeOK'
    BY <1>2, DoneType DEF Flip, TypeOK, Item
<1>3. ASSUME Promote(r) PROVE TypeOK'
    BY <1>3, DoneType DEF Promote, TypeOK, Item
<1>4. ASSUME RefuseQuery(r) PROVE TypeOK'
    BY <1>4, DoneType DEF RefuseQuery, TypeOK
<1> QED
    BY <1>1, <1>2, <1>3, <1>4 DEF Enforce

LEMMA TypeStep == TypeOK /\ [Next]_vars => TypeOK'
<1> SUFFICES ASSUME TypeOK, [Next]_vars PROVE TypeOK'
    OBVIOUS
<1>1. ASSUME NEW r \in Requests, Abandon(r) PROVE TypeOK'
    BY <1>1, DoneType DEF Abandon, TypeOK
<1>2. ASSUME NEW id \in Ids, Delete(id) PROVE TypeOK'
    BY <1>2 DEF Delete, TypeOK, Item
<1>3. CASE UNCHANGED vars
    BY <1>3 DEF TypeOK, vars
<1> QED
    BY <1>1, <1>2, <1>3, FirstWriteType, EnforceType DEF Next

(* Every reachable state is well typed: no item ends up with a flag that   *)
(* is neither on nor off, and no request loses what it was about to do.    *)
THEOREM TypeCorrect == Spec => []TypeOK
BY TypeInit, TypeStep, PTL DEF Spec

------------------------------------------------------------------------------
(* A request leaves the steps "flip" and "promote" in no other way than by *)
(* the write it was about to make, or by being abandoned.                  *)
LEMMA EnforcementIsAWrite ==
    ASSUME TypeOK, Next, NEW r \in Requests,
           calls[r].step \in {"flip", "promote"}, calls'[r].step = "idle"
    PROVE  \E q \in Requests : Flip(q) \/ Promote(q) \/ Abandon(q)
<1> SUFFICES ASSUME ~ \E q \in Requests : Flip(q) \/ Promote(q) \/ Abandon(q)
             PROVE  FALSE
    OBVIOUS
<1>1. ASSUME NEW q \in Requests, FirstWrite(q) PROVE FALSE
    <2>1. PICK id \in Ids, isDefault \in BOOLEAN :
             calls[q].step = "idle" /\ ThenEnforce(q, id, isDefault)
        BY <1>1, Zenon DEF FirstWrite, AddAddress, UpsertPayment, UpdateAddress, Put
    <2>2. q # r
        BY <2>1
    <2>3. calls' = calls \/ \E c : calls' = [calls EXCEPT ![q] = c]
        BY <2>1, Zenon DEF ThenEnforce
    <2> QED
        BY <2>2, <2>3 DEF TypeOK
<1>2. ASSUME NEW q \in Requests, QueryDefault(q) PROVE FALSE
    <2>1. calls[q].step = "query" /\ q # r
        BY <1>2 DEF QueryDefault
    <2> QED
        BY <1>2, <2>1 DEF QueryDefault, TypeOK
<1>3. ASSUME NEW id \in Ids, Delete(id) PROVE FALSE
    BY <1>3 DEF Delete
<1>4. ASSUME NEW q \in Requests, RefuseQuery(q) PROVE FALSE
    <2>1. calls[q].step = "query" /\ q # r
        BY <1>4 DEF RefuseQuery
    <2> QED
        BY <1>4, <2>1 DEF RefuseQuery, Done, TypeOK
<1> QED
    BY <1>1, <1>2, <1>3, <1>4 DEF Next, Enforce

(* A request that is under way knows which item it makes the default: its  *)
(* conditions and its writes are about an item, not about NoId.            *)
HasTarget ==
    \A r \in Requests : calls[r].step # "idle" => calls[r].target \in Ids

LEMMA TargetInit == Init => HasTarget
BY DEF Init, HasTarget, Idle

LEMMA TargetStep == TypeOK /\ HasTarget /\ [Next]_vars => HasTarget'
<1> SUFFICES ASSUME TypeOK, HasTarget, [Next]_vars,
                    NEW r \in Requests, calls'[r].step # "idle"
             PROVE  calls'[r].target \in Ids
    BY DEF HasTarget
<1>1. ASSUME NEW q \in Requests, FirstWrite(q)
      PROVE  calls'[r].target \in Ids
    <2>1. PICK id \in Ids, isDefault \in BOOLEAN : ThenEnforce(q, id, isDefault)
        BY <1>1, Zenon DEF FirstWrite, AddAddress, UpsertPayment, UpdateAddress, Put
    <2>2. \/ calls' = calls
          \/ calls' = [calls EXCEPT ![q] =
                [step |-> "query", target |-> id, old |-> NoId]]
        BY <2>1, Zenon DEF ThenEnforce
    <2> QED
        BY <2>2 DEF TypeOK, HasTarget
<1>2. ASSUME NEW q \in Requests, QueryDefault(q)
      PROVE  calls'[r].target \in Ids
    <2>1. calls[q].target \in Ids
        BY <1>2 DEF QueryDefault, HasTarget
    <2>2. calls[q] \in Call
        BY DEF TypeOK
    <2>3. calls'[q].target = calls[q].target
        BY <1>2, <2>2 DEF QueryDefault, TypeOK, Call
    <2>4. CASE q # r
        BY <1>2, <2>4 DEF QueryDefault, TypeOK, HasTarget
    <2> QED
        BY <2>1, <2>3, <2>4
<1>3. ASSUME NEW q \in Requests, Done(q)
      PROVE  calls'[r].target \in Ids
    BY <1>3 DEF Done, Idle, TypeOK, HasTarget
<1>4. CASE UNCHANGED calls
    BY <1>4 DEF HasTarget
<1> QED
    BY <1>1, <1>2, <1>3, <1>4
       DEF Next, Enforce, RefuseQuery, Flip, Promote, Abandon, Delete, vars

LEMMA TargetAlways == Spec => [](TypeOK /\ HasTarget)
BY TypeCorrect, TargetInit, TargetStep, PTL DEF Spec

LEMMA FlipStep ==
    ASSUME TypeOK, HasTarget, Next, EnforcementStep, Demoted # {}
    PROVE  \E j \in Ids : items'[j] = "default" /\ items[j] # "absent"
<1>1. PICK i \in Ids : items[i] = "default" /\ items'[i] = "plain"
    BY DEF Demoted
<1>2. PICK r \in Requests : Flip(r) \/ Promote(r) \/ Abandon(r)
    BY EnforcementIsAWrite DEF EnforcementStep
<1>3. CASE Flip(r)
    <2>1. FlipAccepted(calls[r])
        BY <1>1, <1>3 DEF Flip
    <2>2. calls[r].target \in Ids
        BY <1>3 DEF Flip, HasTarget
    <2> QED
        BY <1>3, <2>1, <2>2 DEF Flip, FlipAccepted, TypeOK
<1>4. CASE Promote(r)
    BY <1>1, <1>4 DEF Promote, TypeOK
<1>5. CASE Abandon(r)
    BY <1>1, <1>5 DEF Abandon
<1> QED
    BY <1>2, <1>3, <1>4, <1>5

LEMMA CreateStep ==
    ASSUME TypeOK, Next, EnforcementStep, NEW i \in Ids, items[i] = "absent"
    PROVE  items'[i] = "absent"
<1>1. PICK r \in Requests : Flip(r) \/ Promote(r) \/ Abandon(r)
    BY EnforcementIsAWrite DEF EnforcementStep
<1>2. CASE Flip(r)
    BY <1>2 DEF Flip, FlipAccepted, TypeOK
<1>3. CASE Promote(r)
    BY <1>3 DEF Promote, PromoteAccepted, TypeOK
<1>4. CASE Abandon(r)
    BY <1>4 DEF Abandon
<1> QED
    BY <1>1, <1>2, <1>3, <1>4

(* SetAddressDefault and SetPaymentDefault never open a window without a   *)
(* default: an item loses the flag only as another one gets it.            *)
THEOREM FlipsKeepADefault == Spec => FlipKeepsADefault
<1>1. TypeOK /\ HasTarget /\ [Next]_vars =>
        [EnforcementStep /\ Demoted # {} =>
            \E j \in Ids : items'[j] = "default" /\ items[j] # "absent"]_vars
    BY FlipStep
<1> QED
    BY <1>1, TargetAlways, PTL DEF Spec, FlipKeepsADefault

(* Neither of them brings back an item that was deleted while it worked.   *)
THEOREM EnforcementsNeverCreate == Spec => EnforcementNeverCreates
<1>1. TypeOK /\ [Next]_vars =>
        [EnforcementStep => \A i \in Ids : items[i] = "absent" =>
                                           items'[i] = "absent"]_vars
    BY CreateStep
<1> QED
    BY <1>1, TypeCorrect, PTL DEF Spec, EnforcementNeverCreates

==============================================================================
