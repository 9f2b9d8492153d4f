--------------------------- MODULE PasskeysProofs ---------------------------
(* Theorems of Passkeys, for any set of credentials, any number of         *)
(* concurrent updates and any largest sign count.                          *)
EXTENDS Passkeys, TLAPS

LEMMA AtIsCall ==
    ASSUME NEW step \in {"idle", "diagnose"}, NEW c \in Credentials,
           NEW refusal \in {"none", "missing", "regressed"},
           NEW since \in SUBSET Events,
           NEW answer \in {"none", "updated", "not found", "regression"}
    PROVE  At(step, c, refusal, since, answer) \in Call
BY DEF At, Call

(* Why a write was refused, and what has happened since, accounts for      *)
(* where the credential stands and for the answer.                         *)
Explained(call, standing) ==
    /\ call.step = "diagnose" =>
          /\ call.answer = "none"
          /\ call.refusal = "regressed" /\ standing = Absent
                => "revoked" \in call.since
          /\ call.refusal = "missing" /\ standing # Absent
                => "registered" \in call.since
    /\ call.answer = "not found" /\ call.refusal = "regressed"
          => call.since \cap {"revoked", "read failed", "read lagged"} # {}
    /\ call.answer = "regression" /\ call.refusal = "missing"
          => call.since \cap {"registered", "read lagged"} # {}

AnswersInv ==
    /\ TypeOK
    /\ \A r \in Requests : Explained(calls[r], stored[calls[r].credential])

(* One update goes on, and no credential comes or goes.                    *)
LEMMA OneCall ==
    ASSUME AnswersInv, NEW r \in Requests, NEW called \in Call,
           calls' = [calls EXCEPT ![r] = called],
           stored' \in [Credentials -> Count \cup {Absent}],
           UNCHANGED unsettled,
           \A c \in Credentials : stored'[c] = Absent <=> stored[c] = Absent,
           Explained(called, stored'[called.credential])
    PROVE  AnswersInv'
<1>1. TypeOK'
    BY DEF AnswersInv, TypeOK
<1>2. ASSUME NEW q \in Requests
      PROVE  Explained(calls'[q], stored'[calls'[q].credential])
    <2>1. CASE q = r
        BY <2>1 DEF AnswersInv, TypeOK
    <2>2. CASE q # r
        <3>1. calls'[q] = calls[q] /\ calls[q].credential \in Credentials
            BY <2>2 DEF AnswersInv, TypeOK, Call
        <3>2. Explained(calls[q], stored[calls[q].credential])
            BY DEF AnswersInv
        <3> QED
            BY <3>1, <3>2 DEF Explained
    <2> QED
        BY <2>1, <2>2
<1> QED
    BY <1>1, <1>2 DEF AnswersInv

(* A credential comes or goes, and every update that was refused on it     *)
(* takes note.                                                             *)
LEMMA NoteSteps ==
    ASSUME AnswersInv, NEW c \in Credentials, NEW n \in Count \cup {Absent},
           NEW event \in {"registered", "revoked"}, Note(c, event),
           stored' = [stored EXCEPT ![c] = n],
           unsettled' = unsettled \cup {c},
           n = Absent <=> event = "revoked"
    PROVE  AnswersInv'
<1>1. ASSUME NEW q \in Requests
      PROVE  /\ calls'[q] \in Call
             /\ Explained(calls'[q], stored'[calls'[q].credential])
    <2>1. /\ calls[q] \in Call
          /\ Explained(calls[q], stored[calls[q].credential])
        BY DEF AnswersInv, TypeOK
    <2>2. CASE calls[q].step = "diagnose" /\ calls[q].credential = c
        <3> DEFINE since == calls[q].since \cup {event}
                   called == At("diagnose", c, calls[q].refusal, since, "none")
        <3>1. calls'[q] = called /\ event \in since
            BY <2>2 DEF Note
        <3>2. since \in SUBSET Events
            BY <2>1 DEF Call, Events
        <3>3. calls[q].refusal \in {"none", "missing", "regressed"}
            BY <2>1 DEF Call
        <3> HIDE DEF since
        <3>4. called \in Call
            BY <3>2, <3>3, AtIsCall
        <3>5. stored'[c] = n
            BY DEF AnswersInv, TypeOK
        <3>6. Explained(called, n)
            BY <3>1 DEF Explained, At
        <3>7. called.credential = c
            BY DEF At
        <3> HIDE DEF called
        <3> QED
            BY <3>1, <3>4, <3>5, <3>6, <3>7
    <2>3. CASE ~(calls[q].step = "diagnose" /\ calls[q].credential = c)
        <3>1. calls'[q] = calls[q]
            BY <2>3 DEF Note
        <3>2. calls[q].step = "diagnose" =>
                 stored'[calls[q].credential] = stored[calls[q].credential]
            BY <2>1, <2>3 DEF AnswersInv, TypeOK, Call
        <3> QED
            BY <2>1, <3>1, <3>2 DEF Explained
    <2> QED
        BY <2>2, <2>3
<1>2. calls' \in [Requests -> Call]
    <2>1. calls' = [q \in Requests |-> calls'[q]]
        BY DEF Note
    <2> QED
        BY <1>1, <2>1
<1>3. TypeOK'
    BY <1>2 DEF AnswersInv, TypeOK
<1> QED
    BY <1>1, <1>3 DEF AnswersInv

LEMMA AnswersInit == Init => AnswersInv
<1> SUFFICES ASSUME Init PROVE AnswersInv
    OBVIOUS
<1>1. PICK c \in Credentials :
         calls = [r \in Requests |-> At("idle", c, "none", {}, "none")]
    BY DEF Init
<1>2. At("idle", c, "none", {}, "none") \in Call
    BY AtIsCall
<1>3. TypeOK
    BY <1>1, <1>2 DEF Init, TypeOK
<1>4. \A r \in Requests : Explained(calls[r], stored[calls[r].credential])
    BY <1>1 DEF Explained, At
<1> QED
    BY <1>3, <1>4 DEF AnswersInv

LEMMA UpdateStep ==
    ASSUME AnswersInv, NEW r \in Requests, NEW c \in Credentials, NEW n \in Count,
           UpdatePasskey(r, c, n)
    PROVE  AnswersInv'
<1>0. stored \in [Credentials -> Count \cup {Absent}]
    BY DEF AnswersInv, TypeOK
<1>1. CASE Accepts(c, n)
    <2> DEFINE called == At("idle", c, "none", {}, "updated")
    <2>1. called \in Call /\ Explained(called, stored'[called.credential])
        BY AtIsCall DEF Explained, At
    <2>2. /\ calls' = [calls EXCEPT ![r] = called] /\ UNCHANGED unsettled
          /\ stored' = [stored EXCEPT ![c] = n]
        BY <1>1 DEF UpdatePasskey
    <2>3. n # Absent /\ stored[c] # Absent
        BY <1>1, MaxCountAssumption DEF Accepts, Count, Absent
    <2>4. /\ stored' \in [Credentials -> Count \cup {Absent}]
          /\ \A d \in Credentials : stored'[d] = Absent <=> stored[d] = Absent
        BY <1>0, <2>2, <2>3
    <2> HIDE DEF called
    <2> QED
        BY <2>1, <2>2, <2>4, OneCall
<1>2. CASE ~Accepts(c, n)
    <2> DEFINE called == At("diagnose", c, Refusal(c), {}, "none")
    <2>1. called \in Call
        BY AtIsCall DEF Refusal
    <2>2. /\ calls' = [calls EXCEPT ![r] = called] /\ UNCHANGED unsettled
          /\ UNCHANGED stored
        BY <1>2 DEF UpdatePasskey
    <2>3. Explained(called, stored'[called.credential])
        BY <2>2 DEF Explained, At, Refusal
    <2> HIDE DEF called
    <2> QED
        BY <1>0, <2>1, <2>2, <2>3, OneCall
<1> QED
    BY <1>1, <1>2

LEMMA DiagnoseStep ==
    ASSUME AnswersInv, NEW r \in Requests, Diagnose(r)
    PROVE  AnswersInv'
<1> DEFINE call == calls[r]
           c == call.credential
           Said(answer, events) == At("idle", c, call.refusal, call.since \cup events, answer)
<1>1. /\ call \in Call /\ call.step = "diagnose" /\ Explained(call, stored[c])
      /\ stored \in [Credentials -> Count \cup {Absent}]
      /\ UNCHANGED <<stored, unsettled>>
    BY DEF Diagnose, AnswersInv, TypeOK
<1>2. ASSUME NEW called \in Call, called.credential = c,
             calls' = [calls EXCEPT ![r] = called], Explained(called, stored[c])
      PROVE  AnswersInv'
    <2>1. Explained(called, stored'[called.credential])
        BY <1>1, <1>2
    <2> QED
        BY <1>1, <1>2, <2>1, OneCall
<1>3. ASSUME NEW answer \in {"not found", "regression"}, NEW events \in SUBSET Events
      PROVE  Said(answer, events) \in Call /\ Said(answer, events).credential = c
    <2>1. /\ c \in Credentials /\ call.since \cup events \in SUBSET Events
          /\ call.refusal \in {"none", "missing", "regressed"}
        BY <1>1 DEF Call
    <2>2. Said(answer, events) \in Call
        BY <2>1, AtIsCall
    <2> QED
        BY <2>2 DEF At
<1>4. Explained(Said("regression", {}), stored[c]) \/ stored[c] = Absent
    BY <1>1 DEF Explained, At
<1>5. Explained(Said("not found", {}), stored[c]) \/ stored[c] # Absent
    BY <1>1 DEF Explained, At
<1>6. ASSUME NEW answer \in {"not found", "regression"}
      PROVE  Explained(Said(answer, {"read lagged"}), stored[c])
    BY DEF Explained, At
<1>7. Explained(Said("not found", {"read failed"}), stored[c])
    BY DEF Explained, At
<1>8. \E answer \in {"not found", "regression"}, events \in SUBSET Events :
         /\ calls' = [calls EXCEPT ![r] = Said(answer, events)]
         /\ Explained(Said(answer, events), stored[c])
    <2>1. {} \in SUBSET Events /\ {"read lagged"} \in SUBSET Events
          /\ {"read failed"} \in SUBSET Events
        BY DEF Events
    <2>2. CASE calls' = [calls EXCEPT ![r] = Said(Diagnosis(stored[c] # Absent), {})]
        <3>1. CASE stored[c] = Absent
            BY <1>5, <2>1, <2>2, <3>1 DEF Diagnosis
        <3>2. CASE stored[c] # Absent
            BY <1>4, <2>1, <2>2, <3>2 DEF Diagnosis
        <3> QED
            BY <3>1, <3>2
    <2>3. CASE calls' = [calls EXCEPT ![r] =
                  Said(Diagnosis(stored[c] = Absent), {"read lagged"})]
        <3>1. Diagnosis(stored[c] = Absent) \in {"not found", "regression"}
            BY DEF Diagnosis
        <3> QED
            BY <1>6, <2>1, <2>3, <3>1
    <2>4. CASE calls' = [calls EXCEPT ![r] = Said(Diagnosis(FALSE), {"read failed"})]
        <3>1. Diagnosis(FALSE) = "not found"
            BY DEF Diagnosis
        <3> QED
            BY <1>7, <2>1, <2>4, <3>1
    <2>5. calls \in [Requests -> Call]
        BY DEF AnswersInv, TypeOK
    <2> QED
        BY <2>2, <2>3, <2>4 DEF Diagnose
<1>9. PICK answer \in {"not found", "regression"}, events \in SUBSET Events :
         /\ calls' = [calls EXCEPT ![r] = Said(answer, events)]
         /\ Explained(Said(answer, events), stored[c])
    BY <1>8
<1>10. Said(answer, events) \in Call /\ Said(answer, events).credential = c
    BY <1>3
<1> HIDE DEF Said, c
<1> QED
    BY <1>2, <1>9, <1>10

LEMMA AnswersStep == AnswersInv /\ [Next]_vars => AnswersInv'
<1> SUFFICES ASSUME AnswersInv, [Next]_vars PROVE AnswersInv'
    OBVIOUS
<1>1. ASSUME NEW c \in Credentials, NEW n \in Count, AddPasskey(c, n)
      PROVE  AnswersInv'
    <2>1. n # Absent
        BY MaxCountAssumption DEF Count, Absent
    <2> QED
        BY <1>1, <2>1, NoteSteps DEF AddPasskey
<1>2. ASSUME NEW c \in Credentials, DeletePasskey(c)
      PROVE  AnswersInv'
    BY <1>2, NoteSteps DEF DeletePasskey
<1>3. ASSUME NEW r \in Requests, NEW c \in Credentials, NEW n \in Count,
             UpdatePasskey(r, c, n)
      PROVE  AnswersInv'
    BY <1>3, UpdateStep
<1>4. ASSUME NEW r \in Requests, Diagnose(r)
      PROVE  AnswersInv'
    BY <1>4, DiagnoseStep
<1>5. CASE Settle \/ UNCHANGED vars
    BY <1>5 DEF AnswersInv, TypeOK, Settle, vars
<1> QED
    BY <1>1, <1>2, <1>3, <1>4, <1>5 DEF Next

LEMMA Invariant == Spec => []AnswersInv
BY AnswersInit, AnswersStep, PTL DEF Spec

(* Every reachable state is well typed: no sequence of registrations,      *)
(* logins and revocations stores a count that no authenticator sent.       *)
THEOREM TypeCorrect == Spec => []TypeOK
<1>1. AnswersInv => TypeOK
    BY DEF AnswersInv
<1> QED
    BY <1>1, Invariant, PTL

(* A wrong explanation of a refused UpdatePasskey always has a cause: a    *)
(* registration or revocation since the refusal, or a read that failed or  *)
(* lagged.                                                                 *)
THEOREM AnswersExplained == Spec => []AnswersAreExplained
<1>1. AnswersInv => AnswersAreExplained
    BY DEF AnswersInv, Explained, AnswersAreExplained
<1> QED
    BY <1>1, Invariant, PTL

(* A sign count is an integer, and so is the mark of an absent item.       *)
LEMMA CountsAreIntegers == Count \cup {Absent} \subseteq Int
BY MaxCountAssumption DEF Count, Absent

(* The step behind SignCountMonotone: whoever writes a credential that is  *)
(* there compares with the count it replaces, in the same write.           *)
LEMMA MonotoneStep ==
    ASSUME TypeOK, [Next]_vars, NEW d \in Credentials,
           stored[d] # Absent, stored'[d] # Absent
    PROVE  stored[d] <= stored'[d]
<1> USE CountsAreIntegers DEF TypeOK
<1>0. stored[d] \in Int
    OBVIOUS
<1>1. ASSUME NEW c \in Credentials, NEW n \in Count, AddPasskey(c, n)
      PROVE  stored[d] <= stored'[d]
    BY <1>0, <1>1 DEF AddPasskey, MayCreate
<1>2. ASSUME NEW c \in Credentials, DeletePasskey(c)
      PROVE  stored[d] <= stored'[d]
    BY <1>0, <1>2 DEF DeletePasskey
<1>3. ASSUME NEW r \in Requests, NEW c \in Credentials, NEW n \in Count,
             UpdatePasskey(r, c, n)
      PROVE  stored[d] <= stored'[d]
    BY <1>0, <1>3 DEF UpdatePasskey, Accepts
<1>4. CASE UNCHANGED stored
    BY <1>0, <1>4
<1> QED
    BY <1>1, <1>2, <1>3, <1>4 DEF Next, vars, Diagnose, Settle

(* While a credential lives its sign count never goes down, whatever the   *)
(* interleaving of UpdatePasskey, AddPasskey and DeletePasskey.            *)
THEOREM SignCountsAreMonotone == Spec => SignCountMonotone
<1>1. TypeOK /\ [Next]_vars =>
        [\A c \in Credentials :
            stored[c] # Absent /\ stored'[c] # Absent
                => stored[c] <= stored'[c]]_vars
    BY MonotoneStep
<1> QED
    BY <1>1, TypeCorrect, PTL DEF Spec, SignCountMonotone

==============================================================================
