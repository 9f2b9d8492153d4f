------------------------------ MODULE Passkeys ------------------------------
(***************************************************************************)
(* The passkey items of one customer (SK = PASSKEY#<credential id>):       *)
(* registration, the sign-count update of a login, and revocation.         *)
(*                                                                         *)
(* An update is one conditional write; when the condition fails the        *)
(* request reads the item again to tell a missing credential from a        *)
(* regressed sign count, and anything may happen before that read.         *)
(*                                                                         *)
(* The sign count (uint32) is only compared, never computed with.          *)
(* A definition named X_Y is a broken variant of X, by the mistake Y.      *)
(***************************************************************************)
EXTENDS Integers, FiniteSets

CONSTANTS
    Requests,     \* slots for the updates in flight
    Credentials,  \* credential ids
    MaxCount      \* bound: the largest sign count an authenticator sends

ASSUME RequestsAssumption == IsFiniteSet(Requests)
ASSUME MaxCountAssumption == MaxCount \in Nat

VARIABLES
    stored,       \* stored[c]: the sign count of credential c, or Absent
    unsettled,    \* the credentials whose coming or going a read may not see yet
    calls         \* calls[r]: what request r remembers between its steps

vars == <<stored, unsettled, calls>>

Absent == -1
Count  == 0..MaxCount

(* refusal and since are history variables: why the conditional write was  *)
(* refused, and what has happened since that may make the answer differ.   *)
(* answer is what the request told its caller last.                        *)
Events == {"registered", "revoked", "read failed", "read lagged"}
Call == [step       : {"idle", "diagnose"},
         credential : Credentials,
         refusal    : {"none", "missing", "regressed"},
         since      : SUBSET Events,
         answer     : {"none", "updated", "not found", "regression"}]
At(step, c, refusal, since, answer) ==
    [step |-> step, credential |-> c, refusal |-> refusal, since |-> since,
     answer |-> answer]

TypeOK ==
    /\ stored \in [Credentials -> Count \cup {Absent}]
    /\ unsettled \subseteq Credentials
    /\ calls \in [Requests -> Call]

Init ==
    /\ stored = [c \in Credentials |-> Absent]
    /\ unsettled = {}
    /\ \E c \in Credentials :
          calls = [r \in Requests |-> At("idle", c, "none", {}, "none")]

------------------------------------------------------------------------------
Settle ==
    /\ unsettled' = {}
    /\ UNCHANGED <<stored, calls>>

Note(c, event) ==
    calls' = [r \in Requests |->
        IF calls[r].step = "diagnose" /\ calls[r].credential = c
        THEN At("diagnose", c, calls[r].refusal, calls[r].since \cup {event}, "none")
        ELSE calls[r]]

(* CreatePasskey: one Put on the condition that the item does not exist;   *)
(* otherwise the request is answered "already exists".                     *)
MayCreate_Always(c) == TRUE

MayCreate(c) == stored[c] = Absent

AddPasskey(c, n) ==
    /\ MayCreate(c)
    /\ stored' = [stored EXCEPT ![c] = n]
    /\ unsettled' = unsettled \cup {c}
    /\ Note(c, "registered")

(* Revoking a credential that is gone succeeds and changes nothing.        *)
DeletePasskey(c) ==
    /\ stored[c] # Absent
    /\ stored' = [stored EXCEPT ![c] = Absent]
    /\ unsettled' = unsettled \cup {c}
    /\ Note(c, "revoked")

(* The condition of the update: attribute_exists(SK) AND #sc <= :new.      *)
Accepts(c, new) ==
    /\ stored[c] # Absent
    /\ stored[c] <= new

Refusal(c) == IF stored[c] = Absent THEN "missing" ELSE "regressed"

UpdatePasskey(r, c, new) ==
    /\ calls[r].step = "idle"
    /\ \/ /\ Accepts(c, new)
          /\ stored' = [stored EXCEPT ![c] = new]
          /\ calls' = [calls EXCEPT ![r] = At("idle", c, "none", {}, "updated")]
       \/ /\ ~Accepts(c, new)
          /\ calls' = [calls EXCEPT ![r] = At("diagnose", c, Refusal(c), {}, "none")]
          /\ UNCHANGED stored
    /\ UNCHANGED unsettled

(* The read after a refusal, which may lag.  Any failure of it, not only a *)
(* missing item, is answered "not found"; success, "regression".           *)
Diagnosis_Refusal(found) == IF found THEN "regressed" ELSE "missing"

Diagnosis_NoRead(found) == "regression"

Diagnosis(found) == IF found THEN "regression" ELSE "not found"

Diagnose(r) ==
    LET c == calls[r].credential
        Answer(found, events) ==
            calls' = [calls EXCEPT ![r] =
               At("idle", c, @.refusal, @.since \cup events, Diagnosis(found))]
    IN
    /\ calls[r].step = "diagnose"
    /\ \/ Answer(stored[c] # Absent, {})
       \/ c \in unsettled /\ Answer(stored[c] = Absent, {"read lagged"})
       \/ Answer(FALSE, {"read failed"})
    /\ UNCHANGED <<stored, unsettled>>

------------------------------------------------------------------------------
Next ==
    \/ \E c \in Credentials, n \in Count : AddPasskey(c, n)
    \/ \E c \in Credentials : DeletePasskey(c)
    \/ \E r \in Requests, c \in Credentials, n \in Count : UpdatePasskey(r, c, n)
    \/ \E r \in Requests : Diagnose(r)
    \/ Settle

Spec == Init /\ [][Next]_vars

------------------------------------------------------------------------------
(* Properties                                                              *)

(* While a credential lives, its stored sign count never goes down, not    *)
(* even when two logins that read different counts write in either order   *)
(* and a second registration of the same credential comes between them.    *)
SignCountMonotone ==
    [][\A c \in Credentials :
          stored[c] # Absent /\ stored'[c] # Absent => stored[c] <= stored'[c]]_vars

(* The read that explains a refusal is a second look, so the answer may be *)
(* wrong in both directions; but a regressed sign count is answered "not   *)
(* found" only if the credential was revoked after the refusal, or the     *)
(* read failed or lagged, and a missing credential "regression" only if it *)
(* was registered after the refusal, or the read lagged.                   *)
AnswersAreExplained ==
    \A r \in Requests :
        LET call == calls[r] IN
        /\ call.answer = "not found" /\ call.refusal = "regressed"
              => call.since \cap {"revoked", "read failed", "read lagged"} # {}
        /\ call.answer = "regression" /\ call.refusal = "missing"
              => call.since \cap {"registered", "read lagged"} # {}

==============================================================================
