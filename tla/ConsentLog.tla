----------------------------- MODULE ConsentLog -----------------------------
(***************************************************************************)
(* The consent log of one customer and channel (SK = CONSENT#<channel>#    *)
(* <recorded at>) and the unsubscribe links that append to it.  A link is  *)
(* a signed token with an expiry and an id (jti); clicking it reads the    *)
(* latest record and appends an opt-out unless that record came from the   *)
(* same token.  Mail clients fetch links more than once, so a token may be *)
(* clicked any number of times, also while an earlier click is running.    *)
(*                                                                         *)
(* No code writes an opt-in, so every record is an opt-out.  Signatures    *)
(* that do not verify are refused before anything is read, and are left    *)
(* out; channels and customers have keys of their own, so one is enough.   *)
(* A definition named X_Y is a broken variant of X, by the mistake Y.      *)
(***************************************************************************)
EXTENDS Integers, Sequences, FiniteSets

CONSTANTS
    Requests,  \* slots for the clicks being handled
    Tokens,    \* the tokens minted for this customer and channel
    Digits,    \* digits of a fraction of a second (9 in the code)
    Base,      \* the base of a digit (10 in the code)
    Lifetime,  \* how long a token is valid, in seconds (30 days)
    ReadMode,  \* "consistent", or "eventual": reads may return an earlier state
    MaxClock   \* bound: the clock stops here

ASSUME SetsAssumption   == IsFiniteSet(Requests) /\ IsFiniteSet(Tokens)
ASSUME BoundsAssumption == /\ Digits \in Nat
                           /\ Base \in Nat \ {0, 1}
                           /\ Lifetime \in Nat
                           /\ ReadMode \in {"consistent", "eventual"}
                           /\ MaxClock \in Nat

VARIABLES
    expires,   \* expires[t]: the last second of token t, or Unminted
    log,       \* the records: the token that made each, and when
    lagged,    \* the state of the log that a lagging read returns
    calls,     \* calls[r]: what click r remembers between its steps
    answered,  \* the tokens some click was told are recorded
    clock      \* time.Now(), in ticks of the smallest fraction

vars == <<expires, log, lagged, calls, answered, clock>>

Unminted == -1
Time     == 0..MaxClock

Second   == Base ^ Digits         \* in ticks of the clock
Unix(at) == at \div Second

\* What ^ is: the provers do not know it.
ASSUME PowersAssumption ==
    /\ Base ^ 0 = 1
    /\ \A i \in 1..Digits : Base ^ i = Base * (Base ^ (i - 1))

Record == [jti : Tokens, at : Time]

(* since is the time at which the click went on to append.  read is a      *)
(* history variable: its read lagged, or it was the link's first, which    *)
(* had no record yet, or it was neither.                                   *)
Call == [step : {"idle", "append"}, jti : Tokens, since : Time,
         read : {"none", "lagged", "first", "repeated"}]
At(step, t, since, read) ==
    [step |-> step, jti |-> t, since |-> since, read |-> read]

TypeOK ==
    /\ expires \in [Tokens -> {Unminted} \cup (0..(MaxClock + Lifetime))]
    /\ log \subseteq Record
    /\ lagged \subseteq Record
    /\ calls \in [Requests -> Call]
    /\ answered \subseteq Tokens
    /\ clock \in Time

Init ==
    /\ expires = [t \in Tokens |-> Unminted]
    /\ log = {}
    /\ lagged = {}
    /\ \E t \in Tokens : calls = [r \in Requests |-> At("idle", t, 0, "none")]
    /\ answered = {}
    /\ clock = 0

------------------------------------------------------------------------------
(* The sort key of a record                                                *)

(* RFC3339Nano writes the fraction of a second without its trailing zeros, *)
(* and no point when nothing is left; the Z that ends the key is greater   *)
(* than the point and than every digit.  A key is the sequence of the      *)
(* whole seconds, the digits that are left, and Z.                         *)
Digit(at, i) == ((at % Second) \div (Base ^ (Digits - i))) % Base

Written(at) ==
    {i \in 1..Digits : \E j \in i..Digits : Digit(at, j) # 0}

Z == Base

SortKey(at) ==
    <<Unix(at)>>
        \o [i \in 1..Cardinality(Written(at)) |-> Digit(at, i)]
        \o <<Z>>

\* The order of DynamoDB's keys: that of their first difference.
Before(k, l) ==
    \E i \in 1..Len(k) :
        /\ i <= Len(l)
        /\ k[i] < l[i]
        /\ \A j \in 1..(i - 1) : k[j] = l[j]

(* GetLatestConsent: the query in descending key order, one record.        *)
Latest_Ascending(records) ==
    {x \in records :
        \A y \in records \ {x} : Before(SortKey(x.at), SortKey(y.at))}

Latest(records) ==
    {x \in records :
        \A y \in records \ {x} : Before(SortKey(y.at), SortKey(x.at))}

------------------------------------------------------------------------------
Replicate ==
    /\ ReadMode = "eventual"
    /\ lagged' = log
    /\ UNCHANGED <<expires, log, calls, answered, clock>>

Advance ==
    /\ clock < MaxClock
    /\ clock' = clock + 1
    /\ UNCHANGED <<expires, log, lagged, calls, answered>>

------------------------------------------------------------------------------
(* MintUnsubscribeToken: the customer was found, and a fresh id is drawn.  *)
Mint(t) ==
    /\ expires[t] = Unminted
    /\ expires' = [expires EXCEPT ![t] = Unix(clock) + Lifetime]
    /\ UNCHANGED <<log, lagged, calls, answered, clock>>

(* VerifyAndRecordUnsubscribe: the token is valid, and the latest record   *)
(* is read.  If it came from this token the click is answered; otherwise   *)
(* the request goes on to append.                                          *)
Valid(t) ==
    /\ expires[t] # Unminted
    /\ Unix(clock) <= expires[t]

Readable == {log} \cup (IF ReadMode = "eventual" THEN {lagged} ELSE {})

AlreadyRecorded_AnyOptOut(read, t) == Latest(read) # {}

AlreadyRecorded_Never(read, t) == FALSE

AlreadyRecorded(read, t) == \E x \in Latest(read) : x.jti = t

Recorded(t) == \E x \in log : x.jti = t

ReadAs(read, t) ==
    CASE read # log                  -> "lagged"
      [] read = log /\ ~Recorded(t)  -> "first"
      [] read = log /\ Recorded(t)   -> "repeated"

Verify(r, t) ==
    /\ calls[r].step = "idle"
    /\ Valid(t)
    /\ \E read \in Readable :
         \/ /\ AlreadyRecorded(read, t)
            /\ answered' = answered \cup {t}
            /\ UNCHANGED calls
         \/ /\ ~AlreadyRecorded(read, t)
            /\ calls' = [calls EXCEPT ![r] =
                  At("append", t, clock, ReadAs(read, t))]
            /\ UNCHANGED answered
    /\ UNCHANGED <<expires, log, lagged, clock>>

(* AppendConsentLog: the container stamps the record, and the write lands  *)
(* some time later, on the condition that no record has the same key.  If  *)
(* one has, the click fails.                                               *)
KeyFree(at) == \A x \in log : SortKey(x.at) # SortKey(at)

Close(r) == calls' = [calls EXCEPT ![r] = At("idle", @.jti, 0, "none")]

AppendConsentLog_Overwrite(r) ==
    /\ calls[r].step = "append"
    /\ \E at \in calls[r].since..clock :
         log' = {x \in log : x.at # at} \cup {[jti |-> calls[r].jti, at |-> at]}
    /\ answered' = answered \cup {calls[r].jti}
    /\ Close(r)
    /\ UNCHANGED <<expires, lagged, clock>>

AppendConsentLog_NoStamp(r) ==
    /\ calls[r].step = "append"
    /\ log' = log \cup {[jti |-> calls[r].jti, at |-> Unminted]}
    /\ answered' = answered \cup {calls[r].jti}
    /\ Close(r)
    /\ UNCHANGED <<expires, lagged, clock>>

AppendConsentLog(r) ==
    /\ calls[r].step = "append"
    /\ \E at \in calls[r].since..clock :
         \/ /\ KeyFree(at)
            /\ log' = log \cup {[jti |-> calls[r].jti, at |-> at]}
            /\ answered' = answered \cup {calls[r].jti}
         \/ /\ ~KeyFree(at)
            /\ UNCHANGED <<log, answered>>
    /\ Close(r)
    /\ UNCHANGED <<expires, lagged, clock>>

(* The container dies, or a call fails, before the append.                 *)
Abandon(r) ==
    /\ calls[r].step = "append"
    /\ Close(r)
    /\ UNCHANGED <<expires, log, lagged, answered, clock>>

Next ==
    \/ \E t \in Tokens : Mint(t)
    \/ \E r \in Requests, t \in Tokens : Verify(r, t)
    \/ \E r \in Requests : AppendConsentLog(r) \/ Abandon(r)
    \/ Replicate
    \/ Advance

Spec == Init /\ [][Next]_vars

------------------------------------------------------------------------------
(* Properties                                                              *)

(* A consent record, once written, is never changed or lost, not even when *)
(* two containers append at the same instant and so under the same key.    *)
AppendOnly == [][log \subseteq log']_vars

(* A customer who was told that the opt-out is recorded finds a record     *)
(* made from that very link, whatever other clicks came in between.        *)
AnsweredIsRecorded ==
    \A t \in answered : Recorded(t)

(* The record a query finds by its key is of the same second as the newest *)
(* one: the order of keys may differ from that of time, but only within a  *)
(* second.                                                                 *)
LatestIsOfNewestSecond ==
    \A x \in Latest(log), y \in log : Unix(y.at) <= Unix(x.at)

(* A link that has a record gets another one only if the click read before *)
(* the link had any, or its read lagged, or another link's record follows  *)
(* one of its own: then it is not the latest, and the replay is not known. *)
Outranked(t) ==
    \E x, z \in log :
        x.jti = t /\ z.jti # t /\ Before(SortKey(x.at), SortKey(z.at))

RepeatsHaveACause ==
    [][\A r \in Requests :
          LET t == calls[r].jti IN
          calls[r].step = "append" /\ log' # log /\ calls'[r].step = "idle"
             /\ Recorded(t) /\ calls[r].read = "repeated"
          => Outranked(t)]_vars

==============================================================================
