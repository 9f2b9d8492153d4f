-------------------------- MODULE ConsentLogProofs --------------------------
(* Theorems of ConsentLog, for any number of clicks and links, any         *)
(* resolution of the clock and any lifetime of a link.                     *)
EXTENDS ConsentLog, FiniteSetTheorems, SequenceTheorems,
        WellFoundedInduction, TLAPS

------------------------------------------------------------------------------
(* Arithmetic                                                              *)

(* A set of naturals that is not empty has a least element.                *)
LEMMA Least ==
    ASSUME NEW T \in SUBSET Nat, T # {}
    PROVE  \E n \in T : \A i \in T : n <= i
<1>1. PICK n \in T : \A i \in T : ~(<<i, n>> \in OpToRel(<, Nat))
    BY NatLessThanWellFounded, WFMin
<1>2. \A i \in T : ~(i < n)
    BY <1>1 DEF OpToRel
<1> QED
    BY <1>2

(* The powers of the base are positive.                                    *)
LEMMA Powers == \A i \in 0..Digits : Base ^ i \in Nat \ {0}
<1> DEFINE T == {i \in 0..Digits : Base ^ i \notin Nat \ {0}}
<1>1. SUFFICES ASSUME T # {} PROVE FALSE
    OBVIOUS
<1>0. T \in SUBSET Nat
    BY BoundsAssumption
<1>2. PICK n \in T : \A i \in T : n <= i
    <2> HIDE DEF T
    <2> QED
        BY <1>0, <1>1, Least
<1>3. n # 0
    BY PowersAssumption
<1>4. n \in 1..Digits /\ n - 1 \in 0..Digits /\ ~(n <= n - 1)
    BY <1>3, BoundsAssumption
<1>5. Base ^ (n - 1) \in Nat \ {0}
    BY <1>2, <1>4
<1>6. Base ^ n = Base * (Base ^ (n - 1))
    BY <1>4, PowersAssumption
<1>7. ASSUME NEW p \in Nat \ {0} PROVE Base * p \in Nat \ {0}
    BY BoundsAssumption
<1> QED
    BY <1>5, <1>6, <1>7
------------------------------------------------------------------------------
(* Answers                                                                 *)

(* What an answer rests on: reads return records of the log, so a link     *)
(* that was found in one is in the log.                                    *)
ConsentInv ==
    /\ TypeOK
    /\ lagged \subseteq log
    /\ AnsweredIsRecorded

LEMMA ReadsAreOfTheLog ==
    ASSUME ConsentInv, NEW read \in Readable, NEW t, AlreadyRecorded(read, t)
    PROVE  Recorded(t)
BY DEF ConsentInv, Readable, AlreadyRecorded, Latest, Recorded

(* The seconds of an instant lie between 0 and the instant itself.         *)
LEMMA Seconds == ASSUME NEW at \in Nat PROVE Unix(at) \in 0..at
<1>1. Second \in Nat \ {0}
    BY Powers, BoundsAssumption DEF Second
<1>2. PICK n \in Nat : n = Second /\ n > 0
    BY <1>1
<1>3. at \div n \in 0..at
    BY <1>2
<1> QED
    BY <1>2, <1>3 DEF Unix

LEMMA AtIsCall ==
    ASSUME NEW step \in {"idle", "append"}, NEW t \in Tokens, NEW since \in Time,
           NEW read \in {"none", "lagged", "first", "repeated"}
    PROVE  At(step, t, since, read) \in Call
BY DEF At, Call

LEMMA Zero == 0 \in Time
BY BoundsAssumption DEF Time

LEMMA ConsentInit == Init => ConsentInv
<1> SUFFICES ASSUME Init PROVE ConsentInv
    OBVIOUS
<1>1. PICK t \in Tokens : calls = [r \in Requests |-> At("idle", t, 0, "none")]
    BY DEF Init
<1>2. At("idle", t, 0, "none") \in Call
    BY AtIsCall, Zero
<1>3. calls \in [Requests -> Call]
    BY <1>1, <1>2
<1>4. expires \in [Tokens -> {Unminted} \cup (0..(MaxClock + Lifetime))]
    BY DEF Init
<1> QED
    BY <1>3, <1>4, Zero DEF Init, ConsentInv, TypeOK, AnsweredIsRecorded

LEMMA MintStep ==
    ASSUME ConsentInv, NEW t \in Tokens, Mint(t)
    PROVE  ConsentInv'
<1>1. clock \in 0..MaxClock /\ MaxClock \in Nat /\ Lifetime \in Nat
    BY BoundsAssumption DEF ConsentInv, TypeOK, Time
<1>2. Unix(clock) \in 0..clock
    BY <1>1, Seconds
<1>3. Unix(clock) + Lifetime \in 0..(MaxClock + Lifetime)
    BY <1>1, <1>2
<1>4. expires' \in [Tokens -> {Unminted} \cup (0..(MaxClock + Lifetime))]
    BY <1>3 DEF Mint, ConsentInv, TypeOK
<1> QED
    BY <1>4 DEF Mint, ConsentInv, TypeOK, AnsweredIsRecorded, Recorded

LEMMA VerifyStep ==
    ASSUME ConsentInv, NEW r \in Requests, NEW t \in Tokens, Verify(r, t)
    PROVE  ConsentInv'
<1>1. PICK read \in Readable :
         \/ /\ AlreadyRecorded(read, t)
            /\ answered' = answered \cup {t}
            /\ UNCHANGED calls
         \/ /\ ~AlreadyRecorded(read, t)
            /\ calls' = [calls EXCEPT ![r] = At("append", t, clock, ReadAs(read, t))]
            /\ UNCHANGED answered
    BY DEF Verify
<1>2. UNCHANGED <<expires, log, lagged, clock>>
    BY DEF Verify
<1>3. CASE /\ AlreadyRecorded(read, t)
           /\ answered' = answered \cup {t}
           /\ UNCHANGED calls
    <2>1. Recorded(t)
        BY <1>3, ReadsAreOfTheLog
    <2>2. AnsweredIsRecorded'
        BY <1>2, <1>3, <2>1 DEF ConsentInv, AnsweredIsRecorded, Recorded
    <2> QED
        BY <1>2, <1>3, <2>2 DEF ConsentInv, TypeOK
<1>4. CASE /\ calls' = [calls EXCEPT ![r] = At("append", t, clock, ReadAs(read, t))]
           /\ UNCHANGED answered
    <2>1. ReadAs(read, t) \in {"none", "lagged", "first", "repeated"}
        BY DEF ReadAs
    <2>2. At("append", t, clock, ReadAs(read, t)) \in Call
        BY <2>1, AtIsCall DEF ConsentInv, TypeOK
    <2>3. calls' \in [Requests -> Call]
        BY <1>4, <2>2 DEF ConsentInv, TypeOK
    <2> QED
        BY <1>2, <1>4, <2>3 DEF ConsentInv, TypeOK, AnsweredIsRecorded, Recorded
<1> QED
    BY <1>1, <1>3, <1>4

LEMMA Closes ==
    ASSUME ConsentInv, NEW r \in Requests, Close(r)
    PROVE  calls' \in [Requests -> Call]
<1>1. calls[r].jti \in Tokens
    BY DEF ConsentInv, TypeOK, Call
<1>2. At("idle", calls[r].jti, 0, "none") \in Call
    BY <1>1, AtIsCall, Zero
<1> QED
    BY <1>2 DEF Close, ConsentInv, TypeOK

LEMMA AppendStep ==
    ASSUME ConsentInv, NEW r \in Requests, AppendConsentLog(r)
    PROVE  ConsentInv' /\ log \subseteq log'
<1> DEFINE t == calls[r].jti
<1>1. calls' \in [Requests -> Call] /\ UNCHANGED <<expires, lagged, clock>>
    BY Closes DEF AppendConsentLog
<1>2. PICK at \in calls[r].since..clock :
         \/ /\ log' = log \cup {[jti |-> t, at |-> at]}
            /\ answered' = answered \cup {t}
         \/ UNCHANGED <<log, answered>>
    BY DEF AppendConsentLog
<1>3. t \in Tokens /\ calls[r].since \in Time /\ clock \in Time
    BY DEF ConsentInv, TypeOK, Call
<1>4. at \in Time
    BY <1>3, BoundsAssumption DEF Time
<1>5. CASE /\ log' = log \cup {[jti |-> t, at |-> at]}
           /\ answered' = answered \cup {t}
    <2> DEFINE new == [jti |-> t, at |-> at]
    <2>1. new \in Record /\ new.jti = t
        BY <1>3, <1>4 DEF Record
    <2> HIDE DEF t, new
    <2>0. log' = log \cup {new} /\ answered' = answered \cup {t}
        BY <1>5 DEF new
    <2>2. AnsweredIsRecorded'
        <3> SUFFICES ASSUME NEW u \in answered' PROVE Recorded(u)'
            BY DEF AnsweredIsRecorded
        <3>1. CASE u = t
            BY <2>0, <2>1, <3>1 DEF Recorded
        <3>2. CASE u \in answered
            BY <2>0, <3>2 DEF ConsentInv, AnsweredIsRecorded, Recorded
        <3> QED
            BY <2>0, <3>1, <3>2
    <2> QED
        BY <1>1, <1>3, <2>0, <2>1, <2>2 DEF ConsentInv, TypeOK
<1>6. CASE UNCHANGED <<log, answered>>
    BY <1>1, <1>6 DEF ConsentInv, TypeOK, AnsweredIsRecorded, Recorded
<1> QED
    BY <1>2, <1>5, <1>6

LEMMA ConsentStep == ConsentInv /\ [Next]_vars => ConsentInv' /\ log \subseteq log'
<1> SUFFICES ASSUME ConsentInv, [Next]_vars PROVE ConsentInv' /\ log \subseteq log'
    OBVIOUS
<1>1. ASSUME NEW t \in Tokens, Mint(t)
      PROVE  ConsentInv' /\ log \subseteq log'
    BY <1>1, MintStep DEF Mint
<1>2. ASSUME NEW r \in Requests, NEW t \in Tokens, Verify(r, t)
      PROVE  ConsentInv' /\ log \subseteq log'
    BY <1>2, VerifyStep DEF Verify
<1>3. ASSUME NEW r \in Requests, AppendConsentLog(r)
      PROVE  ConsentInv' /\ log \subseteq log'
    BY <1>3, AppendStep
<1>4. ASSUME NEW r \in Requests, Abandon(r)
      PROVE  ConsentInv' /\ log \subseteq log'
    BY <1>4, Closes DEF Abandon, ConsentInv, TypeOK, AnsweredIsRecorded, Recorded
<1>5. CASE Replicate
    BY <1>5 DEF Replicate, ConsentInv, TypeOK, AnsweredIsRecorded, Recorded
<1>6. CASE Advance
    <2>1. clock' \in Time
        BY <1>6, BoundsAssumption DEF Advance, ConsentInv, TypeOK, Time
    <2> QED
        BY <1>6, <2>1 DEF Advance, ConsentInv, TypeOK, AnsweredIsRecorded, Recorded
<1>7. CASE UNCHANGED vars
    BY <1>7 DEF vars, ConsentInv, TypeOK, AnsweredIsRecorded, Recorded
<1> QED
    BY <1>1, <1>2, <1>3, <1>4, <1>5, <1>6, <1>7 DEF Next

LEMMA Invariant == Spec => []ConsentInv
BY ConsentInit, ConsentStep, PTL DEF Spec

(* Stamps, expiries and clicks stay in their types.                        *)
THEOREM TypeCorrect == Spec => []TypeOK
<1>1. ConsentInv => TypeOK
    BY DEF ConsentInv
<1> QED
    BY <1>1, Invariant, PTL

(* A customer who was told that an opt-out is recorded finds the record of *)
(* that very link, however clicks overlap, reads lag and calls fail.       *)
THEOREM AnswersAreRecorded == Spec => []AnsweredIsRecorded
<1>1. ConsentInv => AnsweredIsRecorded
    BY DEF ConsentInv
<1> QED
    BY <1>1, Invariant, PTL

(* A consent record is never changed or lost by a later append.            *)
THEOREM RecordsStay == Spec => AppendOnly
<1>1. ConsentInv /\ [Next]_vars => [log \subseteq log']_vars
    BY ConsentStep
<1> QED
    BY <1>1, Invariant, PTL DEF Spec, AppendOnly

------------------------------------------------------------------------------
(* The order of keys                                                       *)

(* A digit is one of the base.                                             *)
LEMMA DigitsAreOfTheBase ==
    ASSUME NEW at \in Nat, NEW i \in 1..Digits
    PROVE  Digit(at, i) \in 0..(Base - 1)
<1> DEFINE s == Second
           p == Base ^ (Digits - i)
<1>1. s \in Nat \ {0}
    BY Powers, BoundsAssumption DEF Second
<1>2. p \in Nat \ {0}
    BY Powers, BoundsAssumption
<1> HIDE DEF s, p
<1>3. (at % s) \div p \in Int
    BY <1>1, <1>2
<1>4. ((at % s) \div p) % Base \in 0..(Base - 1)
    BY <1>3, BoundsAssumption
<1> QED
    BY <1>4 DEF Digit, s, p

(* The parts of a key: the second, the digits that are written, and Z.     *)
LEMMA KeyParts ==
    ASSUME NEW at \in Nat
    PROVE  LET n == Cardinality(Written(at)) IN
           /\ n \in 0..Digits
           /\ SortKey(at) \in Seq(Int)
           /\ Len(SortKey(at)) = n + 2
           /\ SortKey(at)[1] = Unix(at)
           /\ \A i \in 1..n : SortKey(at)[i + 1] = Digit(at, i)
           /\ SortKey(at)[n + 2] = Base
<1> DEFINE n == Cardinality(Written(at))
           digits == [i \in 1..n |-> Digit(at, i)]
<1>1. n \in 0..Digits
    <2>1. IsFiniteSet(1..Digits) /\ Cardinality(1..Digits) = Digits
        BY FS_Interval, BoundsAssumption
    <2>2. Written(at) \in SUBSET (1..Digits)
        BY DEF Written
    <2>3. IsFiniteSet(Written(at)) /\ n <= Cardinality(1..Digits)
        BY <2>1, <2>2, FS_Subset
    <2>4. n \in Nat
        BY <2>3, FS_CardinalityType
    <2> HIDE DEF n
    <2> QED
        BY <2>1, <2>3, <2>4, BoundsAssumption
<1> HIDE DEF n
<1>2. digits \in Seq(Int) /\ Len(digits) = n
    <2>1. \A i \in 1..n : Digit(at, i) \in Int
        BY <1>1, DigitsAreOfTheBase, BoundsAssumption
    <2>2. n \in Nat
        BY <1>1, BoundsAssumption
    <2> QED
        BY <2>1, <2>2
<1>3. \A i \in 1..n : digits[i] = Digit(at, i)
    OBVIOUS
<1>4. SortKey(at) = (<<Unix(at)>> \o digits) \o <<Base>>
    BY DEF SortKey, Z, n
<1>5. Unix(at) \in Int /\ Base \in Int
    BY Seconds, BoundsAssumption
<1> HIDE DEF digits
<1> DEFINE most == <<Unix(at)>> \o digits
<1>6. /\ most \in Seq(Int) /\ Len(most) = n + 1
      /\ most[1] = Unix(at)
      /\ \A i \in 1..n : most[i + 1] = digits[i]
    BY <1>1, <1>2, <1>5, BoundsAssumption
<1> HIDE DEF most
<1>7. SortKey(at) = most \o <<Base>>
    BY <1>4 DEF most
<1>8. n \in Nat
    BY <1>1, BoundsAssumption
<1>9. /\ SortKey(at) \in Seq(Int) /\ Len(SortKey(at)) = n + 2
      /\ \A i \in 1..(n + 1) : SortKey(at)[i] = most[i]
      /\ SortKey(at)[n + 2] = Base
    BY <1>5, <1>6, <1>7, <1>8
<1>10. ASSUME NEW i \in 1..n PROVE SortKey(at)[i + 1] = Digit(at, i)
    <2>1. i + 1 \in 1..(n + 1)
        BY <1>8
    <2> QED
        BY <1>3, <1>6, <1>9, <2>1
<1>11. SortKey(at)[1] = Unix(at)
    BY <1>6, <1>8, <1>9
<1> QED
    BY <1>1, <1>9, <1>10, <1>11 DEF n

(* The shape of a key that makes none the beginning of another: Z ends it  *)
(* and is greater than all that comes after the second.                    *)
IsKey(k) ==
    /\ k \in Seq(Int)
    /\ Len(k) >= 2
    /\ k[Len(k)] = Base
    /\ \A i \in 2..(Len(k) - 1) : k[i] < Base

LEMMA SortKeysAreKeys == ASSUME NEW at \in Nat PROVE IsKey(SortKey(at))
<1> DEFINE n == Cardinality(Written(at))
           k == SortKey(at)
<1>1. /\ n \in 0..Digits
      /\ k \in Seq(Int)
      /\ Len(k) = n + 2
      /\ \A i \in 1..n : k[i + 1] = Digit(at, i)
      /\ k[n + 2] = Base
    BY KeyParts
<1> HIDE DEF n, k
<1>2. Len(k) >= 2 /\ k[Len(k)] = Base
    BY <1>1, BoundsAssumption
<1>3. ASSUME NEW i \in 2..(Len(k) - 1) PROVE k[i] < Base
    <2>1. i - 1 \in 1..n /\ i - 1 \in 1..Digits /\ (i - 1) + 1 = i
        BY <1>1, <1>3, BoundsAssumption
    <2>2. k[i] = Digit(at, i - 1)
        BY <1>1, <2>1
    <2>3. Digit(at, i - 1) \in 0..(Base - 1)
        BY <2>1, DigitsAreOfTheBase
    <2> QED
        BY <2>2, <2>3, BoundsAssumption
<1> QED
    BY <1>1, <1>2, <1>3 DEF IsKey, k

(* The order of keys is a strict total order.                              *)
LEMMA BeforeIsTransitive ==
    ASSUME NEW k \in Seq(Int), NEW l \in Seq(Int), NEW n \in Seq(Int),
           Before(k, l), Before(l, n)
    PROVE  Before(k, n)
<1>1. PICK i \in 1..Len(k) :
        i <= Len(l) /\ k[i] < l[i] /\ \A h \in 1..(i - 1) : k[h] = l[h]
    BY DEF Before
<1>2. PICK j \in 1..Len(l) :
        j <= Len(n) /\ l[j] < n[j] /\ \A h \in 1..(j - 1) : l[h] = n[h]
    BY DEF Before
<1>3. Len(k) \in Nat /\ Len(l) \in Nat /\ Len(n) \in Nat
    OBVIOUS
<1>4. i \in Int /\ j \in Int
    BY <1>3
<1>5. CASE i < j
    <2>1. i <= Len(n) /\ k[i] < n[i]
        BY <1>1, <1>2, <1>3, <1>5
    <2>2. \A h \in 1..(i - 1) : k[h] = n[h]
        BY <1>1, <1>2, <1>3, <1>5
    <2> QED
        BY <2>1, <2>2 DEF Before
<1>6. CASE i = j
    <2>1. k[i] \in Int /\ l[i] \in Int /\ n[i] \in Int
        BY <1>1, <1>2, <1>3, <1>6
    <2>2. k[i] < n[i]
        BY <1>1, <1>2, <1>6, <2>1
    <2>3. \A h \in 1..(i - 1) : k[h] = n[h]
        BY <1>1, <1>2, <1>6
    <2> QED
        BY <1>2, <1>6, <2>2, <2>3 DEF Before
<1>7. CASE j < i
    <2>1. j \in 1..Len(k) /\ k[j] < n[j]
        BY <1>1, <1>2, <1>3, <1>7
    <2>2. \A h \in 1..(j - 1) : k[h] = n[h]
        BY <1>1, <1>2, <1>3, <1>7
    <2> QED
        BY <1>2, <2>1, <2>2 DEF Before
<1> QED
    BY <1>4, <1>5, <1>6, <1>7

LEMMA BeforeIsIrreflexive == ASSUME NEW k \in Seq(Int) PROVE ~Before(k, k)
BY DEF Before

LEMMA BeforeIsTotal ==
    ASSUME NEW k, NEW l, IsKey(k), IsKey(l), k # l
    PROVE  Before(k, l) \/ Before(l, k)
<1> DEFINE Differ == {i \in 1..Len(k) : i <= Len(l) /\ k[i] # l[i]}
<1>1. k \in Seq(Int) /\ l \in Seq(Int) /\ Len(k) \in Nat /\ Len(l) \in Nat
    BY DEF IsKey
<1>2. Differ \in SUBSET Nat
    BY <1>1
<1>3. ASSUME NEW a \in Seq(Int), NEW b \in Seq(Int), IsKey(a), IsKey(b),
             Len(a) < Len(b),
             \A i \in 1..Len(a) : a[i] = b[i]
      PROVE  FALSE
    <2>1. Len(a) \in 2..(Len(b) - 1) /\ Len(a) \in 1..Len(a)
        BY <1>3 DEF IsKey
    <2>2. b[Len(a)] < Base /\ a[Len(a)] = Base /\ a[Len(a)] = b[Len(a)]
        BY <1>3, <2>1 DEF IsKey
    <2> QED
        BY <2>2, BoundsAssumption
<1>4. CASE Differ = {}
    <2>1. \A i \in 1..Len(k) : i <= Len(l) => k[i] = l[i]
        BY <1>4
    <2>2. CASE Len(k) = Len(l)
        BY <1>1, <2>1, <2>2, SeqEqual
    <2>3. CASE Len(k) < Len(l)
        BY <1>1, <1>3, <2>1, <2>3
    <2>4. CASE Len(l) < Len(k)
        <3>1. \A i \in 1..Len(l) : l[i] = k[i]
            BY <1>1, <2>1, <2>4
        <3> QED
            BY <1>1, <1>3, <2>4, <3>1
    <2> QED
        BY <1>1, <2>2, <2>3, <2>4
<1>5. CASE Differ # {}
    <2>1. PICK i \in Differ : \A j \in Differ : i <= j
        <3> HIDE DEF Differ
        <3> QED
            BY <1>2, <1>5, Least
    <2>2. ASSUME NEW j \in 1..(i - 1) PROVE k[j] = l[j]
        <3>1. i \in Nat /\ i <= Len(k) /\ i <= Len(l)
            BY <1>1
        <3>2. j \in 1..Len(k) /\ j <= Len(l) /\ ~(i <= j)
            BY <1>1, <3>1
        <3>3. j \notin Differ
            BY <2>1, <3>2
        <3> QED
            BY <3>2, <3>3
    <2>3. /\ i \in 1..Len(k) /\ i \in 1..Len(l) /\ k[i] # l[i]
          /\ k[i] \in Int /\ l[i] \in Int
        BY <1>1
    <2>4. k[i] < l[i] \/ l[i] < k[i]
        BY <2>3
    <2> QED
        BY <1>1, <2>2, <2>3, <2>4 DEF Before
<1> QED
    BY <1>4, <1>5

(* A record found by a query in key order is never a second older than     *)
(* another: the keys of different seconds sort by time.                    *)
THEOREM LatestIsRecent == Spec => []LatestIsOfNewestSecond
<1>1. ConsentInv => LatestIsOfNewestSecond
    <2> SUFFICES ASSUME ConsentInv, NEW x \in Latest(log), NEW y \in log
                 PROVE  Unix(y.at) <= Unix(x.at)
        BY DEF LatestIsOfNewestSecond
    <2>1. x \in log /\ (y # x => Before(SortKey(y.at), SortKey(x.at)))
        BY DEF Latest
    <2>2. x.at \in Nat /\ y.at \in Nat
        BY <2>1, BoundsAssumption DEF ConsentInv, TypeOK, Record, Time
    <2>3. Unix(x.at) \in Int /\ Unix(y.at) \in Int
        <3>1. Unix(x.at) \in 0..x.at /\ Unix(y.at) \in 0..y.at
            BY <2>2, Seconds
        <3> QED
            BY <2>2, <3>1
    <2>4. SUFFICES ASSUME y # x PROVE Unix(y.at) <= Unix(x.at)
        BY <2>3
    <2>5. /\ SortKey(x.at)[1] = Unix(x.at) /\ SortKey(y.at)[1] = Unix(y.at)
          /\ Unix(x.at) \in Int /\ Unix(y.at) \in Int
        BY <2>2, <2>3, KeyParts
    <2>6. PICK i \in 1..Len(SortKey(y.at)) :
             /\ SortKey(y.at)[i] < SortKey(x.at)[i]
             /\ \A j \in 1..(i - 1) : SortKey(y.at)[j] = SortKey(x.at)[j]
        BY <2>1, <2>4 DEF Before
    <2>7. i \in Int /\ i >= 1
        BY <2>6
    <2>8. CASE i = 1
        BY <2>5, <2>6, <2>8
    <2>9. CASE i > 1
        <3>1. 1 \in 1..(i - 1)
            BY <2>7, <2>9
        <3> QED
            BY <2>5, <2>6, <3>1
    <2> QED
        BY <2>7, <2>8, <2>9
<1> QED
    BY <1>1, Invariant, PTL

------------------------------------------------------------------------------
(* The latest record, and repeated records                                 *)

(* No two records have the same key: the write is conditional on that.     *)
KeysDiffer == \A x, y \in log : x # y => SortKey(x.at) # SortKey(y.at)

LEMMA RecordKeys ==
    ASSUME NEW x \in Record
    PROVE  IsKey(SortKey(x.at)) /\ SortKey(x.at) \in Seq(Int)
<1>1. x.at \in Nat
    BY BoundsAssumption DEF Record, Time
<1> QED
    BY <1>1, SortKeysAreKeys DEF IsKey

(* A finite log of records with different keys has exactly one latest one: *)
(* among the records with the fewest keys above them, one with none.       *)
LEMMA LatestIsOne ==
    ASSUME log \subseteq Record, IsFiniteSet(log), log # {}, KeysDiffer
    PROVE  \E x \in log : Latest(log) = {x}
<1> DEFINE Key(x)   == SortKey(x.at)
           Above(x) == {y \in log : Before(Key(x), Key(y))}
           Counts   == {Cardinality(Above(x)) : x \in log}
<1>1. \A x \in log : Key(x) \in Seq(Int) /\ IsKey(Key(x))
    BY RecordKeys
<1>2. \A x \in log : IsFiniteSet(Above(x)) /\ Cardinality(Above(x)) \in Nat
    <2> SUFFICES ASSUME NEW x \in log
                 PROVE  IsFiniteSet(Above(x)) /\ Cardinality(Above(x)) \in Nat
        OBVIOUS
    <2>1. Above(x) \in SUBSET log
        OBVIOUS
    <2> HIDE DEF Above
    <2> QED
        BY <2>1, FS_Subset, FS_CardinalityType
<1>3. PICK x \in log : \A y \in log : Cardinality(Above(x)) <= Cardinality(Above(y))
    <2> HIDE DEF Above
    <2>1. Counts \in SUBSET Nat /\ Counts # {}
        BY <1>2
    <2>2. PICK n \in Counts : \A i \in Counts : n <= i
        <3> HIDE DEF Counts
        <3> QED
            BY <2>1, Least
    <2> QED
        BY <2>2
<1>4. ASSUME NEW y \in Above(x) PROVE FALSE
    <2>1. y \in log /\ Before(Key(x), Key(y))
        OBVIOUS
    <2>2. \A z \in Above(y) : z \in Above(x)
        <3> SUFFICES ASSUME NEW z \in Above(y) PROVE z \in Above(x)
            OBVIOUS
        <3>1. z \in log /\ Before(Key(y), Key(z))
            OBVIOUS
        <3>2. Before(Key(x), Key(z))
            <4> HIDE DEF Key
            <4> QED
                BY <1>1, <2>1, <3>1, BeforeIsTransitive
        <3> QED
            BY <3>1, <3>2
    <2>3. y \notin Above(y)
        <3>1. ~Before(Key(y), Key(y))
            <4> HIDE DEF Key
            <4> QED
                BY <1>1, <2>1, BeforeIsIrreflexive
        <3> QED
            BY <3>1
    <2>4. IsFiniteSet(Above(x)) /\ Cardinality(Above(x)) \in Nat /\ y \in Above(x)
        BY <1>2
    <2>5. Cardinality(Above(x)) <= Cardinality(Above(y)) /\ Cardinality(Above(y)) \in Nat
        BY <1>2, <1>3, <2>1
    <2> HIDE DEF Above
    <2>6. Above(y) \in SUBSET (Above(x) \ {y})
        BY <2>2, <2>3
    <2>7. /\ IsFiniteSet(Above(x) \ {y})
          /\ Cardinality(Above(x) \ {y}) = Cardinality(Above(x)) - 1
        BY <2>4, FS_RemoveElement
    <2>8. Cardinality(Above(y)) <= Cardinality(Above(x) \ {y})
        BY <2>6, <2>7, FS_Subset
    <2> QED
        BY <2>4, <2>5, <2>7, <2>8
<1>5. ASSUME NEW y \in log \ {x} PROVE Before(Key(y), Key(x)) /\ ~Before(Key(x), Key(y))
    <2>1. ~Before(Key(x), Key(y))
        BY <1>4
    <2>2. Key(y) # Key(x)
        BY DEF KeysDiffer
    <2> HIDE DEF Key
    <2> QED
        BY <1>1, <2>1, <2>2, BeforeIsTotal
<1>6. x \in Latest(log)
    BY <1>5 DEF Latest
<1>7. ASSUME NEW y \in Latest(log) PROVE y = x
    <2>1. y \in log /\ (x # y => Before(Key(x), Key(y)))
        BY DEF Latest
    <2> QED
        BY <1>5, <2>1
<1> QED
    BY <1>6, <1>7

(* What a click that repeats a record knew when it went on to append: a    *)
(* record of another link followed one of its own.                         *)
RepeatInv ==
    /\ IsFiniteSet(log)
    /\ KeysDiffer
    /\ \A r \in Requests :
          calls[r].step = "append" /\ calls[r].read = "repeated"
             => Outranked(calls[r].jti)

LEMMA VerifyRepeats ==
    ASSUME ConsentInv, RepeatInv, NEW r \in Requests, NEW t \in Tokens, Verify(r, t)
    PROVE  RepeatInv'
<1>1. PICK read \in Readable :
         \/ UNCHANGED calls
         \/ /\ ~AlreadyRecorded(read, t)
            /\ calls' = [calls EXCEPT ![r] = At("append", t, clock, ReadAs(read, t))]
    BY DEF Verify
<1>2. log' = log
    BY DEF Verify
<1>3. KeysDiffer' /\ IsFiniteSet(log)' /\ \A u : Outranked(u) => Outranked(u)'
    BY <1>2 DEF RepeatInv, KeysDiffer, Outranked
<1>4. CASE UNCHANGED calls
    BY <1>3, <1>4 DEF RepeatInv
<1>5. CASE /\ ~AlreadyRecorded(read, t)
           /\ calls' = [calls EXCEPT ![r] = At("append", t, clock, ReadAs(read, t))]
    <2>1. ASSUME ReadAs(read, t) = "repeated" PROVE Outranked(t)
        <3>1. read = log /\ Recorded(t)
            BY <2>1 DEF ReadAs
        <3>2. PICK x \in log : x.jti = t
            BY <3>1 DEF Recorded
        <3>3. PICK z \in log : Latest(log) = {z}
            BY <3>2, LatestIsOne DEF ConsentInv, TypeOK, RepeatInv
        <3>4. z.jti # t
            BY <1>5, <3>1, <3>3 DEF AlreadyRecorded
        <3>5. Before(SortKey(x.at), SortKey(z.at))
            BY <3>2, <3>3, <3>4 DEF Latest
        <3> QED
            BY <3>2, <3>4, <3>5 DEF Outranked
    <2>2. \A s \in Requests : calls'[s] =
            IF s = r THEN At("append", t, clock, ReadAs(read, t)) ELSE calls[s]
        BY <1>5 DEF ConsentInv, TypeOK
    <2>3. ASSUME NEW s \in Requests,
                 calls'[s].step = "append", calls'[s].read = "repeated"
          PROVE  Outranked(calls'[s].jti)
        <3>1. CASE s = r
            BY <2>1, <2>2, <2>3, <3>1 DEF At
        <3>2. CASE s # r
            BY <2>2, <2>3, <3>2 DEF RepeatInv
        <3> QED
            BY <3>1, <3>2
    <2>4. \A s \in Requests :
              (calls[s].step = "append" /\ calls[s].read = "repeated"
                 => Outranked(calls[s].jti))'
        BY <1>2, <2>3 DEF Outranked
    <2> QED
        BY <1>3, <2>4 DEF RepeatInv
<1> QED
    BY <1>1, <1>4, <1>5

(* A click that ends, having appended to the log under a free key or not,  *)
(* leaves the others with what they knew.                                  *)
LEMMA CloseRepeats ==
    ASSUME ConsentInv, RepeatInv, NEW r \in Requests, Close(r),
           \/ log' = log
           \/ \E at \in Time :
                 KeyFree(at) /\ log' = log \cup {[jti |-> calls[r].jti, at |-> at]}
    PROVE  RepeatInv'
<1>1. \A s \in Requests : calls'[s] =
        IF s = r THEN At("idle", calls[r].jti, 0, "none") ELSE calls[s]
    BY DEF Close, ConsentInv, TypeOK
<1>2. log \subseteq log' /\ IsFiniteSet(log') /\ KeysDiffer'
    <2>1. CASE log' = log
        BY <2>1 DEF RepeatInv, KeysDiffer
    <2>2. ASSUME NEW at \in Time, KeyFree(at),
                 log' = log \cup {[jti |-> calls[r].jti, at |-> at]}
          PROVE  log \subseteq log' /\ IsFiniteSet(log') /\ KeysDiffer'
        <3> DEFINE new == [jti |-> calls[r].jti, at |-> at]
        <3>1. new.at = at
            OBVIOUS
        <3> HIDE DEF new
        <3>2. log' = log \cup {new}
            BY <2>2 DEF new
        <3>3. \A x \in log : SortKey(x.at) # SortKey(new.at)
            BY <2>2, <3>1 DEF KeyFree
        <3>4. \A x, y \in log' : x # y => SortKey(x.at) # SortKey(y.at)
            BY <3>2, <3>3 DEF RepeatInv, KeysDiffer
        <3>5. IsFiniteSet(log')
            BY <3>2, FS_AddElement DEF RepeatInv
        <3>6. KeysDiffer'
            BY <3>4, Zenon DEF KeysDiffer, SortKey, Unix, Digit, Written, Second, Z
        <3> QED
            BY <3>2, <3>5, <3>6
    <2> QED
        BY <2>1, <2>2
<1>3. \A t : Outranked(t) => Outranked(t)'
    BY <1>2 DEF Outranked
<1>4. ASSUME NEW s \in Requests
      PROVE  (calls[s].step = "append" /\ calls[s].read = "repeated"
                => Outranked(calls[s].jti))'
    <2>1. CASE s = r
        BY <1>1, <2>1 DEF At
    <2>2. CASE s # r
        BY <1>1, <1>3, <2>2 DEF RepeatInv
    <2> QED
        BY <2>1, <2>2
<1> QED
    BY <1>2, <1>4 DEF RepeatInv

LEMMA RepeatStep == ConsentInv /\ RepeatInv /\ [Next]_vars => RepeatInv'
<1> SUFFICES ASSUME ConsentInv, RepeatInv, [Next]_vars PROVE RepeatInv'
    OBVIOUS
<1>1. ASSUME UNCHANGED <<log, calls>> PROVE RepeatInv'
    BY <1>1 DEF RepeatInv, KeysDiffer, Outranked
<1>2. ASSUME NEW t \in Tokens, Mint(t) PROVE RepeatInv'
    BY <1>1, <1>2 DEF Mint
<1>3. ASSUME NEW r \in Requests, NEW t \in Tokens, Verify(r, t) PROVE RepeatInv'
    BY <1>3, VerifyRepeats
<1>4. ASSUME NEW r \in Requests, AppendConsentLog(r) PROVE RepeatInv'
    <2>1. calls[r].since \in 0..MaxClock /\ clock \in 0..MaxClock /\ MaxClock \in Nat
        BY BoundsAssumption DEF ConsentInv, TypeOK, Call, Time
    <2>2. \A at \in calls[r].since..clock : at \in Time
        BY <2>1 DEF Time
    <2>3. /\ Close(r)
          /\ \/ log' = log
             \/ \E at \in Time :
                   KeyFree(at) /\ log' = log \cup {[jti |-> calls[r].jti, at |-> at]}
        BY <1>4, <2>2 DEF AppendConsentLog
    <2> QED
        BY <2>3, CloseRepeats
<1>5. ASSUME NEW r \in Requests, Abandon(r) PROVE RepeatInv'
    BY <1>5, CloseRepeats DEF Abandon
<1>6. CASE Replicate \/ Advance \/ UNCHANGED vars
    BY <1>1, <1>6 DEF Replicate, Advance, vars
<1> QED
    BY <1>2, <1>3, <1>4, <1>5, <1>6 DEF Next

LEMMA RepeatInvariant == Spec => [](ConsentInv /\ RepeatInv)
<1>1. Init => RepeatInv
    <2> SUFFICES ASSUME Init PROVE RepeatInv
        OBVIOUS
    <2>1. \A r \in Requests : calls[r].step = "idle"
        BY DEF Init, At
    <2> QED
        BY <2>1, FS_EmptySet DEF Init, RepeatInv, KeysDiffer
<1> QED
    BY <1>1, RepeatStep, Invariant, PTL DEF Spec

(* The query for the latest record has an answer and only one, as soon as  *)
(* there is a record: keys never tie, and none is the beginning of another.*)
THEOREM OneLatest == Spec => [](log # {} => \E x \in log : Latest(log) = {x})
<1>1. ConsentInv /\ RepeatInv => (log # {} => \E x \in log : Latest(log) = {x})
    BY LatestIsOne DEF ConsentInv, TypeOK, RepeatInv
<1> QED
    BY <1>1, RepeatInvariant, PTL

(* A link gets a second record only for one of three causes: its click     *)
(* read the log before it had one, its read lagged, or a record of another *)
(* link had already followed one of its own.  Nothing else, neither a      *)
(* replay nor an overlap of clicks that read the whole log, repeats one.   *)
THEOREM RepeatsAreExplained == Spec => RepeatsHaveACause
<1>1. ConsentInv /\ RepeatInv /\ [Next]_vars =>
        [\A r \in Requests :
          LET t == calls[r].jti IN
          calls[r].step = "append" /\ log' # log /\ calls'[r].step = "idle"
             /\ Recorded(t) /\ calls[r].read = "repeated"
          => Outranked(t)]_vars
    BY DEF RepeatInv
<1> QED
    BY <1>1, RepeatInvariant, PTL DEF Spec, RepeatsHaveACause

------------------------------------------------------------------------------
(* A key names one instant                                                 *)

(* Multiplying by a positive number keeps the order.                       *)
LEMMA TimesMonotonic ==
    ASSUME NEW n \in Nat, NEW a \in Int, NEW b \in Int, a <= b
    PROVE  n * a <= n * b
<1>1. b - a \in Nat /\ n * (b - a) >= 0
    OBVIOUS
<1>2. n * b = n * a + n * (b - a)
    OBVIOUS
<1>3. n * a \in Int /\ n * b \in Int /\ n * (b - a) \in Int
    OBVIOUS
<1> QED
    BY <1>1, <1>2, <1>3

(* What a quotient is.                                                     *)
LEMMA Quotient ==
    ASSUME NEW f \in Nat, NEW n \in Nat \ {0}
    PROVE  /\ f \div n \in Nat /\ f % n \in 0..(n - 1)
           /\ f = n * (f \div n) + (f % n)
OBVIOUS

LEMMA QuotientIsUnique ==
    ASSUME NEW f \in Nat, NEW n \in Nat \ {0}, NEW q \in Nat,
           n * q <= f, f < n * (q + 1)
    PROVE  f \div n = q
<1> DEFINE z == f \div n
<1>1. z \in Nat /\ n * z <= f /\ f < n * (z + 1)
    <2>1. /\ z \in Nat /\ f % n \in 0..(n - 1)
          /\ f = n * z + (f % n)
        BY Quotient
    <2>2. n * (z + 1) = n * z + n /\ n * z \in Nat
        BY <2>1
    <2> HIDE DEF z
    <2> QED
        BY <2>1, <2>2
<1> HIDE DEF z
<1>2. n * q \in Int /\ n * z \in Int /\ n * (z + 1) \in Int /\ n * (q + 1) \in Int
    BY <1>1
<1>3. ~(z < q)
    <2>1. z < q => n * (z + 1) <= n * q
        BY <1>1, TimesMonotonic
    <2> QED
        BY <1>1, <1>2, <2>1
<1>4. ~(q < z)
    <2>1. q < z => n * (q + 1) <= n * z
        BY <1>1, TimesMonotonic
    <2> QED
        BY <1>1, <1>2, <2>1
<1> QED
    BY <1>1, <1>3, <1>4 DEF z

(* A quotient by a product is a quotient of a quotient.                    *)
LEMMA QuotientOfQuotient ==
    ASSUME NEW f \in Nat, NEW p \in Nat \ {0}, NEW b \in Nat \ {0}
    PROVE  f \div p = b * (f \div (b * p)) + ((f \div p) % b)
<1> DEFINE q == f \div p
           r == f % p
           u == q \div b
           d == q % b
<1>1. q \in Nat /\ r \in 0..(p - 1) /\ f = p * q + r
    BY Quotient
<1> HIDE DEF q, r
<1>2. u \in Nat /\ d \in 0..(b - 1) /\ q = b * u + d
    BY <1>1, Quotient
<1> HIDE DEF u, d
<1>3. b * p \in Nat \ {0}
    OBVIOUS
<1>4. (b * p) * u <= f
    <2>1. p * (b * u) = (b * p) * u /\ p * (b * u) \in Nat
        BY <1>2
    <2>2. b * u <= q /\ b * u \in Nat
        BY <1>2
    <2>3. p * (b * u) <= p * q /\ p * q \in Nat
        BY <1>1, <2>2, TimesMonotonic
    <2> QED
        BY <1>1, <2>1, <2>3
<1>5. f < (b * p) * (u + 1)
    <2>1. b * (u + 1) = b * u + b /\ b * u \in Nat
        BY <1>2
    <2>2. q + 1 <= b * (u + 1) /\ b * (u + 1) \in Nat
        BY <1>2, <2>1
    <2>3. p * (q + 1) <= p * (b * (u + 1))
        BY <1>1, <2>2, TimesMonotonic
    <2>4. p * (q + 1) = p * q + p /\ p * q \in Nat
        BY <1>1
    <2>5. p * (b * (u + 1)) = (b * p) * (u + 1) /\ p * (b * (u + 1)) \in Nat
        BY <1>2
    <2> QED
        BY <1>1, <2>3, <2>4, <2>5
<1>6. f \div (b * p) = u
    BY <1>2, <1>3, <1>4, <1>5, QuotientIsUnique
<1> QED
    BY <1>2, <1>6 DEF q, d

(* The digits of a fraction determine it.                                  *)
LEMMA DigitsDetermineTheFraction ==
    ASSUME NEW a \in Nat, NEW b \in Nat,
           \A i \in 1..Digits : Digit(a, i) = Digit(b, i)
    PROVE  a % Second = b % Second
<1> DEFINE Power(i)   == Base ^ (Digits - i)
           fa         == a % Second
           fb         == b % Second
           Left(f, i) == f \div Power(i)
           Differ     == {i \in 0..Digits : Left(fa, i) # Left(fb, i)}
<1>1. Second \in Nat \ {0} /\ Second = Power(0)
    BY Powers, BoundsAssumption DEF Second
<1>2. fa \in 0..(Second - 1) /\ fb \in 0..(Second - 1) /\ fa \in Nat /\ fb \in Nat
    <2>1. Second \in Nat \ {0}
        BY <1>1
    <2> QED
        BY <2>1
<1>3. \A i \in 0..Digits : Power(i) \in Nat \ {0}
    BY Powers, BoundsAssumption
<1>4. ASSUME NEW i \in 1..Digits PROVE Power(i - 1) = Base * Power(i)
    <2>1. Digits - (i - 1) \in 1..Digits /\ (Digits - (i - 1)) - 1 = Digits - i
        BY BoundsAssumption
    <2> QED
        BY <2>1, PowersAssumption
<1>5. Power(Digits) = 1
    BY PowersAssumption, BoundsAssumption
<1>6. \A i \in 1..Digits : /\ Digit(a, i) = Left(fa, i) % Base
                           /\ Digit(b, i) = Left(fb, i) % Base
    BY DEF Digit
<1> HIDE DEF Power, fa, fb
<1>7. ASSUME NEW f \in 0..(Second - 1) PROVE Left(f, 0) = 0
    <2>1. f \in Nat /\ Power(0) \in Nat \ {0} /\ f < Power(0)
        BY <1>1, <1>7
    <2>2. Power(0) * 0 <= f /\ f < Power(0) * (0 + 1)
        BY <2>1
    <2> QED
        BY <2>1, <2>2, QuotientIsUnique
<1>8. ASSUME NEW f \in Nat, NEW i \in 1..Digits
      PROVE  Left(f, i) = Base * Left(f, i - 1) + (Left(f, i) % Base)
    <2>1. Power(i) \in Nat \ {0} /\ Base \in Nat \ {0}
        BY <1>3, BoundsAssumption
    <2> QED
        BY <1>4, <2>1, QuotientOfQuotient
<1>9. Differ = {}
    <2> SUFFICES ASSUME Differ # {} PROVE FALSE
        OBVIOUS
    <2>1. Differ \in SUBSET Nat
        BY BoundsAssumption
    <2> HIDE DEF Left
    <2>2. PICK i \in Differ : \A j \in Differ : i <= j
        <3> HIDE DEF Differ
        <3> QED
            BY <2>1, Least
    <2>3. i # 0
        BY <1>2, <1>7
    <2>4. i \in 1..Digits /\ i - 1 \in 0..Digits /\ ~(i <= i - 1)
        BY <2>3, BoundsAssumption
    <2>5. Left(fa, i - 1) = Left(fb, i - 1)
        BY <2>2, <2>4
    <2>6. Left(fa, i) % Base = Left(fb, i) % Base
        BY <1>6, <2>4
    <2>7. Left(fa, i) = Left(fb, i)
        BY <1>2, <1>8, <2>4, <2>5, <2>6
    <2> QED
        BY <2>7
<1>10. Left(fa, Digits) = Left(fb, Digits)
    BY <1>9, BoundsAssumption
<1>11. fa \div 1 = fa /\ fb \div 1 = fb
    BY <1>2
<1> QED
    BY <1>5, <1>10, <1>11 DEF fa, fb

(* The digits that a key leaves out are zeros.                             *)
LEMMA UnwrittenAreZeros ==
    ASSUME NEW at \in Nat, NEW i \in 1..Digits, i > Cardinality(Written(at))
    PROVE  Digit(at, i) = 0
<1> SUFFICES ASSUME Digit(at, i) # 0 PROVE FALSE
    OBVIOUS
<1>1. Digits \in Nat /\ i \in Nat
    BY BoundsAssumption
<1>2. 1..i \in SUBSET Written(at)
    BY <1>1 DEF Written
<1>3. Written(at) \in SUBSET (1..Digits) /\ IsFiniteSet(1..Digits)
    <2>1. IsFiniteSet(1..Digits)
        BY <1>1, FS_Interval
    <2> QED
        BY <2>1 DEF Written
<1>4. IsFiniteSet(Written(at)) /\ Cardinality(Written(at)) \in Nat
    BY <1>3, FS_Subset, FS_CardinalityType
<1>5. Cardinality(1..i) <= Cardinality(Written(at)) /\ Cardinality(1..i) = i
    <2>1. Cardinality(1..i) = i
        BY <1>1, FS_Interval
    <2> QED
        BY <1>2, <1>4, <2>1, FS_Subset
<1> QED
    BY <1>1, <1>4, <1>5

(* No two instants have the same key, whatever the base and the number of  *)
(* digits: the condition of the append refuses a click only if there is a  *)
(* record of the very instant at which it was stamped.                     *)
THEOREM KeysNameInstants ==
    ASSUME NEW a \in Nat, NEW b \in Nat, SortKey(a) = SortKey(b)
    PROVE  a = b
<1> DEFINE na == Cardinality(Written(a))
           nb == Cardinality(Written(b))
<1>1. /\ na \in 0..Digits
      /\ Len(SortKey(a)) = na + 2
      /\ SortKey(a)[1] = Unix(a)
      /\ \A i \in 1..na : SortKey(a)[i + 1] = Digit(a, i)
    BY KeyParts
<1>2. /\ nb \in 0..Digits
      /\ Len(SortKey(b)) = nb + 2
      /\ SortKey(b)[1] = Unix(b)
      /\ \A i \in 1..nb : SortKey(b)[i + 1] = Digit(b, i)
    BY KeyParts
<1>3. \A i \in 1..Digits : i > na => Digit(a, i) = 0
    BY UnwrittenAreZeros
<1>4. \A i \in 1..Digits : i > nb => Digit(b, i) = 0
    BY UnwrittenAreZeros
<1> HIDE DEF na, nb
<1>5. na = nb
    BY <1>1, <1>2, BoundsAssumption
<1>6. Unix(a) = Unix(b)
    BY <1>1, <1>2
<1>7. ASSUME NEW i \in 1..Digits PROVE Digit(a, i) = Digit(b, i)
    <2>1. CASE i \in 1..na
        BY <1>1, <1>2, <1>5, <2>1
    <2>2. CASE i \notin 1..na
        <3>1. i > na
            BY <1>1, <2>2, BoundsAssumption
        <3> QED
            BY <1>3, <1>4, <1>5, <3>1
    <2> QED
        BY <2>1, <2>2
<1>8. a % Second = b % Second
    BY <1>7, DigitsDetermineTheFraction
<1>9. Second \in Nat \ {0}
    BY Powers, BoundsAssumption DEF Second
<1>10. /\ a = Second * Unix(a) + (a % Second)
       /\ b = Second * Unix(b) + (b % Second)
    BY <1>9, Quotient DEF Unix
<1> QED
    BY <1>6, <1>8, <1>10
==============================================================================
