--------------------------- MODULE TTLCacheProofs ---------------------------
(***************************************************************************)
(* The cache keeps the promise of LossyMap for any number of callers, keys *)
(* and values and for every cap, and exceeds the cap by no more entries    *)
(* than Sets overlapped.                                                   *)
(***************************************************************************)
EXTENDS TTLCache, FiniteSetTheorems, TLAPS

(* What a call carries from one step to the next.                          *)
Carries(call) ==
    /\ call.step \in GetSteps => call.entry \in Entry
    /\ call.step \in GetSteps \cup SetSteps => call.key \in Keys
    /\ call.step = "purge" => Expired(call.entry)
    /\ call.step \in SetSteps => call.entry.value \in Values
    /\ call.step = "evict" => call.victim \in Keys
    /\ call.step = "store" => /\ call.entry \in Entry
                              /\ call.entry.expiresAt <= now + Ttl

CallsCarry == \A c \in Callers : Carries(calls[c])

(* The map holds no entry but the latest of its key: it may lose one, and  *)
(* never brings one back.                                                  *)
MapIsLatest == \A k \in Keys : m[k] \in {Missing, latest[k]}

IInv == TypeOK /\ CallsCarry /\ MapIsLatest

(* An idle call is well typed and carries nothing.                         *)
LEMMA IdleType ==
    ASSUME NEW answer \in Values \cup {NoValue}
    PROVE  /\ Idle(answer) \in Call
           /\ Carries(Idle(answer))
  BY TtlAssumption, MaxTimeAssumption, MaxEntriesAssumption, MaxProbeAssumption
     DEF At, Idle, Call, Carries, Missing, Time, GetSteps, SetSteps

(* A stamped call is well typed and ready to be stored.                    *)
LEMMA StampedType ==
    ASSUME now \in Time,
           NEW call \in Call, call.key \in Keys, call.entry.value \in Values
    PROVE  /\ Stamped(call) \in Call
           /\ Carries(Stamped(call))
<1> DEFINE e == [value |-> call.entry.value, expiresAt |-> now + Ttl]
           s == At("store", call.key, e, call.answer)
<1>1. e \in Entry /\ e.expiresAt <= now + Ttl
  BY TtlAssumption, MaxTimeAssumption DEF Entry, Time
<1>2. e \in [value : Values \cup {NoValue}, expiresAt : -1..(MaxTime + Ttl)]
  BY <1>1, TtlAssumption, MaxTimeAssumption DEF Entry
<1> HIDE DEF e
<1>3. s \in Call
  BY <1>2, MaxTimeAssumption, MaxEntriesAssumption, MaxProbeAssumption
     DEF At, Call, Time, GetSteps, SetSteps
<1>4. Carries(s)
  BY <1>1, <1>2 DEF At, Carries, GetSteps, SetSteps, Entry
<1>5. QED
  BY <1>3, <1>4 DEF e, Stamped

(* A typed map stays so, and stays within the latest, when a key is lost.  *)
LEMMA LosesOne ==
    ASSUME IInv, NEW k \in Keys, Remove(k), UNCHANGED latest
    PROVE  /\ m' \in [Keys -> Entry \cup {Missing}]
           /\ MapIsLatest'
<1>1. m' \in [Keys -> Entry \cup {Missing}]
  BY DEF IInv, TypeOK, Remove
<1>2. \A j \in Keys : m'[j] = IF j = k THEN Missing ELSE m[j]
  BY DEF IInv, TypeOK, Remove
<1>3. QED
  BY <1>1, <1>2 DEF IInv, MapIsLatest

(* The invariant survives when one call changes, to one that is well typed *)
(* and carries what it must, while the map keeps its entries or loses one. *)
LEMMA OneCall ==
    ASSUME IInv, NEW c \in Callers, NEW call \in Call, Carries(call),
           calls' = [calls EXCEPT ![c] = call],
           overlaps' \in 0..MaxOverlaps,
           UNCHANGED m \/ \E k \in Keys : Remove(k),
           UNCHANGED <<now, swept, latest>>
    PROVE  IInv'
<1>1. m' \in [Keys -> Entry \cup {Missing}] /\ MapIsLatest'
  <2>1. CASE UNCHANGED m
    BY <2>1 DEF IInv, TypeOK, MapIsLatest
  <2>2. CASE \E k \in Keys : Remove(k)
    BY <2>2, LosesOne
  <2>3. QED
    BY <2>1, <2>2
<1>2. TypeOK'
  BY <1>1 DEF IInv, TypeOK
<1>3. \A d \in Callers : calls'[d] = IF d = c THEN call ELSE calls[d]
  BY DEF IInv, TypeOK
<1>4. CallsCarry'
  <2> SUFFICES ASSUME NEW d \in Callers PROVE Carries(calls[d])'
    BY DEF CallsCarry
  <2>1. Carries(calls'[d])
    BY <1>3 DEF IInv, CallsCarry
  <2>2. QED
    BY <2>1 DEF Carries, Expired
<1>5. QED
  BY <1>1, <1>2, <1>4 DEF IInv

(* The invariant survives when the calls stay as they are and at most one  *)
(* entry is lost.                                                          *)
LEMMA NoCall ==
    ASSUME IInv, UNCHANGED <<now, calls, overlaps, latest>>,
           swept' \in Keys \cup {NoKey},
           UNCHANGED m \/ \E k \in Keys : Remove(k)
    PROVE  IInv'
<1>1. m' \in [Keys -> Entry \cup {Missing}] /\ MapIsLatest'
  <2>1. CASE UNCHANGED m
    BY <2>1 DEF IInv, TypeOK, MapIsLatest
  <2>2. CASE \E k \in Keys : Remove(k)
    BY <2>2, LosesOne
  <2>3. QED
    BY <2>1, <2>2
<1>2. TypeOK'
  BY <1>1 DEF IInv, TypeOK
<1>3. CallsCarry'
  BY DEF IInv, CallsCarry, Carries, Expired
<1>4. QED
  BY <1>1, <1>2, <1>3 DEF IInv

------------------------------------------------------------------------------
(* The steps of a Get keep the invariant.                                  *)
LEMMA GetSteps_Keep ==
    ASSUME IInv, NEW c \in Callers, GetNext(c)
    PROVE  IInv'
<1> DEFINE call == calls[c]
<1>1. call \in Call /\ Carries(call) /\ overlaps \in 0..MaxOverlaps
  BY DEF IInv, TypeOK, CallsCarry
<1>2. ASSUME NEW k \in Keys, Load(c, k) PROVE IInv'
  <2>1. CASE m[k] = Missing
    <3>1. calls' = [calls EXCEPT ![c] = Idle(NoValue)]
      BY <1>2, <2>1 DEF Load
    <3>2. QED
      BY <1>1, <1>2, <3>1, IdleType, OneCall DEF Load
  <2>2. CASE m[k] # Missing
    <3> DEFINE next == At("check", k, m[k], call.answer)
    <3>1. calls' = [calls EXCEPT ![c] = next]
      BY <1>2, <2>2 DEF Load
    <3>2. m[k] \in Entry
      BY <2>2 DEF IInv, TypeOK
    <3>3. m[k] \in [value : Values \cup {NoValue}, expiresAt : -1..(MaxTime + Ttl)]
      BY <3>2, TtlAssumption, MaxTimeAssumption DEF Entry
    <3>4. next \in Call
      BY <1>1, <3>3, MaxTimeAssumption, MaxEntriesAssumption, MaxProbeAssumption
         DEF At, Call, Time, GetSteps, SetSteps
    <3>5. Carries(next)
      BY <3>2 DEF At, Carries, GetSteps, SetSteps
    <3>6. QED
      BY <1>1, <1>2, <3>1, <3>4, <3>5, OneCall DEF Load
  <2>3. QED
    BY <2>1, <2>2
<1>3. ASSUME Check(c) PROVE IInv'
  <2>1. CASE Expired(call.entry)
    <3>1. calls' = [calls EXCEPT ![c] = [call EXCEPT !.step = "purge"]]
      BY <1>3, <2>1 DEF Check
    <3>2. [call EXCEPT !.step = "purge"] \in Call
      BY <1>1 DEF Call, GetSteps, SetSteps
    <3>3. Carries([call EXCEPT !.step = "purge"])
      BY <1>1, <1>3, <2>1 DEF Check, Call, Carries, GetSteps, SetSteps
    <3>4. QED
      BY <1>1, <1>3, <3>1, <3>2, <3>3, OneCall DEF Check
  <2>2. CASE ~Expired(call.entry)
    <3>1. calls' = [calls EXCEPT ![c] = Idle(call.entry.value)]
      BY <1>3, <2>2 DEF Check
    <3>2. call.entry.value \in Values
      BY <1>1, <1>3 DEF Check, Carries, GetSteps, Entry
    <3>3. QED
      BY <1>1, <1>3, <3>1, <3>2, IdleType, OneCall DEF Check
  <2>3. QED
    BY <2>1, <2>2
<1>4. ASSUME Purge(c) PROVE IInv'
  <2>1. call.key \in Keys
    BY <1>1, <1>4 DEF Purge, Carries, GetSteps
  <2>2. QED
    BY <1>1, <1>4, <2>1, IdleType, OneCall DEF Purge
<1>5. QED
  BY <1>2, <1>3, <1>4 DEF GetNext

(* The steps of a Set keep the invariant.                                  *)
LEMMA SetSteps_Keep ==
    ASSUME IInv, NEW c \in Callers, SetNext(c)
    PROVE  IInv'
<1> DEFINE call == calls[c]
<1>1. call \in Call /\ Carries(call) /\ overlaps \in 0..MaxOverlaps /\ now \in Time
  BY DEF IInv, TypeOK, CallsCarry
<1>2. ASSUME call.step \in SetSteps
      PROVE  Stamped(call) \in Call /\ Carries(Stamped(call))
  <2>1. call.key \in Keys /\ call.entry.value \in Values
    BY <1>1, <1>2 DEF Carries
  <2>2. QED
    BY <1>1, <2>1, StampedType
<1>3. ASSUME NEW k \in Keys, NEW v \in Values, BeginSet(c, k, v) PROVE IInv'
  <2> DEFINE asked == At("measure", k, [value |-> v, expiresAt |-> -1], call.answer)
             next == IF MaxEntries > 0 THEN [asked EXCEPT !.left = Keys]
                     ELSE Stamped(asked)
  <2>1. [value |-> v, expiresAt |-> -1]
          \in [value : Values \cup {NoValue}, expiresAt : -1..(MaxTime + Ttl)]
    BY TtlAssumption, MaxTimeAssumption
  <2>2. asked \in Call
    BY <1>1, <2>1, MaxTimeAssumption, MaxEntriesAssumption, MaxProbeAssumption
       DEF At, Call, Time, GetSteps, SetSteps
  <2>3. asked.key \in Keys /\ asked.entry.value \in Values /\ asked.step = "measure"
    BY DEF At
  <2>4. Stamped(asked) \in Call /\ Carries(Stamped(asked))
    BY <1>1, <2>2, <2>3, StampedType
  <2> HIDE DEF asked
  <2>5. [asked EXCEPT !.left = Keys] \in Call
    BY <2>2 DEF Call
  <2>6. Carries([asked EXCEPT !.left = Keys])
    BY <2>2, <2>3 DEF Call, Carries, GetSteps, SetSteps
  <2>7. next \in Call /\ Carries(next)
    BY <2>4, <2>5, <2>6
  <2>8. calls' = [calls EXCEPT ![c] = next]
    BY <1>3 DEF BeginSet, asked
  <2>9. overlaps' \in 0..MaxOverlaps
    BY <1>1, <1>3, MaxOverlapsAssumption DEF BeginSet
  <2> HIDE DEF next
  <2>10. QED
    BY <1>3, <2>7, <2>8, <2>9, OneCall DEF BeginSet
<1>4. ASSUME NEW k \in Keys, Measure(c, k) PROVE IInv'
  <2> DEFINE size == IF m[k] = Missing THEN call.size ELSE call.size + 1
             next == [call EXCEPT !.left = @ \ {k}, !.size = size]
  <2>1. calls' = [calls EXCEPT ![c] = next]
    BY <1>1, <1>4 DEF Measure, IInv, TypeOK
  <2>2. size \in 0..(MaxEntries + MaxProbe)
    BY <1>1, <1>4, MaxEntriesAssumption, MaxProbeAssumption DEF Measure, Call
  <2> HIDE DEF size
  <2>3. next \in Call
    BY <1>1, <2>2 DEF Call
  <2>4. Carries(next)
    BY <1>1, <1>4 DEF Measure, Call, Carries, GetSteps, SetSteps
  <2>5. QED
    BY <1>1, <1>4, <2>1, <2>3, <2>4, OneCall DEF Measure
<1>5. ASSUME Measured(c) PROVE IInv'
  <2> DEFINE next == [call EXCEPT !.step = "sample", !.left = Keys, !.size = 0,
                                  !.since = now]
  <2>1. calls' = [calls EXCEPT ![c] = IF call.size >= MaxEntries THEN next
                                      ELSE Stamped(call)]
    BY <1>5 DEF Measured
  <2>2. next \in Call
    <3>1. 0 \in 0..(MaxEntries + MaxProbe) /\ "sample" \in SetSteps
      BY MaxEntriesAssumption, MaxProbeAssumption DEF SetSteps
    <3>2. QED
      BY <1>1, <3>1 DEF Call
  <2>3. Carries(next)
    BY <1>1, <1>5 DEF Measured, Call, Carries, GetSteps, SetSteps
  <2>4. call.step \in SetSteps
    BY <1>5 DEF Measured, SetSteps
  <2> HIDE DEF next
  <2>5. QED
    BY <1>1, <1>2, <1>5, <2>1, <2>2, <2>3, <2>4, OneCall DEF Measured
<1>6. ASSUME NEW k \in Keys, Sample(c, k) PROVE IInv'
  <2> DEFINE first == FirstMet(call, k)
             passed == [call EXCEPT !.left = @ \ {k}]
             chosen == [call EXCEPT !.step = "evict", !.victim = k]
             met == [call EXCEPT !.left = @ \ {k}, !.size = @ + 1, !.victim = first]
             next == Seen(call, k)
  <2>1. calls' = [calls EXCEPT ![c] = next]
    BY <1>6 DEF Sample
  <2>2. passed \in Call /\ Carries(passed)
    BY <1>1 DEF Call, Carries
  <2>3. chosen \in Call
    BY <1>1 DEF Call, SetSteps
  <2>4. Carries(chosen)
    BY <1>1, <1>6 DEF Sample, Call, Carries, GetSteps, SetSteps
  <2>5. first \in Keys \cup {NoKey}
    BY <1>1 DEF FirstMet, Call
  <2> HIDE DEF first
  <2>6. call.size + 1 \in 0..(MaxEntries + MaxProbe)
    BY <1>1, <1>6, MaxEntriesAssumption, MaxProbeAssumption DEF Sample, Call
  <2>7. met \in Call
    BY <1>1, <2>5, <2>6 DEF Call
  <2>8. Carries(met)
    BY <1>1, <1>6 DEF Sample, Call, Carries, GetSteps, SetSteps
  <2>9. next \in Call /\ Carries(next)
    <3>1. next = IF m[k] = Missing THEN passed
                 ELSE IF call.since > m[k].expiresAt THEN chosen ELSE met
      BY DEF Seen, first
    <3> HIDE DEF passed, chosen, met, next
    <3>2. QED
      BY <3>1, <2>2, <2>3, <2>4, <2>7, <2>8
  <2> HIDE DEF next
  <2>10. QED
    BY <1>1, <1>6, <2>1, <2>9, OneCall DEF Sample
<1>7. ASSUME Sampled(c) PROVE IInv'
  <2> DEFINE next == [call EXCEPT !.step = "evict"]
  <2>1. calls' = [calls EXCEPT ![c] = IF call.victim # NoKey THEN next
                                      ELSE Stamped(call)]
    BY <1>7 DEF Sampled
  <2>2. next \in Call
    BY <1>1 DEF Call, SetSteps
  <2>3. call.victim # NoKey => Carries(next)
    BY <1>1, <1>7 DEF Sampled, Call, Carries, GetSteps, SetSteps
  <2>4. call.step \in SetSteps
    BY <1>7 DEF Sampled, SetSteps
  <2> HIDE DEF next
  <2>5. QED
    BY <1>1, <1>2, <1>7, <2>1, <2>2, <2>3, <2>4, OneCall DEF Sampled
<1>8. ASSUME Evict(c) PROVE IInv'
  <2>1. call.victim \in Keys /\ call.step \in SetSteps
    BY <1>1, <1>8 DEF Evict, Carries, SetSteps
  <2>2. calls' = [calls EXCEPT ![c] = Stamped(call)]
    BY <1>8 DEF Evict
  <2>3. QED
    BY <1>1, <1>2, <1>8, <2>1, <2>2, OneCall DEF Evict
<1>9. ASSUME Store(c) PROVE IInv'
  <2>1. call.key \in Keys /\ call.entry \in Entry
    BY <1>1, <1>9 DEF Store, Carries, SetSteps
  <2>2. /\ m' = [m EXCEPT ![call.key] = call.entry]
        /\ latest' = [latest EXCEPT ![call.key] = call.entry]
        /\ calls' = [calls EXCEPT ![c] = Idle(call.answer)]
    BY <1>9 DEF Store
  <2>3. Idle(call.answer) \in Call /\ Carries(Idle(call.answer))
    BY <1>1, IdleType DEF Call
  <2>4. TypeOK'
    BY <1>9, <2>1, <2>2, <2>3 DEF IInv, TypeOK, Store
  <2>5. MapIsLatest'
    BY <2>1, <2>2 DEF IInv, TypeOK, MapIsLatest
  <2>6. CallsCarry'
    <3> SUFFICES ASSUME NEW d \in Callers PROVE Carries(calls[d])'
      BY DEF CallsCarry
    <3>1. Carries(calls'[d])
      BY <2>2, <2>3 DEF IInv, TypeOK, CallsCarry
    <3>2. QED
      BY <1>9, <3>1 DEF Carries, Expired, Store
  <2>7. QED
    BY <2>4, <2>5, <2>6 DEF IInv
<1>10. QED
  BY <1>3, <1>4, <1>5, <1>6, <1>7, <1>8, <1>9 DEF SetNext

(* The clock, a Delete and the evictor keep the invariant.                 *)
LEMMA OtherSteps_Keep ==
    ASSUME IInv,
           Tick \/ SweepDelete \/ \E k \in Keys : Delete(k) \/ SweepVisit(k)
    PROVE  IInv'
<1>1. ASSUME Tick PROVE IInv'
  <2>1. now' \in Time
    BY <1>1, MaxTimeAssumption DEF IInv, TypeOK, Tick, Time
  <2>2. TypeOK' /\ MapIsLatest'
    BY <1>1, <2>1 DEF IInv, TypeOK, MapIsLatest, Tick
  <2>3. CallsCarry'
    <3> SUFFICES ASSUME NEW c \in Callers PROVE Carries(calls[c])'
      BY DEF CallsCarry
    <3>1. Carries(calls[c]) /\ calls[c] \in Call /\ now \in Nat /\ now' = now + 1
      BY <1>1 DEF IInv, TypeOK, CallsCarry, Tick, Time
    <3>2. calls[c].entry.expiresAt \in Int
      BY <3>1 DEF Call
    <3>3. QED
      BY <1>1, <3>1, <3>2, TtlAssumption DEF Carries, Expired, Tick
  <2>4. QED
    BY <2>2, <2>3 DEF IInv
<1>2. ASSUME SweepDelete PROVE IInv'
  BY <1>2, NoCall DEF SweepDelete, IInv, TypeOK
<1>3. ASSUME NEW k \in Keys, SweepVisit(k) PROVE IInv'
  BY <1>3, NoCall DEF SweepVisit
<1>4. ASSUME NEW k \in Keys, Delete(k) PROVE IInv'
  <2>1. TypeOK'
    BY <1>4 DEF IInv, TypeOK, Delete, Remove
  <2>2. MapIsLatest'
    BY <1>4 DEF IInv, TypeOK, MapIsLatest, Delete, Remove
  <2>3. CallsCarry'
    BY <1>4 DEF IInv, CallsCarry, Carries, Expired, Delete
  <2>4. QED
    BY <2>1, <2>2, <2>3 DEF IInv
<1>5. QED
  BY <1>1, <1>2, <1>3, <1>4

(* The inductive invariant holds throughout.                               *)
LEMMA Invariance == Spec => []IInv
<1>1. Init => IInv
  <2> SUFFICES ASSUME Init PROVE IInv
    OBVIOUS
  <2>1. TypeOK
    BY IdleType, MaxTimeAssumption, MaxOverlapsAssumption DEF Init, TypeOK, Time
  <2>2. CallsCarry /\ MapIsLatest
    BY IdleType DEF Init, CallsCarry, MapIsLatest
  <2>3. QED
    BY <2>1, <2>2 DEF IInv
<1>2. IInv /\ [Next]_vars => IInv'
  <2> SUFFICES ASSUME IInv, [Next]_vars PROVE IInv'
    OBVIOUS
  <2>1. CASE Next
    BY <2>1, GetSteps_Keep, SetSteps_Keep, OtherSteps_Keep DEF Next
  <2>2. CASE UNCHANGED vars
    BY <2>2 DEF vars, IInv, TypeOK, CallsCarry, Carries, Expired, MapIsLatest
  <2>3. QED
    BY <2>1, <2>2
<1>3. QED
  BY <1>1, <1>2, PTL DEF Spec

(* Type correctness, and with it all that the calls carry: for every cap   *)
(* and any number of callers the steps of Get, Set, Delete and the evictor *)
(* leave only well-formed entries, and never bring a lost entry back.      *)
THEOREM CacheInvariant == Spec => [](TypeOK /\ MapIsLatest)
<1>1. IInv => TypeOK /\ MapIsLatest
  BY DEF IInv
<1>2. QED
  BY <1>1, Invariance, PTL

------------------------------------------------------------------------------
(* Changing one call changes one lookup of the promise.                    *)
LEMMA OneLookup ==
    ASSUME TypeOK, NEW c \in Callers, NEW call,
           calls' = [calls EXCEPT ![c] = call]
    PROVE  Lookups' = [Lookups EXCEPT ![c] = Answering(call)]
<1>1. \A d \in Callers : calls'[d] = IF d = c THEN call ELSE calls[d]
  BY DEF TypeOK
<1>2. Lookups' = [d \in Callers |-> Answering(calls'[d])]
  BY DEF Lookups, Answering, Missing
<1>3. \A d \in Callers : Answering(calls'[d]) =
        IF d = c THEN Answering(call) ELSE Answering(calls[d])
  BY <1>1
<1>4. QED
  BY <1>2, <1>3 DEF Lookups

(* A Get finds, answers or misses; the load of a missing key and the purge *)
(* of an expired entry are misses.                                         *)
LEMMA GetSteps_Refine ==
    ASSUME IInv, NEW c \in Callers, GetNext(c)
    PROVE  [Lossy!Next]_(Lossy!vars)
<1> DEFINE call == calls[c]
           missed == [step |-> "idle", found |-> Missing, answer |-> NoValue]
<1>1. TypeOK /\ Carries(call) /\ Lookups[c] = Answering(call)
  BY DEF IInv, CallsCarry, Lookups
<1>2. Answering(Idle(NoValue)) = missed
  BY DEF Answering, Idle, At, GetSteps, SetSteps
<1>3. ASSUME calls' = [calls EXCEPT ![c] = Idle(NoValue)], UNCHANGED <<now, latest>>
      PROVE  Lossy!Miss(c)
  BY <1>1, <1>2, <1>3, OneLookup DEF Lossy!Miss, Lossy!Missing, Missing
<1>4. ASSUME NEW k \in Keys, Load(c, k) PROVE Lossy!Miss(c) \/ Lossy!Find(c, k)
  <2>1. CASE m[k] = Missing
    BY <1>3, <1>4, <2>1 DEF Load
  <2>2. CASE m[k] # Missing
    <3> DEFINE next == At("check", k, m[k], call.answer)
    <3>1. calls' = [calls EXCEPT ![c] = next]
      BY <1>4, <2>2 DEF Load
    <3>2. Lookups' = [Lookups EXCEPT ![c] = Answering(next)]
      BY <1>1, <3>1, OneLookup
    <3>3. m[k] = latest[k]
      BY <2>2 DEF IInv, MapIsLatest
    <3>4. Answering(next) = [step |-> "found", found |-> latest[k], answer |-> call.answer]
      BY <3>3 DEF Answering, At, GetSteps
    <3>5. Answering(call) = [step |-> "idle", found |-> Missing, answer |-> call.answer]
      BY <1>4 DEF Answering, Load, GetSteps
    <3>6. /\ Lookups[c].step = "idle" /\ Lookups[c].answer = call.answer
          /\ UNCHANGED <<now, latest>>
      BY <1>1, <1>4, <3>5 DEF Load
    <3>7. Lossy!Find(c, k)
      BY <3>2, <3>4, <3>6 DEF Lossy!Find
    <3>8. QED
      BY <3>7
  <2>3. QED
    BY <2>1, <2>2
<1>5. ASSUME Check(c)
      PROVE  Lossy!Reply(c) \/ UNCHANGED Lossy!vars
  <2>1. CASE Expired(call.entry)
    <3>1. calls' = [calls EXCEPT ![c] = [call EXCEPT !.step = "purge"]]
      BY <1>5, <2>1 DEF Check
    <3>2. Answering([call EXCEPT !.step = "purge"]) = Answering(call)
      BY <1>1, <1>5 DEF Check, IInv, TypeOK, Call, Answering, GetSteps
    <3>3. Lookups' = Lookups
      BY <1>1, <3>1, <3>2, OneLookup DEF Lookups
    <3>4. QED
      BY <1>5, <3>3 DEF Check, Lossy!vars
  <2>2. CASE ~Expired(call.entry)
    <3>1. calls' = [calls EXCEPT ![c] = Idle(call.entry.value)]
      BY <1>5, <2>2 DEF Check
    <3>2. Answering(Idle(call.entry.value)) =
             [step |-> "idle", found |-> Missing, answer |-> call.entry.value]
      BY DEF Answering, Idle, At, GetSteps
    <3>3. Answering(call).step = "found" /\ Answering(call).found = call.entry
      BY <1>5 DEF Answering, Check, GetSteps
    <3>4. Lookups' = [Lookups EXCEPT ![c] = Answering(Idle(call.entry.value))]
      BY <1>1, <3>1, OneLookup
    <3>5. /\ Lookups[c].step = "found" /\ Lookups[c].found = call.entry
          /\ UNCHANGED <<now, latest>>
      BY <1>1, <1>5, <3>3 DEF Check
    <3>6. ~Lossy!Expired(Lookups[c].found)
      BY <2>2, <3>5 DEF Expired, Lossy!Expired
    <3>7. Lossy!Reply(c)
      BY <3>2, <3>4, <3>5, <3>6 DEF Lossy!Reply, Lossy!Missing, Missing
    <3>8. QED
      BY <3>7
  <2>3. QED
    BY <2>1, <2>2
<1>6. ASSUME Purge(c) PROVE Lossy!Miss(c)
  BY <1>3, <1>6 DEF Purge
<1>7. QED
  BY <1>4, <1>5, <1>6 DEF GetNext, Lossy!Next

(* A Set is a Put at its store and nothing before it: counting, sampling   *)
(* and evicting cannot be observed.                                        *)
LEMMA SetSteps_Refine ==
    ASSUME IInv, NEW c \in Callers, SetNext(c)
    PROVE  [Lossy!Next]_(Lossy!vars)
<1> DEFINE call == calls[c]
           waiting == [step |-> "idle", found |-> Missing, answer |-> call.answer]
<1>1. TypeOK /\ call \in Call /\ Carries(call) /\ Lookups[c] = Answering(call)
  BY DEF IInv, TypeOK, CallsCarry, Lookups
<1>2. call.step \notin GetSteps => Answering(call) = waiting
  BY DEF Answering
<1>3. Answering(Stamped(call)) = waiting
  BY DEF Answering, Stamped, At, GetSteps
<1>4. ASSUME call.step \notin GetSteps, UNCHANGED <<now, latest>>,
             NEW next, calls' = [calls EXCEPT ![c] = next],
             Answering(next) = waiting
      PROVE  UNCHANGED Lossy!vars
  <2>1. Lookups' = [Lookups EXCEPT ![c] = Answering(call)]
    BY <1>1, <1>2, <1>4, OneLookup
  <2>2. Lookups' = Lookups
    BY <1>1, <2>1 DEF Lookups
  <2>3. QED
    BY <1>4, <2>2 DEF Lossy!vars
<1>5. ASSUME NEW k \in Keys, NEW v \in Values, BeginSet(c, k, v)
      PROVE  UNCHANGED Lossy!vars
  <2> DEFINE asked == At("measure", k, [value |-> v, expiresAt |-> -1], call.answer)
             next == IF MaxEntries > 0 THEN [asked EXCEPT !.left = Keys]
                     ELSE Stamped(asked)
  <2>1. calls' = [calls EXCEPT ![c] = next]
    BY <1>5 DEF BeginSet
  <2>2. Answering([asked EXCEPT !.left = Keys]) = waiting
    BY DEF Answering, At, GetSteps
  <2>3. Answering(Stamped(asked)) = waiting
    BY DEF Answering, Stamped, At, GetSteps
  <2>4. Answering(next) = waiting
    BY <2>2, <2>3
  <2>5. call.step \notin GetSteps /\ UNCHANGED <<now, latest>>
    BY <1>5 DEF BeginSet, GetSteps
  <2> HIDE DEF next
  <2>6. QED
    BY <1>4, <2>1, <2>4, <2>5
<1>6. ASSUME NEW k \in Keys, Measure(c, k) PROVE UNCHANGED Lossy!vars
  <2> DEFINE size == IF m[k] = Missing THEN call.size ELSE call.size + 1
             next == [call EXCEPT !.left = @ \ {k}, !.size = size]
  <2>1. calls' = [calls EXCEPT ![c] = next]
    BY <1>1, <1>6 DEF Measure, IInv, TypeOK
  <2>2. call.step \notin GetSteps /\ UNCHANGED <<now, latest>>
    BY <1>6 DEF Measure, GetSteps
  <2> HIDE DEF size
  <2>3. next.step = call.step /\ next.answer = call.answer
    BY <1>1 DEF Call
  <2>4. Answering(next) = waiting
    BY <2>2, <2>3 DEF Answering
  <2>5. QED
    BY <1>4, <2>1, <2>2, <2>4
<1>7. ASSUME Measured(c) PROVE UNCHANGED Lossy!vars
  <2> DEFINE sampling == [call EXCEPT !.step = "sample", !.left = Keys,
                                      !.size = 0, !.since = now]
             next == IF call.size >= MaxEntries THEN sampling ELSE Stamped(call)
  <2>1. calls' = [calls EXCEPT ![c] = next]
    BY <1>7 DEF Measured
  <2>2. call.step \notin GetSteps /\ UNCHANGED <<now, latest>>
    BY <1>7 DEF Measured, GetSteps
  <2>3. sampling.step = "sample" /\ sampling.answer = call.answer
    BY <1>1 DEF Call
  <2>4. Answering(sampling) = waiting
    BY <2>3 DEF Answering, GetSteps
  <2>5. Answering(next) = waiting
    BY <1>3, <2>4
  <2> HIDE DEF next
  <2>6. QED
    BY <1>4, <2>1, <2>2, <2>5
<1>8. ASSUME NEW k \in Keys, Sample(c, k) PROVE UNCHANGED Lossy!vars
  <2> DEFINE next == Seen(call, k)
  <2>1. calls' = [calls EXCEPT ![c] = next]
    BY <1>8 DEF Sample
  <2>2. call.step = "sample" /\ UNCHANGED <<now, latest>>
    BY <1>8 DEF Sample
  <2>3. next.step \in {"sample", "evict"} /\ next.answer = call.answer
    <3>1. CASE m[k] = Missing
      BY <1>1, <2>2, <3>1 DEF Seen, Call
    <3>2. CASE m[k] # Missing /\ call.since > m[k].expiresAt
      <4>1. next = [call EXCEPT !.step = "evict", !.victim = k]
        BY <3>2 DEF Seen
      <4>2. QED
        BY <1>1, <4>1 DEF Call
    <3>3. CASE m[k] # Missing /\ ~(call.since > m[k].expiresAt)
      <4>1. next = [call EXCEPT !.left = @ \ {k}, !.size = @ + 1,
                                !.victim = FirstMet(call, k)]
        BY <3>3 DEF Seen
      <4>2. QED
        BY <1>1, <2>2, <4>1 DEF Call
    <3>4. QED
      BY <3>1, <3>2, <3>3
  <2>4. Answering(next) = waiting
    BY <2>3 DEF Answering, GetSteps
  <2>5. call.step \notin GetSteps
    BY <2>2 DEF GetSteps
  <2> HIDE DEF next
  <2>6. QED
    BY <1>4, <2>1, <2>2, <2>4, <2>5
<1>9. ASSUME Sampled(c) PROVE UNCHANGED Lossy!vars
  <2> DEFINE next == IF call.victim # NoKey THEN [call EXCEPT !.step = "evict"]
                     ELSE Stamped(call)
  <2>1. calls' = [calls EXCEPT ![c] = next]
    BY <1>9 DEF Sampled
  <2>2. call.step \notin GetSteps /\ UNCHANGED <<now, latest>>
    BY <1>9 DEF Sampled, GetSteps
  <2>3. Answering([call EXCEPT !.step = "evict"]) = waiting
    BY <1>1 DEF Call, Answering, GetSteps
  <2>4. Answering(next) = waiting
    BY <1>3, <2>3
  <2> HIDE DEF next
  <2>5. QED
    BY <1>4, <2>1, <2>2, <2>4
<1>10. ASSUME Evict(c) PROVE UNCHANGED Lossy!vars
  <2>1. calls' = [calls EXCEPT ![c] = Stamped(call)]
    BY <1>10 DEF Evict
  <2>2. call.step \notin GetSteps /\ UNCHANGED <<now, latest>>
    BY <1>10 DEF Evict, GetSteps
  <2>3. QED
    BY <1>3, <1>4, <2>1, <2>2
<1>11. ASSUME Store(c) PROVE \E k \in Keys, entry \in Entry : Lossy!Put(k, entry)
  <2>1. calls' = [calls EXCEPT ![c] = Idle(call.answer)] /\ call.step = "store"
    BY <1>11 DEF Store
  <2>2. call.key \in Keys /\ call.entry \in Entry /\ call.entry.expiresAt <= now + Ttl
    BY <1>1, <2>1 DEF Carries, SetSteps
  <2>3. Answering(Idle(call.answer)) = Answering(call)
    BY <2>1 DEF Answering, Idle, At, GetSteps
  <2>4. Lookups' = [Lookups EXCEPT ![c] = Answering(call)]
    BY <1>1, <2>1, <2>3, OneLookup
  <2>5. UNCHANGED <<now, Lookups>>
    BY <1>1, <1>11, <2>4 DEF Lookups, Store
  <2>6. latest' = [latest EXCEPT ![call.key] = call.entry]
    BY <1>11 DEF Store
  <2>7. Lossy!Put(call.key, call.entry)
    BY <2>2, <2>5, <2>6 DEF Lossy!Put
  <2>8. QED
    BY <2>2, <2>7
<1>12. QED
  BY <1>5, <1>6, <1>7, <1>8, <1>9, <1>10, <1>11
     DEF SetNext, Lossy!Next, Lossy!Entry, Entry

(* The clock ticks, a Delete forgets, and the evictor cannot be observed.  *)
LEMMA OtherSteps_Refine ==
    ASSUME Tick \/ SweepDelete \/ \E k \in Keys : Delete(k) \/ SweepVisit(k)
    PROVE  [Lossy!Next]_(Lossy!vars)
<1>1. UNCHANGED calls
  BY DEF Tick, SweepDelete, Delete, SweepVisit
<1>2. UNCHANGED Lookups
  BY <1>1 DEF Lookups, Answering, Missing
<1>3. CASE Tick
  BY <1>2, <1>3 DEF Tick, Lossy!Tick, Lossy!Next
<1>4. CASE SweepDelete \/ \E k \in Keys : SweepVisit(k)
  BY <1>2, <1>4 DEF SweepDelete, SweepVisit, Lossy!vars
<1>5. ASSUME NEW k \in Keys, Delete(k) PROVE Lossy!Next
  <2>1. Lossy!Forget(k)
    BY <1>2, <1>5 DEF Delete, Lossy!Forget, Lossy!Missing, Missing
  <2>2. QED
    BY <2>1 DEF Lossy!Next
<1>6. QED
  BY <1>3, <1>4, <1>5

(* The cache implements LossyMap: whatever the callers, the cap, the       *)
(* sampling and the evictor do, a Get answers with what was last stored    *)
(* under its key, unexpired and not deleted when it looked, or misses.     *)
THEOREM CacheRefinesLossyMap == Spec => ServesLatest
<1>1. Init => Lossy!Init
  <2> SUFFICES ASSUME Init PROVE Lossy!Init
    OBVIOUS
  <2>1. Answering(Idle(NoValue)) =
           [step |-> "idle", found |-> Missing, answer |-> NoValue]
    BY DEF Answering, Idle, At, GetSteps
  <2>2. Lookups = [c \in Callers |-> Answering(Idle(NoValue))]
    BY DEF Init, Lookups
  <2>3. QED
    BY <2>1, <2>2 DEF Init, Lossy!Init, Lossy!Missing, Missing
<1>2. IInv /\ [Next]_vars => [Lossy!Next]_(Lossy!vars)
  <2> SUFFICES ASSUME IInv, [Next]_vars PROVE [Lossy!Next]_(Lossy!vars)
    OBVIOUS
  <2>1. CASE Next
    BY <2>1, GetSteps_Refine, SetSteps_Refine, OtherSteps_Refine DEF Next
  <2>2. CASE UNCHANGED vars
    BY <2>2 DEF vars, Lossy!vars, Lookups, Answering, Missing
  <2>3. QED
    BY <2>1, <2>2
<1>3. QED
  BY <1>1, <1>2, Invariance, PTL DEF Spec, ServesLatest, Lossy!Spec

------------------------------------------------------------------------------
(* The cap.  Kept are the keys that the map holds, Pending the callers in  *)
(* a Set.                                                                  *)
Kept    == {k \in Keys : m[k] # Missing}
Pending == {c \in Callers : InSet(c)}

Setting == Cardinality(Pending)

(* A Set that is bound to evict an entry before it stores, as long as none *)
(* is deleted: it will count to the cap, it has or will meet a victim.     *)
BoundToEvict(call) ==
    \/ /\ call.step = "measure"
       /\ call.victim = NoKey
       /\ Cardinality(Kept \cap call.left) + call.size >= MaxEntries
    \/ /\ call.step = "sample"
       /\ \/ call.victim \in Kept
          \/ call.victim = NoKey /\ call.size = 0 /\ Kept \cap call.left # {}
    \/ /\ call.step = "evict"
       /\ call.victim \in Kept

(* Each Set in progress may add one entry.  Either there is room for all   *)
(* of them, or there is room for all but one and each is bound to evict:   *)
(* the first of them to do so makes the room that is missing.              *)
Room == Size + Setting <= MaxEntries + overlaps

Tight ==
    /\ Size + Setting = MaxEntries + overlaps + 1
    /\ Setting >= 1
    /\ Size >= MaxEntries
    /\ \A c \in Pending : BoundToEvict(calls[c])

SlackInv ==
    /\ IsFiniteSet(Pending)
    /\ MaxEntries > 0 => Room \/ Tight

(* The sizes are natural numbers.                                          *)
LEMMA Sizes ==
    ASSUME TypeOK, IsFiniteSet(Pending)
    PROVE  /\ IsFiniteSet(Kept) /\ Size = Cardinality(Kept)
           /\ Size \in Nat /\ Setting \in Nat /\ overlaps \in Nat
<1>1. IsFiniteSet(Kept)
  BY KeysAssumption, FS_Subset DEF Kept
<1>2. QED
  BY <1>1, FS_CardinalityType, MaxOverlapsAssumption DEF Size, Kept, Setting, TypeOK

(* Deleting a key takes it from those that are kept.                       *)
LEMMA KeptLosesOne ==
    ASSUME TypeOK, IsFiniteSet(Pending), NEW k \in Keys, Remove(k)
    PROVE  /\ Kept' = Kept \ {k}
           /\ Size' = IF k \in Kept THEN Size - 1 ELSE Size
<1>1. \A j \in Keys : m'[j] = IF j = k THEN Missing ELSE m[j]
  BY DEF TypeOK, Remove
<1>2. Kept' = Kept \ {k}
  BY <1>1 DEF Kept, Missing
<1>3. Size' = Cardinality(Kept \ {k})
  BY <1>2 DEF Size, Kept
<1>4. QED
  BY <1>2, <1>3, Sizes, FS_RemoveElement

(* A call that stays within its Set, or outside of one, and is bound to    *)
(* evict where it was, keeps the balance while the map stays as it is.     *)
LEMMA OneStays ==
    ASSUME TypeOK, SlackInv, NEW c \in Callers, NEW call,
           calls' = [calls EXCEPT ![c] = call],
           InSet(c) <=> call.step \in SetSteps,
           MaxEntries > 0 /\ InSet(c) /\ Tight /\ BoundToEvict(calls[c])
              => BoundToEvict(call),
           UNCHANGED <<m, overlaps>>
    PROVE  SlackInv'
<1>1. \A d \in Callers : calls'[d] = IF d = c THEN call ELSE calls[d]
  BY DEF TypeOK
<1>2. Pending' = Pending /\ Setting' = Setting
  BY <1>1 DEF Pending, InSet, Setting
<1>3. Kept' = Kept /\ Size' = Size
  BY DEF Kept, Size, Missing
<1>4. ASSUME MaxEntries > 0, Tight PROVE Tight'
  <2>1. \A d \in Pending' : BoundToEvict(calls'[d])
    BY <1>1, <1>2, <1>4 DEF Tight, Pending
  <2>2. \A d \in Pending' : BoundToEvict(calls[d])'
    BY <1>3, <2>1 DEF BoundToEvict
  <2>3. QED
    BY <1>2, <1>3, <1>4, <2>2 DEF Tight
<1>5. QED
  BY <1>2, <1>3, <1>4 DEF SlackInv, Room

(* A deletion keeps the balance.  If it takes an entry it makes the room   *)
(* that was missing; otherwise the Sets in progress stay bound to evict.   *)
LEMMA OneIsLost ==
    ASSUME TypeOK, SlackInv, NEW k \in Keys, Remove(k), UNCHANGED overlaps,
           Pending' = Pending,
           MaxEntries > 0 /\ Tight /\ k \notin Kept
              => \A d \in Pending : calls'[d] = calls[d]
    PROVE  SlackInv'
<1>1. Setting' = Setting
  BY DEF Setting
<1>2. /\ Kept' = Kept \ {k}
      /\ Size' = IF k \in Kept THEN Size - 1 ELSE Size
  BY KeptLosesOne DEF SlackInv
<1>3. /\ Size \in Nat /\ Setting \in Nat /\ overlaps \in Nat /\ MaxEntries \in Nat
  BY Sizes, MaxEntriesAssumption DEF SlackInv
<1>4. ASSUME MaxEntries > 0, Room PROVE Room'
  BY <1>1, <1>2, <1>3, <1>4 DEF Room
<1>5. ASSUME MaxEntries > 0, Tight PROVE Room' \/ Tight'
  <2>1. CASE k \in Kept
    BY <1>1, <1>2, <1>3, <1>5, <2>1 DEF Room, Tight
  <2>2. CASE k \notin Kept
    <3>1. Kept' = Kept /\ Size' = Size
      BY <1>2, <2>2
    <3>2. \A d \in Pending' : BoundToEvict(calls[d])'
      BY <1>5, <2>2, <3>1 DEF BoundToEvict, Tight
    <3>3. QED
      BY <1>1, <1>5, <3>1, <3>2 DEF Tight
  <2>3. QED
    BY <2>1, <2>2
<1>6. QED
  BY <1>4, <1>5 DEF SlackInv

(* The steps of a Get keep the balance.                                    *)
LEMMA GetSteps_KeepSlack ==
    ASSUME IInv, SlackInv, NEW c \in Callers, GetNext(c)
    PROVE  SlackInv'
<1>1. TypeOK /\ calls[c] \in Call /\ Carries(calls[c])
  BY DEF IInv, TypeOK, CallsCarry
<1>2. \A answer : Idle(answer).step \notin SetSteps
  BY DEF Idle, At, SetSteps
<1>3. ASSUME NEW k \in Keys, Load(c, k) PROVE SlackInv'
  <2> DEFINE next == IF m[k] = Missing THEN Idle(NoValue)
                     ELSE At("check", k, m[k], calls[c].answer)
  <2>1. calls' = [calls EXCEPT ![c] = next] /\ UNCHANGED <<m, overlaps>>
    BY <1>3 DEF Load
  <2>2. ~InSet(c) /\ next.step \notin SetSteps
    BY <1>2, <1>3 DEF Load, InSet, At, SetSteps
  <2> HIDE DEF next
  <2>3. QED
    BY <1>1, <2>1, <2>2, OneStays
<1>4. ASSUME Check(c) PROVE SlackInv'
  <2> DEFINE next == IF Expired(calls[c].entry) THEN [calls[c] EXCEPT !.step = "purge"]
                     ELSE Idle(calls[c].entry.value)
  <2>1. calls' = [calls EXCEPT ![c] = next] /\ UNCHANGED <<m, overlaps>>
    BY <1>4 DEF Check
  <2>2. [calls[c] EXCEPT !.step = "purge"].step \notin SetSteps
    BY <1>1 DEF Call, SetSteps
  <2>3. ~InSet(c) /\ next.step \notin SetSteps
    BY <1>2, <1>4, <2>2 DEF Check, InSet, SetSteps
  <2> HIDE DEF next
  <2>4. QED
    BY <1>1, <2>1, <2>3, OneStays
<1>5. ASSUME Purge(c) PROVE SlackInv'
  <2>1. \A d \in Callers : calls'[d] = IF d = c THEN Idle(NoValue) ELSE calls[d]
    BY <1>1, <1>5 DEF Purge, TypeOK
  <2>2. ~InSet(c)
    BY <1>5 DEF Purge, InSet, SetSteps
  <2>3. Pending' = Pending
    BY <1>2, <2>1, <2>2 DEF Pending, InSet
  <2>4. \A d \in Pending : calls'[d] = calls[d]
    BY <2>1, <2>2 DEF Pending
  <2>5. calls[c].key \in Keys
    BY <1>1, <1>5 DEF Purge, Carries, GetSteps
  <2>6. QED
    BY <1>1, <1>5, <2>3, <2>4, <2>5, OneIsLost DEF Purge
<1>6. QED
  BY <1>3, <1>4, <1>5 DEF GetNext

(* A Set begins: a first one takes the room of one entry, or is bound to   *)
(* evict as the map is full; each other one is counted as an overlap.      *)
LEMMA BeginSet_KeepsSlack ==
    ASSUME IInv, SlackInv, NEW c \in Callers, NEW k \in Keys, NEW v \in Values,
           BeginSet(c, k, v)
    PROVE  SlackInv'
<1> DEFINE asked == At("measure", k, [value |-> v, expiresAt |-> -1], calls[c].answer)
           next == IF MaxEntries > 0 THEN [asked EXCEPT !.left = Keys]
                   ELSE Stamped(asked)
<1>1. \A d \in Callers : calls'[d] = IF d = c THEN next ELSE calls[d]
  BY DEF BeginSet, IInv, TypeOK
<1>2. /\ next.step \in SetSteps
      /\ MaxEntries > 0 => /\ next.step = "measure"
                           /\ next.victim = NoKey
                           /\ next.left = Keys
                           /\ next.size = 0
  BY DEF Stamped, At, SetSteps
<1> HIDE DEF next
<1>3. ~InSet(c) /\ UNCHANGED m
  BY DEF BeginSet, InSet, SetSteps
<1>4. Pending' = Pending \cup {c} /\ c \notin Pending
  BY <1>1, <1>2, <1>3 DEF Pending, InSet
<1>5. IsFiniteSet(Pending') /\ Setting' = Setting + 1
  BY <1>4, FS_AddElement DEF SlackInv, Setting
<1>6. Kept' = Kept /\ Size' = Size
  BY <1>3 DEF Kept, Size, Missing
<1>7. /\ Size \in Nat /\ Setting \in Nat /\ overlaps \in Nat /\ MaxEntries \in Nat
      /\ Size = Cardinality(Kept)
  BY Sizes, MaxEntriesAssumption DEF IInv, SlackInv
<1>8. Setting = 0 <=> Pending = {}
  BY FS_EmptySet DEF SlackInv, Setting
<1>9. ASSUME MaxEntries > 0, Size >= MaxEntries PROVE BoundToEvict(next)
  <2>1. Kept \cap next.left = Kept
    BY <1>2, <1>9 DEF Kept
  <2>2. Cardinality(Kept \cap next.left) = Cardinality(Kept)
    BY <2>1, Zenon
  <2>3. QED
    BY <1>2, <1>7, <1>9, <2>2 DEF BoundToEvict
<1>10. ASSUME MaxEntries > 0 PROVE Room' \/ Tight'
  <2>1. CASE Pending = {}
    <3>1. overlaps' = overlaps /\ Setting = 0 /\ Room
      BY <1>8, <1>10, <2>1 DEF BeginSet, Pending, SlackInv, Tight
    <3>2. CASE Size = MaxEntries + overlaps
      <4>1. BoundToEvict(next)
        BY <1>7, <1>9, <1>10, <3>2
      <4>2. \A d \in Pending' : BoundToEvict(calls[d])'
        BY <1>1, <1>4, <1>6, <2>1, <4>1 DEF BoundToEvict
      <4>3. QED
        BY <1>5, <1>6, <1>7, <3>1, <3>2, <4>2 DEF Tight
    <3>3. CASE Size # MaxEntries + overlaps
      BY <1>5, <1>6, <1>7, <3>1, <3>3 DEF Room
    <3>4. QED
      BY <3>2, <3>3
  <2>2. CASE Pending # {}
    <3>1. overlaps' = overlaps + 1
      BY <2>2 DEF BeginSet, Pending
    <3>2. CASE Room
      BY <1>5, <1>6, <1>7, <3>1, <3>2 DEF Room
    <3>3. CASE Tight
      <4>1. BoundToEvict(next)
        BY <1>9, <1>10, <3>3 DEF Tight
      <4>2. \A d \in Pending' : BoundToEvict(calls[d])'
        BY <1>1, <1>3, <1>4, <1>6, <3>3, <4>1 DEF BoundToEvict, Tight, Pending
      <4>3. QED
        BY <1>5, <1>6, <1>7, <3>1, <3>3, <4>2 DEF Tight
    <3>4. QED
      BY <1>10, <3>2, <3>3 DEF SlackInv
  <2>3. QED
    BY <2>1, <2>2
<1>11. QED
  BY <1>5, <1>10 DEF SlackInv

(* Counting a key moves it from the keys to come to those met.             *)
LEMMA Measure_KeepsSlack ==
    ASSUME IInv, SlackInv, NEW c \in Callers, NEW k \in Keys, Measure(c, k)
    PROVE  SlackInv'
<1> DEFINE call == calls[c]
           size == IF m[k] = Missing THEN call.size ELSE call.size + 1
           next == [call EXCEPT !.left = @ \ {k}, !.size = size]
           Coming == Kept \cap call.left
<1>1. TypeOK /\ call \in Call /\ call.size \in Nat
  BY MaxEntriesAssumption, MaxProbeAssumption DEF IInv, TypeOK, Call
<1>2. calls' = [calls EXCEPT ![c] = next] /\ UNCHANGED <<m, overlaps>>
  BY <1>1 DEF Measure, TypeOK
<1> HIDE DEF size
<1>3. /\ call.step = "measure" /\ next.step = "measure"
      /\ next.left = call.left \ {k} /\ next.size = size
      /\ next.victim = call.victim
  BY <1>1 DEF Measure, Call
<1> HIDE DEF next
<1>4. IsFiniteSet(Coming) /\ Cardinality(Coming) \in Nat
  BY KeysAssumption, FS_Subset, FS_CardinalityType DEF Kept
<1>5. Cardinality(Kept \cap next.left) = Cardinality(Coming \ {k})
  <2>1. Kept \cap next.left = Coming \ {k}
    BY <1>3
  <2>2. QED
    BY <2>1, Zenon
<1>6. k \in call.left
  BY DEF Measure
<1>7. Cardinality(Kept \cap next.left) + next.size = Cardinality(Coming) + call.size
  <2>1. CASE k \in Kept
    <3>1. k \in Coming /\ size = call.size + 1
      BY <1>6, <2>1 DEF Kept, size
    <3>2. Cardinality(Coming \ {k}) = Cardinality(Coming) - 1
      BY <1>4, <3>1, FS_RemoveElement
    <3> HIDE DEF Coming
    <3>3. QED
      BY <1>1, <1>3, <1>4, <1>5, <3>1, <3>2
  <2>2. CASE k \notin Kept
    <3>1. k \notin Coming /\ size = call.size
      BY <2>2 DEF Kept, size
    <3>2. Cardinality(Coming \ {k}) = Cardinality(Coming)
      BY <1>4, <3>1, FS_RemoveElement
    <3> HIDE DEF Coming
    <3>3. QED
      BY <1>1, <1>3, <1>4, <1>5, <3>1, <3>2
  <2>3. QED
    BY <2>1, <2>2
<1>8. BoundToEvict(call) => BoundToEvict(next)
  BY <1>3, <1>7 DEF BoundToEvict
<1>9. InSet(c) /\ next.step \in SetSteps
  BY <1>3 DEF InSet, SetSteps
<1>10. QED
  BY <1>1, <1>2, <1>8, <1>9, OneStays

(* A count that reached the cap leads to a search of a map with entries.   *)
LEMMA Measured_KeepsSlack ==
    ASSUME IInv, SlackInv, NEW c \in Callers, Measured(c)
    PROVE  SlackInv'
<1> DEFINE call == calls[c]
           sampling == [call EXCEPT !.step = "sample", !.left = Keys,
                                    !.size = 0, !.since = now]
           next == IF call.size >= MaxEntries THEN sampling ELSE Stamped(call)
<1>1. TypeOK /\ call \in Call /\ call.size \in Nat /\ MaxEntries \in Nat
  BY MaxEntriesAssumption, MaxProbeAssumption DEF IInv, TypeOK, Call
<1>2. calls' = [calls EXCEPT ![c] = next] /\ UNCHANGED <<m, overlaps>>
  BY DEF Measured
<1>3. InSet(c) /\ call.step = "measure"
  BY DEF Measured, InSet, SetSteps
<1>4. Stamped(call).step \in SetSteps
  BY DEF Stamped, At, SetSteps
<1>5. /\ sampling.step = "sample" /\ sampling.left = Keys /\ sampling.size = 0
      /\ sampling.victim = call.victim
  BY <1>1 DEF Call
<1>6. next.step \in SetSteps
  BY <1>4, <1>5 DEF SetSteps
<1> HIDE DEF sampling
<1>7. ASSUME MaxEntries > 0, Tight, BoundToEvict(call) PROVE BoundToEvict(next)
  <2>1. call.size >= MaxEntries
    <3>1. CASE call.left = {}
      <4>1. Cardinality(Kept \cap call.left) = 0
        BY <3>1, FS_EmptySet
      <4>2. QED
        BY <1>1, <1>3, <1>7, <4>1 DEF BoundToEvict
    <3>2. CASE call.size = MaxEntries
      BY <1>1, <3>2
    <3>3. QED
      BY <3>1, <3>2 DEF Measured
  <2>2. next = sampling
    BY <2>1
  <2>3. Kept # {}
    BY <1>1, <1>7, Sizes, FS_EmptySet DEF Tight, SlackInv
  <2>4. Kept \cap sampling.left # {} /\ sampling.victim = NoKey
    BY <1>3, <1>5, <1>7, <2>3 DEF Kept, BoundToEvict
  <2> HIDE DEF next
  <2>5. QED
    BY <1>5, <2>2, <2>4 DEF BoundToEvict
<1> HIDE DEF next
<1>8. QED
  BY <1>1, <1>2, <1>3, <1>6, <1>7, OneStays

(* A key met in the search becomes the victim, or one met before is kept.  *)
LEMMA Sample_KeepsSlack ==
    ASSUME IInv, SlackInv, NEW c \in Callers, NEW k \in Keys, Sample(c, k)
    PROVE  SlackInv'
<1> DEFINE call == calls[c]
           next == Seen(call, k)
<1>1. TypeOK /\ call \in Call /\ call.size \in Nat
  BY MaxEntriesAssumption, MaxProbeAssumption DEF IInv, TypeOK, Call
<1>2. calls' = [calls EXCEPT ![c] = next] /\ UNCHANGED <<m, overlaps>>
  BY DEF Sample
<1>3. InSet(c) /\ call.step = "sample" /\ k \in call.left
  BY DEF Sample, InSet, SetSteps
<1>4. ASSUME m[k] = Missing
      PROVE  /\ next.step = "sample" /\ next.left = call.left \ {k}
             /\ next.size = call.size /\ next.victim = call.victim
  BY <1>1, <1>3, <1>4 DEF Seen, Call
<1>5. ASSUME m[k] # Missing, call.since > m[k].expiresAt
      PROVE  next.step = "evict" /\ next.victim = k
  <2>1. next = [call EXCEPT !.step = "evict", !.victim = k]
    BY <1>5 DEF Seen
  <2>2. QED
    BY <1>1, <2>1 DEF Call
<1>6. ASSUME m[k] # Missing, ~(call.since > m[k].expiresAt)
      PROVE  /\ next.step = "sample" /\ next.size = call.size + 1
             /\ next.victim = FirstMet(call, k)
  <2>1. next = [call EXCEPT !.left = @ \ {k}, !.size = @ + 1, !.victim = FirstMet(call, k)]
    BY <1>6 DEF Seen
  <2>2. QED
    BY <1>1, <1>3, <2>1 DEF Call
<1> HIDE DEF next
<1>7. next.step \in SetSteps
  BY <1>4, <1>5, <1>6 DEF SetSteps
<1>8. ASSUME BoundToEvict(call) PROVE BoundToEvict(next)
  <2>1. \/ call.victim \in Kept
        \/ call.victim = NoKey /\ call.size = 0 /\ Kept \cap call.left # {}
    BY <1>3, <1>8 DEF BoundToEvict
  <2>2. CASE m[k] = Missing
    <3>1. Kept \cap next.left = Kept \cap call.left
      BY <1>4, <2>2 DEF Kept
    <3>2. QED
      BY <1>4, <2>1, <2>2, <3>1 DEF BoundToEvict
  <2>3. CASE m[k] # Missing /\ call.since > m[k].expiresAt
    BY <1>5, <2>3 DEF BoundToEvict, Kept
  <2>4. CASE m[k] # Missing /\ ~(call.since > m[k].expiresAt)
    BY <1>6, <2>1, <2>4 DEF BoundToEvict, Kept, FirstMet
  <2>5. QED
    BY <2>2, <2>3, <2>4
<1>9. QED
  BY <1>1, <1>2, <1>3, <1>7, <1>8, OneStays

(* A search that had a key to meet ends with a victim.                     *)
LEMMA Sampled_KeepsSlack ==
    ASSUME IInv, SlackInv, NEW c \in Callers, Sampled(c)
    PROVE  SlackInv'
<1> DEFINE call == calls[c]
           evicting == [call EXCEPT !.step = "evict"]
           next == IF call.victim # NoKey THEN evicting ELSE Stamped(call)
<1>1. TypeOK /\ call \in Call
  BY DEF IInv, TypeOK
<1>2. calls' = [calls EXCEPT ![c] = next] /\ UNCHANGED <<m, overlaps>>
  BY DEF Sampled
<1>3. InSet(c) /\ call.step = "sample"
  BY DEF Sampled, InSet, SetSteps
<1>4. Stamped(call).step \in SetSteps
  BY DEF Stamped, At, SetSteps
<1>5. evicting.step = "evict" /\ evicting.victim = call.victim
  BY <1>1 DEF Call
<1>6. next.step \in SetSteps
  BY <1>4, <1>5 DEF SetSteps
<1>7. ASSUME BoundToEvict(call) PROVE BoundToEvict(next)
  <2>1. call.left = {} \/ call.size # 0
    BY MaxProbeAssumption DEF Sampled
  <2>2. call.victim \in Kept
    BY <1>3, <1>7, <2>1 DEF BoundToEvict
  <2>3. next = evicting
    BY <2>2, NoKeyAssumption DEF Kept
  <2> HIDE DEF next, evicting
  <2>4. QED
    BY <1>5, <2>2, <2>3 DEF BoundToEvict
<1> HIDE DEF next
<1>8. QED
  BY <1>1, <1>2, <1>3, <1>6, <1>7, OneStays

(* An eviction takes an entry when the room is missing.                    *)
LEMMA Evict_KeepsSlack ==
    ASSUME IInv, SlackInv, NEW c \in Callers, Evict(c)
    PROVE  SlackInv'
<1> DEFINE call == calls[c]
<1>1. /\ TypeOK /\ Carries(call) /\ call.step = "evict"
      /\ Remove(call.victim) /\ UNCHANGED overlaps
  BY DEF IInv, CallsCarry, Evict
<1>2. call.victim \in Keys /\ c \in Pending
  BY <1>1 DEF Carries, Pending, InSet, SetSteps
<1>3. Stamped(call).step \in SetSteps
  BY DEF Stamped, At, SetSteps
<1>4. \A d \in Callers : calls'[d] = IF d = c THEN Stamped(call) ELSE calls[d]
  BY <1>1 DEF Evict, TypeOK
<1>5. Pending' = Pending
  BY <1>2, <1>3, <1>4 DEF Pending, InSet
<1>6. Tight => call.victim \in Kept
  BY <1>1, <1>2 DEF Tight, BoundToEvict
<1>7. QED
  BY <1>1, <1>2, <1>5, <1>6, OneIsLost

(* A store adds at most the entry that there was room for; it does not     *)
(* happen while each Set is bound to evict.                                *)
LEMMA Store_KeepsSlack ==
    ASSUME IInv, SlackInv, NEW c \in Callers, Store(c)
    PROVE  SlackInv'
<1> DEFINE call == calls[c]
<1>1. /\ TypeOK /\ Carries(call) /\ call.step = "store" /\ UNCHANGED overlaps
      /\ m' = [m EXCEPT ![call.key] = call.entry]
  BY DEF IInv, CallsCarry, Store
<1>2. call.key \in Keys /\ c \in Pending
  BY <1>1 DEF Carries, Pending, InSet, SetSteps
<1>3. Idle(call.answer).step \notin SetSteps
  BY DEF Idle, At, SetSteps
<1>4. \A d \in Callers : calls'[d] = IF d = c THEN Idle(call.answer) ELSE calls[d]
  BY <1>1 DEF Store, TypeOK
<1>5. Pending' = Pending \ {c}
  BY <1>2, <1>3, <1>4 DEF Pending, InSet
<1>6. IsFiniteSet(Pending') /\ Setting' = Setting - 1
  BY <1>2, <1>5, FS_RemoveElement DEF SlackInv, Setting
<1>7. /\ Size \in Nat /\ Setting \in Nat /\ overlaps \in Nat /\ MaxEntries \in Nat
      /\ IsFiniteSet(Kept) /\ Size = Cardinality(Kept)
  BY Sizes, MaxEntriesAssumption DEF IInv, SlackInv
<1>8. Size' = Cardinality(Kept') /\ Size' <= Size + 1 /\ Size' \in Nat
  <2>1. \A j \in Keys \ {call.key} : m'[j] = m[j]
    BY <1>1, <1>2 DEF TypeOK
  <2>2. Kept' \subseteq Kept \cup {call.key}
    BY <2>1 DEF Kept, Missing
  <2>3. /\ IsFiniteSet(Kept \cup {call.key})
        /\ Cardinality(Kept \cup {call.key}) <= Size + 1
    BY <1>7, FS_AddElement
  <2>4. /\ IsFiniteSet(Kept')
        /\ Cardinality(Kept') <= Cardinality(Kept \cup {call.key})
    BY <2>2, <2>3, FS_Subset
  <2>5. Size' = Cardinality(Kept')
    BY DEF Size, Kept
  <2>6. Cardinality(Kept') \in Nat /\ Cardinality(Kept \cup {call.key}) \in Nat
    BY <2>3, <2>4, FS_CardinalityType
  <2> HIDE DEF call
  <2>7. QED
    BY <1>7, <2>3, <2>4, <2>5, <2>6
<1>9. MaxEntries > 0 => Room
  BY <1>1, <1>2 DEF SlackInv, Tight, BoundToEvict
<1>10. QED
  BY <1>1, <1>6, <1>7, <1>8, <1>9 DEF SlackInv, Room

(* Every step keeps the balance of the cap.                                *)
LEMMA SlackStep == IInv /\ SlackInv /\ [Next]_vars => SlackInv'
<1> SUFFICES ASSUME IInv, SlackInv, [Next]_vars PROVE SlackInv'
  OBVIOUS
<1>1. ASSUME UNCHANGED <<m, calls, overlaps>> PROVE SlackInv'
  <2>1. Pending' = Pending /\ Kept' = Kept /\ Size' = Size
    BY <1>1 DEF Pending, InSet, Kept, Size, Missing
  <2>2. \A d \in Pending : BoundToEvict(calls[d]) => BoundToEvict(calls[d])'
    BY <1>1, <2>1 DEF BoundToEvict
  <2>3. QED
    BY <1>1, <2>1, <2>2 DEF SlackInv, Room, Tight, Setting
<1>2. ASSUME NEW k \in Keys, Remove(k), UNCHANGED <<calls, overlaps>> PROVE SlackInv'
  <2>1. TypeOK /\ Pending' = Pending
    BY <1>2 DEF IInv, Pending, InSet
  <2>2. QED
    BY <1>2, <2>1, OneIsLost
<1>3. CASE Tick \/ \E k \in Keys : SweepVisit(k)
  BY <1>1, <1>3 DEF Tick, SweepVisit
<1>4. CASE SweepDelete
  BY <1>2, <1>4 DEF SweepDelete, IInv, TypeOK
<1>5. CASE \E k \in Keys : Delete(k)
  BY <1>2, <1>5 DEF Delete
<1>6. CASE \E c \in Callers : GetNext(c)
  BY <1>6, GetSteps_KeepSlack
<1>7. CASE \E c \in Callers : SetNext(c)
  BY <1>7, BeginSet_KeepsSlack, Measure_KeepsSlack, Measured_KeepsSlack,
     Sample_KeepsSlack, Sampled_KeepsSlack, Evict_KeepsSlack, Store_KeepsSlack
     DEF SetNext
<1>8. CASE UNCHANGED vars
  BY <1>1, <1>8 DEF vars
<1>9. QED
  BY <1>3, <1>4, <1>5, <1>6, <1>7, <1>8 DEF Next

(* The cap holds but for the overlaps: whatever the callers do and however *)
(* their counting, sampling, evicting and storing interleave, the map has  *)
(* at most one entry above the cap for each Set that began during another. *)
THEOREM CapGivesWayToOverlaps == Spec => []CapSlack
<1>1. Init => SlackInv
  <2> SUFFICES ASSUME Init PROVE SlackInv
    OBVIOUS
  <2>1. Pending = {} /\ Size = Cardinality({})
    BY DEF Init, Pending, InSet, Idle, At, SetSteps, Size
  <2>2. IsFiniteSet(Pending) /\ Setting = 0 /\ Size = 0 /\ overlaps = 0
    BY <2>1, FS_EmptySet DEF Setting, Init
  <2>3. QED
    BY <2>2, MaxEntriesAssumption DEF SlackInv, Room
<1>2. IInv /\ SlackInv => CapSlack
  <2> SUFFICES ASSUME IInv, SlackInv PROVE CapSlack
    OBVIOUS
  <2>1. Size \in Nat /\ Setting \in Nat /\ overlaps \in Nat /\ MaxEntries \in Nat
    BY Sizes, MaxEntriesAssumption DEF IInv, SlackInv
  <2>2. QED
    BY <2>1 DEF SlackInv, Room, Tight, CapSlack
<1>3. QED
  BY <1>1, <1>2, SlackStep, Invariance, PTL DEF Spec
=============================================================================
