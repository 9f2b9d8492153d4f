--------------------------- MODULE ProfileProofs ---------------------------
(***************************************************************************)
(* Theorems of Profile, for any containers, requests and spellings, any    *)
(* lifetime and any lag.                                                   *)
(*                                                                         *)
(* The argument follows the copies of the item.  Every step is described   *)
(* by what it does to the history of the item, to the copies on their way  *)
(* into a cache, to those in a cache and to the promises; the invariants   *)
(* are kept by any step so described.                                      *)
(***************************************************************************)
EXTENDS Profile, TLAPS

------------------------------------------------------------------------------
(* The invariants                                                          *)

(* In history h, version v was current at instant t or at most Lag before. *)
CurrentNear(h, v, t) ==
    /\ v \in 1..Len(h)
    /\ v < Len(h) => h[v + 1].since + Lag >= t

FillsAreRecent ==
    \A r \in Requests : calls[r].step = "fill" =>
        /\ calls[r].at <= clock
        /\ CurrentNear(versions, calls[r].version, calls[r].at)

EntriesAreRecent ==
    \A c \in Containers, k \in Keys : cache[c][k].note # "none" =>
        /\ cache[c][k].expires <= clock + Ttl
        /\ CurrentNear(versions, cache[c][k].version,
                       cache[c][k].expires - Ttl - cache[c][k].filling)

(* Nobody promises a version that has not been written yet.                *)
PromisesAreOld ==
    /\ \A c \in Containers, k \in Keys : promised[c][k] <= Latest
    /\ \A r \in Requests :
          calls[r].step \in {"purge", "forget"} => calls[r].version <= Latest

Purged == {"profile", AsStored}

SoundFillsAreKept ==
    \A r \in Requests :
        /\ calls[r].step = "fill"
        /\ calls[r].note = "sound"
        /\ calls[r].key \in Purged
        => promised[calls[r].container][calls[r].key] <= calls[r].version

SoundEntriesAreKept ==
    \A c \in Containers, k \in Purged :
        cache[c][k].note = "sound" => promised[c][k] <= cache[c][k].version

(* What is about to be put back was there when it was read, or recently.   *)
PutsAreRecent ==
    \A r \in Requests : calls[r].step = "put" =>
        /\ calls[r].at <= clock
        /\ CurrentNear(versions, calls[r].version, calls[r].at)
        /\ versions[calls[r].version].state = "there"

ProfileInv ==
    /\ TypeOK
    /\ FillsAreRecent
    /\ EntriesAreRecent
    /\ PromisesAreOld
    /\ SoundFillsAreKept
    /\ SoundEntriesAreKept
    /\ PutsAreRecent

------------------------------------------------------------------------------
(* What a step does                                                        *)

SameItem == versions' = versions /\ clock' = clock

HistoryStep ==
    \/ versions' = versions /\ clock' \in {clock, clock + 1}
    \/ /\ clock' = clock
       /\ \E item \in Version :
             item.since = clock /\ versions' = Append(versions, item)

(* A copy on its way into a cache was there before or is read now.         *)
FillStep(r) ==
    calls'[r].step = "fill" =>
        \/ /\ calls[r].step = "fill"
           /\ calls'[r].container = calls[r].container
           /\ calls'[r].key = calls[r].key
           /\ calls'[r].version = calls[r].version
           /\ calls'[r].at = calls[r].at
           /\ calls'[r].note = "sound" => calls[r].note = "sound"
        \/ /\ SameItem
           /\ promised' = promised
           /\ calls'[r].version \in Readable
           /\ calls'[r].at = clock
           /\ calls'[r].note = "sound" => calls'[r].version = Latest

(* An entry of a cache was there before or is filled in now.               *)
EntryStep(c, k) ==
    cache'[c][k].note # "none" =>
        \/ cache'[c][k] = cache[c][k]
        \/ /\ SameItem
           /\ promised' = promised
           /\ \E r \in Requests :
                 /\ calls[r].step = "fill"
                 /\ calls[r].container = c
                 /\ calls[r].key = k
                 /\ cache'[c][k] =
                      [version |-> calls[r].version, expires |-> clock + Ttl,
                       filling |-> clock - calls[r].at, note |-> calls[r].note]

(* A promise is kept, forgotten with the cache, or raised when the key is  *)
(* purged, to a version that has been written.                             *)
PromiseStep(c, k) ==
    \/ promised'[c][k] = promised[c][k]
    \/ promised'[c][k] = 1
    \/ /\ SameItem
       /\ promised'[c][k] <= Latest
       /\ k \in Purged =>
             /\ cache'[c][k].note = "none"
             /\ \A q \in Requests :
                   /\ calls'[q].step = "fill"
                   /\ calls'[q].container = c
                   /\ calls'[q].key = k
                   => calls'[q].note = "late"

AnswerStep(r) ==
    calls'[r].step \in {"purge", "forget"} => calls'[r].version <= Len(versions')

(* A copy about to be put back was there before or is read now.            *)
PutStep(r) ==
    calls'[r].step = "put" =>
        \/ /\ calls[r].step = "put"
           /\ calls'[r].version = calls[r].version
           /\ calls'[r].at = calls[r].at
        \/ /\ SameItem
           /\ calls'[r].version \in Readable
           /\ versions[calls'[r].version].state = "there"
           /\ calls'[r].at = clock

StepFacts ==
    /\ TypeOK'
    /\ HistoryStep
    /\ \A r \in Requests : FillStep(r) /\ AnswerStep(r) /\ PutStep(r)
    /\ \A c \in Containers, k \in Keys : EntryStep(c, k) /\ PromiseStep(c, k)

------------------------------------------------------------------------------
(* A step that replaces the call of one request, and nothing else.         *)
LEMMA OneCall ==
    ASSUME ProfileInv, NEW r \in Requests, NEW call \in Call,
           calls' = [calls EXCEPT ![r] = call],
           UNCHANGED <<versions, cache, promised, clock>>,
           FillStep(r), AnswerStep(r), PutStep(r)
    PROVE  StepFacts
<1>1. TypeOK'
    BY DEF ProfileInv, TypeOK
<1>2. HistoryStep
    BY DEF ProfileInv, TypeOK, HistoryStep
<1>3. ASSUME NEW q \in Requests, q # r
      PROVE  FillStep(q) /\ AnswerStep(q) /\ PutStep(q)
    <2>1. calls'[q] = calls[q]
        BY <1>3 DEF ProfileInv, TypeOK
    <2> QED
        BY <2>1 DEF ProfileInv, PromisesAreOld, FillStep, AnswerStep, PutStep,
                    Current, Latest
<1>4. \A c \in Containers, k \in Keys : EntryStep(c, k) /\ PromiseStep(c, k)
    BY DEF EntryStep, PromiseStep
<1> QED
    BY <1>1, <1>2, <1>3, <1>4 DEF StepFacts

LEMMA AnsweredIsACall ==
    ASSUME NEW call \in Call, NEW found \in BOOLEAN
    PROVE  /\ Answered(call, found) \in Call
           /\ Answered(call, found).step \in {"idle", "items"}
           /\ Done(call) \in Call
           /\ Done(call).step = "idle"
<1>1. Done(call) \in Call /\ Done(call).step = "idle"
    BY DEF Done, At, Call, Operations, Steps, Notes, Keys
<1>2. CASE call.op = "get"
    BY <1>1, <1>2 DEF Answered
<1>3. CASE call.op # "get" /\ found
    BY <1>1, <1>3 DEF Answered, At, Call, Operations, Steps, Notes, Keys
<1>4. CASE call.op # "get" /\ ~found
    BY <1>1, <1>4 DEF Answered, At, Call, Operations, Steps, Notes, Keys
<1> QED
    BY <1>2, <1>3, <1>4

LEMMA LookupsAreCalls ==
    ASSUME NEW c \in Containers, NEW call \in Lookups(c)
    PROVE  call \in Call /\ call.step = "read"
<1>1. CASE call = Erase(c)
    BY <1>1 DEF Erase, At, Call, Operations, Steps, Notes, Keys
<1>2. ASSUME NEW k \in Keys, call = Get(c, k)
      PROVE  call \in Call /\ call.step = "read"
    BY <1>2 DEF Get, At, Call, Operations, Steps, Notes, Keys
<1> QED
    BY <1>1, <1>2 DEF Lookups

LEMMA HitFacts ==
    ASSUME ProfileInv, NEW r \in Requests, NEW c \in Containers,
           NEW call \in Lookups(c), Hit(r, call)
    PROVE  StepFacts
<1>1. Answered(call, TRUE) \in Call /\ Answered(call, TRUE).step \in {"idle", "items"}
    BY LookupsAreCalls, AnsweredIsACall
<1>2. /\ calls' = [calls EXCEPT ![r] = Answered(call, TRUE)]
      /\ UNCHANGED <<versions, cache, promised, clock>>
    BY DEF Hit, CacheAfterHit
<1>3. calls'[r] = Answered(call, TRUE)
    BY <1>2 DEF ProfileInv, TypeOK
<1>4. FillStep(r) /\ AnswerStep(r) /\ PutStep(r)
    BY <1>1, <1>3 DEF FillStep, AnswerStep, PutStep
<1> QED
    BY <1>1, <1>2, <1>4, OneCall

LEMMA MissFacts ==
    ASSUME ProfileInv, NEW r \in Requests, NEW c \in Containers,
           NEW call \in Lookups(c), Miss(r, call)
    PROVE  StepFacts
<1>1. call \in Call /\ call.step = "read"
    BY LookupsAreCalls
<1>2. /\ calls' = [calls EXCEPT ![r] = call]
      /\ UNCHANGED <<versions, cache, promised, clock>>
    BY DEF Miss
<1>3. calls'[r] = call
    BY <1>2 DEF ProfileInv, TypeOK
<1>4. FillStep(r) /\ AnswerStep(r) /\ PutStep(r)
    BY <1>1, <1>3 DEF FillStep, AnswerStep, PutStep
<1> QED
    BY <1>1, <1>2, <1>4, OneCall

LEMMA ReadFacts ==
    ASSUME ProfileInv, NEW r \in Requests, Read(r)
    PROVE  StepFacts
<1>0. calls[r] \in Call /\ clock \in Nat
    BY DEF ProfileInv, TypeOK
<1>1. UNCHANGED <<versions, cache, promised, clock>>
    BY DEF Read
<1>2. CASE \E v \in Readable :
             /\ versions[v].state = "there"
             /\ calls' = [calls EXCEPT ![r] =
                   At(calls[r].op, "fill", calls[r].container, calls[r].key, v,
                      clock, Soundness(v))]
    <2>1. PICK v \in Readable :
             calls' = [calls EXCEPT ![r] =
                   At(calls[r].op, "fill", calls[r].container, calls[r].key, v,
                      clock, Soundness(v))]
        BY <1>2
    <2> DEFINE next == At(calls[r].op, "fill", calls[r].container, calls[r].key, v,
                      clock, Soundness(v))
    <2>2. v \in Nat
        BY DEF Readable, Latest, ProfileInv, TypeOK
    <2>3. Soundness(v) \in Notes /\ (Soundness(v) = "sound" => v = Latest)
        BY DEF Soundness, Notes
    <2>4. next \in Call
        BY <1>0, <2>2, <2>3 DEF At, Call, Steps
    <2>5. calls'[r] = next
        BY <2>1 DEF ProfileInv, TypeOK
    <2>6. FillStep(r) /\ AnswerStep(r) /\ PutStep(r)
        BY <1>1, <2>3, <2>5 DEF FillStep, AnswerStep, PutStep, At, SameItem
    <2> QED
        BY <1>1, <2>1, <2>4, <2>6, OneCall
<1>3. CASE \E next \in {Answered(calls[r], FALSE), Done(calls[r])} :
             calls' = [calls EXCEPT ![r] = next]
    <2>1. PICK next \in {Answered(calls[r], FALSE), Done(calls[r])} :
             calls' = [calls EXCEPT ![r] = next]
        BY <1>3
    <2>2. next \in Call /\ next.step \in {"idle", "items"}
        BY <1>0, AnsweredIsACall
    <2>3. calls'[r] = next
        BY <2>1 DEF ProfileInv, TypeOK
    <2>4. FillStep(r) /\ AnswerStep(r) /\ PutStep(r)
        BY <2>2, <2>3 DEF FillStep, AnswerStep, PutStep
    <2> QED
        BY <1>1, <2>1, <2>2, <2>4, OneCall
<1> QED
    BY <1>2, <1>3 DEF Read, End

LEMMA FailFacts ==
    ASSUME ProfileInv, NEW r \in Requests, Fail(r)
    PROVE  StepFacts
<1>1. Done(calls[r]) \in Call /\ Done(calls[r]).step = "idle"
    BY AnsweredIsACall DEF ProfileInv, TypeOK
<1>2. /\ calls' = [calls EXCEPT ![r] = Done(calls[r])]
      /\ UNCHANGED <<versions, cache, promised, clock>>
    BY DEF Fail, End
<1>3. calls'[r] = Done(calls[r])
    BY <1>2 DEF ProfileInv, TypeOK
<1>4. FillStep(r) /\ AnswerStep(r) /\ PutStep(r)
    BY <1>1, <1>3 DEF FillStep, AnswerStep, PutStep
<1> QED
    BY <1>1, <1>2, <1>4, OneCall

LEMMA BeginUpdateFacts ==
    ASSUME ProfileInv, NEW r \in Requests, NEW c \in Containers, BeginUpdate(r, c)
    PROVE  StepFacts
<1>1. PICK v \in Readable :
         /\ versions[v].state = "there"
         /\ calls' = [calls EXCEPT ![r] =
               At("update", "put", c, "profile", v, clock, "sound")]
    BY DEF BeginUpdate
<1> DEFINE next == At("update", "put", c, "profile", v, clock, "sound")
<1>2. v \in Nat
    BY DEF Readable, Latest, ProfileInv, TypeOK
<1>3. clock \in Nat
    BY DEF ProfileInv, TypeOK
<1>4. next \in Call
    BY <1>2, <1>3 DEF At, Call, Steps, Operations, Keys, Notes
<1>5. calls'[r] = next
    BY <1>1 DEF ProfileInv, TypeOK
<1>6. UNCHANGED <<versions, cache, promised, clock>>
    BY DEF BeginUpdate
<1>7. FillStep(r) /\ AnswerStep(r) /\ PutStep(r)
    BY <1>1, <1>5, <1>6 DEF FillStep, AnswerStep, PutStep, At, SameItem
<1> QED
    BY <1>1, <1>4, <1>6, <1>7, OneCall

(* A step of the clock or of a cache that leaves the item alone: fills     *)
(* under way are dropped or only become late, the rest ends.               *)
LEMMA FillFacts ==
    ASSUME ProfileInv, NEW r \in Requests, Fill(r)
    PROVE  StepFacts
<1> DEFINE d == calls[r].container
           k == calls[r].key
           entry == [version |-> calls[r].version, expires |-> clock + Ttl,
                     filling |-> clock - calls[r].at, note |-> calls[r].note]
           next == Answered(calls[r], TRUE)
<1>0. calls[r] \in Call /\ clock \in Nat
    BY DEF ProfileInv, TypeOK
<1>1. /\ calls[r].step = "fill"
      /\ cache' = [cache EXCEPT ![d][k] = entry]
      /\ calls' = [calls EXCEPT ![r] = next]
      /\ UNCHANGED <<versions, promised, clock>>
    BY DEF Fill
<1>2. next \in Call /\ next.step \in {"idle", "items"}
    BY <1>0, AnsweredIsACall
<1>3. calls[r].at <= clock
    BY <1>1 DEF ProfileInv, FillsAreRecent
<1>4. d \in Containers /\ k \in Keys /\ entry \in Entry
    BY <1>0, <1>3, TtlAssumption DEF Call, Entry
<1> HIDE DEF next
<1>5. TypeOK'
    BY <1>1, <1>2, <1>4 DEF ProfileInv, TypeOK
<1>6. HistoryStep
    BY <1>1 DEF HistoryStep, ProfileInv, TypeOK
<1>7. ASSUME NEW q \in Requests
      PROVE  FillStep(q) /\ AnswerStep(q) /\ PutStep(q)
    <2>1. CASE q = r
        BY <1>1, <1>2, <2>1 DEF ProfileInv, TypeOK, FillStep, AnswerStep, PutStep
    <2>2. CASE q # r
        <3>1. calls'[q] = calls[q]
            BY <1>1, <2>2 DEF ProfileInv, TypeOK
        <3> QED
            BY <1>1, <3>1 DEF ProfileInv, PromisesAreOld, FillStep, AnswerStep,
                              PutStep, Current, Latest
    <2> QED
        BY <2>1, <2>2
<1>8. ASSUME NEW c \in Containers, NEW l \in Keys
      PROVE  EntryStep(c, l) /\ PromiseStep(c, l)
    <2>1. PromiseStep(c, l)
        BY <1>1 DEF PromiseStep
    <2>2. CASE c = d /\ l = k
        <3>1. cache'[c][l] = entry
            BY <1>1, <1>4, <2>2 DEF ProfileInv, TypeOK
        <3> QED
            BY <1>1, <2>1, <2>2, <3>1 DEF EntryStep, SameItem
    <2>3. CASE ~(c = d /\ l = k)
        <3>1. cache'[c][l] = cache[c][l]
            BY <1>1, <1>4, <2>3 DEF ProfileInv, TypeOK
        <3> QED
            BY <2>1, <3>1 DEF EntryStep
    <2> QED
        BY <2>2, <2>3
<1> QED
    BY <1>5, <1>6, <1>7, <1>8 DEF StepFacts

LEMMA TickFacts ==
    ASSUME ProfileInv, Tick
    PROVE  StepFacts
<1>1. /\ clock' = clock + 1
      /\ UNCHANGED <<versions, calls, promised>>
      /\ cache' = [c \in Containers |-> [k \in Keys |->
            IF cache[c][k].expires < clock + 1 THEN NoEntry ELSE cache[c][k]]]
    BY DEF Tick
<1>2. NoEntry \in Entry /\ NoEntry.note = "none"
    BY DEF NoEntry, Entry
<1>3. ASSUME NEW c \in Containers, NEW k \in Keys
      PROVE  cache'[c][k] \in {NoEntry, cache[c][k]}
    BY <1>1, <1>3
<1>4. cache' \in [Containers -> [Keys -> Entry]]
    <2>1. \A c \in Containers : cache[c] \in [Keys -> Entry]
        BY DEF ProfileInv, TypeOK
    <2>2. \A c \in Containers, k \in Keys :
            (IF cache[c][k].expires < clock + 1 THEN NoEntry ELSE cache[c][k]) \in Entry
        BY <1>2, <2>1
    <2> QED
        BY <1>1, <2>2
<1>5. TypeOK'
    BY <1>1, <1>4 DEF ProfileInv, TypeOK
<1>6. HistoryStep
    BY <1>1 DEF HistoryStep
<1>7. ASSUME NEW q \in Requests
      PROVE  FillStep(q) /\ AnswerStep(q) /\ PutStep(q)
    BY <1>1 DEF ProfileInv, PromisesAreOld, FillStep, AnswerStep, PutStep,
                Current, Latest
<1>8. ASSUME NEW c \in Containers, NEW k \in Keys
      PROVE  EntryStep(c, k) /\ PromiseStep(c, k)
    BY <1>1, <1>2, <1>3 DEF EntryStep, PromiseStep
<1> QED
    BY <1>5, <1>6, <1>7, <1>8 DEF StepFacts

LEMMA RestartFacts ==
    ASSUME ProfileInv, NEW d \in Containers, Restart(d)
    PROVE  StepFacts
<1>1. /\ UNCHANGED <<versions, clock>>
      /\ cache' = [cache EXCEPT ![d] = [k \in Keys |-> NoEntry]]
      /\ promised' = [promised EXCEPT ![d] = [k \in Keys |-> 1]]
      /\ calls' = [r \in Requests |-> IF calls[r].container = d THEN Done(calls[r])
                                      ELSE calls[r]]
    BY DEF Restart
<1>2. NoEntry \in Entry /\ NoEntry.note = "none"
    BY DEF NoEntry, Entry
<1>3. ASSUME NEW q \in Requests
      PROVE  /\ calls'[q] \in Call
             /\ calls'[q] = calls[q] \/ calls'[q].step = "idle"
    <2>1. calls[q] \in Call
        BY DEF ProfileInv, TypeOK
    <2>2. Done(calls[q]) \in Call /\ Done(calls[q]).step = "idle"
        BY <2>1, AnsweredIsACall
    <2> QED
        BY <1>1, <2>1, <2>2
<1>4. TypeOK'
    <2>1. calls' \in [Requests -> Call]
        BY <1>1, <1>3
    <2>2. cache' \in [Containers -> [Keys -> Entry]]
        BY <1>1, <1>2 DEF ProfileInv, TypeOK
    <2>3. promised' \in [Containers -> [Keys -> Nat]]
        BY <1>1 DEF ProfileInv, TypeOK
    <2> QED
        BY <1>1, <2>1, <2>2, <2>3 DEF ProfileInv, TypeOK
<1>5. HistoryStep
    BY <1>1 DEF HistoryStep, ProfileInv, TypeOK
<1>6. ASSUME NEW q \in Requests
      PROVE  FillStep(q) /\ AnswerStep(q) /\ PutStep(q)
    BY <1>1, <1>3 DEF ProfileInv, PromisesAreOld, FillStep, AnswerStep, PutStep,
                      Current, Latest
<1>7. ASSUME NEW c \in Containers, NEW k \in Keys
      PROVE  EntryStep(c, k) /\ PromiseStep(c, k)
    BY <1>1, <1>2 DEF EntryStep, PromiseStep, ProfileInv, TypeOK
<1> QED
    BY <1>4, <1>5, <1>6, <1>7 DEF StepFacts

(* What appending to the history does to its length and its members.       *)
LEMMA WriteFacts ==
    ASSUME ProfileInv, NEW state \in {"there", "gone"}, NEW password \in Nat,
           Write(state, password), clock' = clock
    PROVE  /\ versions' \in Seq(Version) /\ versions' # <<>>
           /\ HistoryStep
           /\ Len(versions') = Latest + 1
           /\ Current'.state = state /\ Current'.password = password
<1> DEFINE item == [state |-> state, password |-> password, since |-> clock]
<1>1. versions' = Append(versions, item)
    BY DEF Write
<1>2. item \in Version /\ item.since = clock
    BY DEF ProfileInv, TypeOK, Version
<1>3. versions \in Seq(Version)
    BY DEF ProfileInv, TypeOK
<1> HIDE DEF item
<1>4. /\ versions' \in Seq(Version) /\ versions' # <<>>
      /\ Len(versions') = Len(versions) + 1
      /\ versions'[Len(versions) + 1] = item
    BY <1>1, <1>2, <1>3
<1>5. HistoryStep
    BY <1>1, <1>2 DEF HistoryStep
<1>6. Current' = item
    BY <1>4 DEF Current, Latest
<1> QED
    BY <1>4, <1>5, <1>6 DEF item, Latest

(* A write of the item, by request r or by none.                           *)
LEMMA WriterFacts ==
    ASSUME ProfileInv, NEW state \in {"there", "gone"}, NEW password \in Nat,
           Write(state, password), UNCHANGED <<cache, promised, clock>>,
           \/ UNCHANGED calls
           \/ \E r \in Requests, call \in Call :
                 /\ call.step \in {"idle", "purge"}
                 /\ call.version <= Latest + 1
                 /\ calls' = [calls EXCEPT ![r] = call]
    PROVE  StepFacts
<1>0. calls \in [Requests -> Call] /\ Latest \in Nat
    BY DEF ProfileInv, TypeOK, Latest
<1>1. /\ versions' \in Seq(Version) /\ versions' # <<>>
      /\ HistoryStep
      /\ Len(versions') = Latest + 1
    BY WriteFacts
<1>2. ASSUME NEW q \in Requests
      PROVE  /\ calls'[q] \in Call
             /\ FillStep(q) /\ AnswerStep(q) /\ PutStep(q)
    <2>1. CASE calls'[q] = calls[q]
        <3>1. calls[q] \in Call /\ calls[q].version \in Nat
            BY <1>0 DEF Call
        <3>2. calls[q].step \in {"purge", "forget"} => calls[q].version <= Latest
            BY DEF ProfileInv, PromisesAreOld
        <3> QED
            BY <1>0, <1>1, <2>1, <3>1, <3>2 DEF FillStep, AnswerStep, PutStep
    <2>2. CASE /\ calls'[q] \in Call
               /\ calls'[q].step \in {"idle", "purge"}
               /\ calls'[q].version <= Latest + 1
        BY <1>1, <2>2 DEF FillStep, AnswerStep, PutStep
    <2> QED
        BY <1>0, <2>1, <2>2
<1>3. calls' \in [Requests -> Call]
    <2>1. CASE UNCHANGED calls
        BY <1>0, <2>1
    <2>2. ASSUME NEW r \in Requests, NEW call \in Call,
                 calls' = [calls EXCEPT ![r] = call]
          PROVE  calls' \in [Requests -> Call]
        BY <1>0, <2>2
    <2> QED
        BY <2>1, <2>2
<1>4. TypeOK'
    BY <1>1, <1>3 DEF ProfileInv, TypeOK
<1>5. ASSUME NEW c \in Containers, NEW k \in Keys
      PROVE  EntryStep(c, k) /\ PromiseStep(c, k)
    BY DEF EntryStep, PromiseStep
<1> QED
    BY <1>1, <1>2, <1>4, <1>5 DEF StepFacts

(* The two ways in which a writing request goes on.                        *)
LEMMA WrittenIsACall ==
    ASSUME ProfileInv, NEW r \in Requests,
           NEW op \in Operations, NEW v \in Nat, v <= Latest + 1,
           NEW call \in {At(op, "purge", calls[r].container, "profile", v, 0, "sound"),
                         Done(calls[r])}
    PROVE  /\ call \in Call
           /\ call.step \in {"idle", "purge"}
           /\ call.version <= Latest + 1
<1>0. calls[r] \in Call /\ Latest \in Nat
    BY DEF ProfileInv, TypeOK, Latest
<1>1. CASE call = At(op, "purge", calls[r].container, "profile", v, 0, "sound")
    BY <1>0, <1>1 DEF At, Call, Steps, Notes, Keys
<1>2. CASE call = Done(calls[r])
    <2>1. call.version = 0
        BY <1>2 DEF Done, At
    <2>2. call \in Call /\ call.step = "idle"
        BY <1>0, <1>2, AnsweredIsACall
    <2> QED
        BY <1>0, <2>1, <2>2
<1> QED
    BY <1>1, <1>2

LEMMA PutProfileFacts ==
    ASSUME ProfileInv, NEW r \in Requests, PutProfile(r)
    PROVE  StepFacts
<1> DEFINE password == KeptPassword(calls[r].version)
<1>1. PICK call \in
         {At("update", "purge", calls[r].container, "profile", Latest + 1, 0, "sound"),
          Done(calls[r])} :
         calls' = [calls EXCEPT ![r] = call]
    BY DEF PutProfile, WriteBy
<1>2. Write("there", password) /\ UNCHANGED <<cache, promised, clock>>
    BY DEF PutProfile, WriteBy
<1>3. password \in Nat
    <2>1. calls[r].step = "put" /\ PutsAreRecent /\ TypeOK
        BY DEF PutProfile, ProfileInv
    <2>3. calls[r].version \in 1..Len(versions) /\ versions \in Seq(Version)
        BY <2>1 DEF PutsAreRecent, CurrentNear, TypeOK
    <2>2. versions[calls[r].version] \in Version
        BY <2>3
    <2> QED
        BY <2>2 DEF KeptPassword, Version
<1>4. Latest + 1 \in Nat /\ Latest + 1 <= Latest + 1
    BY DEF ProfileInv, TypeOK, Latest
<1>5. call \in Call /\ call.step \in {"idle", "purge"} /\ call.version <= Latest + 1
    BY <1>4, WrittenIsACall DEF Operations
<1> HIDE DEF password
<1> QED
    BY <1>1, <1>2, <1>3, <1>5, WriterFacts

LEMMA UpdateCredentialsFacts ==
    ASSUME ProfileInv, UpdateCredentials \/ CreateUser
    PROVE  StepFacts
<1>1. /\ Write("there", Latest + 1)
      /\ UNCHANGED <<cache, calls, promised, clock>>
    BY DEF UpdateCredentials, CreateUser
<1>2. Latest + 1 \in Nat
    BY DEF ProfileInv, TypeOK, Latest
<1> QED
    BY <1>1, <1>2, WriterFacts

LEMMA EraseItemFacts ==
    ASSUME ProfileInv, NEW r \in Requests, EraseItem(r)
    PROVE  StepFacts
<1> DEFINE Erased(v) ==
             At(calls[r].op, "purge", calls[r].container, "profile", v, 0, "sound")
<1>0. /\ calls[r] \in Call /\ calls[r].op \in Operations
      /\ Latest \in Nat /\ Latest + 1 \in Nat
    BY DEF ProfileInv, TypeOK, Latest, Call
<1>1. CASE WriteBy(r, "gone", 0, {Erased(Latest + 1), Done(calls[r])})
    <2>1. PICK call \in {Erased(Latest + 1), Done(calls[r])} :
             calls' = [calls EXCEPT ![r] = call]
        BY <1>1 DEF WriteBy
    <2>2. Write("gone", 0) /\ UNCHANGED <<cache, promised, clock>>
        BY <1>1 DEF WriteBy, EraseItem
    <2>3. call \in Call /\ call.step \in {"idle", "purge"} /\ call.version <= Latest + 1
        BY <1>0, WrittenIsACall
    <2> QED
        BY <2>1, <2>2, <2>3, WriterFacts
<1>2. CASE /\ \E v \in Readable : calls' = [calls EXCEPT ![r] = Erased(v)]
           /\ UNCHANGED versions
    <2>1. PICK v \in Readable : calls' = [calls EXCEPT ![r] = Erased(v)]
        BY <1>2
    <2>2. v \in Nat /\ v <= Latest /\ v <= Latest + 1
        BY <1>0 DEF Readable
    <2>3. Erased(v) \in Call
        BY <1>0, <2>2, WrittenIsACall
    <2>4. UNCHANGED <<versions, cache, promised, clock>>
        BY <1>2 DEF EraseItem
    <2>5. calls'[r] = Erased(v)
        BY <2>1 DEF ProfileInv, TypeOK
    <2>6. FillStep(r) /\ AnswerStep(r) /\ PutStep(r)
        BY <2>2, <2>4, <2>5 DEF FillStep, AnswerStep, PutStep, At, Latest
    <2> QED
        BY <2>1, <2>3, <2>4, <2>6, OneCall
<1> QED
    BY <1>1, <1>2 DEF EraseItem

LEMMA OutrunFacts ==
    ASSUME NEW q \in Call, NEW c, NEW k
    PROVE  LET out == Outrun(q, c, k) IN
           /\ out \in Call
           /\ out.step = q.step /\ out.container = q.container
           /\ out.key = q.key /\ out.version = q.version /\ out.at = q.at
           /\ out.note = "sound" => q.note = "sound"
           /\ out.step # "fill" => out = q
           /\ out.step = "fill" /\ out.container = c /\ out.key = k =>
                 out.note = "late"
BY DEF Outrun, At, Call, Notes

(* One key of one container is purged, by request r for version v; other   *)
(* keys may be promised too, if no purge is about them.                    *)
LEMMA PurgerFacts ==
    ASSUME ProfileInv, NEW r \in Requests, NEW c \in Containers,
           NEW key \in Purged, NEW keys \in SUBSET Keys, keys \cap Purged \subseteq {key},
           NEW v \in Nat, NEW after \in Call,
           v <= Latest,
           after.step \in {"idle", "forget"}, after.version <= Latest,
           cache' = [cache EXCEPT ![c][key] = NoEntry],
           Promise(c, keys, v),
           calls' = [q \in Requests |-> IF q = r THEN after
                                       ELSE Outrun(calls[q], c, key)],
           UNCHANGED <<versions, clock>>
    PROVE  StepFacts
<1>0. /\ calls \in [Requests -> Call] /\ Latest \in Nat
      /\ cache \in [Containers -> [Keys -> Entry]]
      /\ promised \in [Containers -> [Keys -> Nat]]
    BY DEF ProfileInv, TypeOK, Latest
<1>1. key \in Keys
    BY SpellingsAssumption DEF Purged, Keys
<1>2. NoEntry \in Entry /\ NoEntry.note = "none"
    BY DEF NoEntry, Entry
<1>3. promised' = [promised EXCEPT ![c] =
          [k \in Keys |-> IF k \in keys THEN Later(promised[c][k], v)
                         ELSE promised[c][k]]]
    BY DEF Promise
<1>4. \A d \in Containers, k \in Keys :
         promised'[d][k] = IF d = c /\ k \in keys THEN Later(promised[d][k], v)
                           ELSE promised[d][k]
    BY <1>0, <1>3
<1>5. ASSUME NEW q \in Requests
      PROVE  /\ calls'[q] \in Call
             /\ calls'[q].step = "fill" /\ calls'[q].container = c
                   /\ calls'[q].key = key => calls'[q].note = "late"
             /\ FillStep(q) /\ AnswerStep(q) /\ PutStep(q)
    <2>1. CASE q = r
        <3>1. calls'[q] = after
            BY <2>1
        <3> QED
            BY <3>1 DEF FillStep, AnswerStep, PutStep, Latest
    <2>2. CASE q # r
        <3>1. calls'[q] = Outrun(calls[q], c, key) /\ calls[q] \in Call
            BY <1>0, <2>2
        <3>2. /\ calls'[q] \in Call
              /\ calls'[q].step = calls[q].step
              /\ calls'[q].container = calls[q].container
              /\ calls'[q].key = calls[q].key
              /\ calls'[q].version = calls[q].version
              /\ calls'[q].at = calls[q].at
              /\ calls'[q].note = "sound" => calls[q].note = "sound"
              /\ calls'[q].step = "fill" /\ calls'[q].container = c
                    /\ calls'[q].key = key => calls'[q].note = "late"
            BY <3>1, OutrunFacts
        <3>3. FillStep(q) /\ PutStep(q)
            BY <3>2 DEF FillStep, PutStep, Current, Latest
        <3>4. AnswerStep(q)
            BY <3>2 DEF AnswerStep, ProfileInv, PromisesAreOld, Latest
        <3> QED
            BY <3>2, <3>3, <3>4
    <2> QED
        BY <2>1, <2>2
<1>6. TypeOK'
    <2>1. calls' \in [Requests -> Call]
        BY <1>5
    <2>2. cache' \in [Containers -> [Keys -> Entry]]
        BY <1>0, <1>1, <1>2
    <2>3. \A m, n \in Nat : Later(m, n) \in Nat
        BY DEF Later
    <2>4. [k \in Keys |-> IF k \in keys THEN Later(promised[c][k], v)
                         ELSE promised[c][k]] \in [Keys -> Nat]
        BY <1>0, <2>3
    <2>5. promised' \in [Containers -> [Keys -> Nat]]
        BY <1>0, <1>3, <2>4
    <2> QED
        BY <2>1, <2>2, <2>5 DEF ProfileInv, TypeOK
<1>7. HistoryStep
    BY DEF HistoryStep, ProfileInv, TypeOK
<1>8. ASSUME NEW d \in Containers, NEW k \in Keys
      PROVE  EntryStep(d, k) /\ PromiseStep(d, k)
    <2>1. cache'[d][k] = IF d = c /\ k = key THEN NoEntry ELSE cache[d][k]
        BY <1>0, <1>1
    <2>2. EntryStep(d, k)
        BY <1>2, <2>1 DEF EntryStep
    <2>3. CASE ~(d = c /\ k \in keys)
        BY <1>4, <2>2, <2>3 DEF PromiseStep
    <2>4. CASE d = c /\ k \in keys
        <3>1. promised'[d][k] <= Latest
            <4>1. promised[d][k] \in Nat /\ promised[d][k] <= Latest
                BY <1>0 DEF ProfileInv, PromisesAreOld
            <4> QED
                BY <1>0, <1>4, <2>4, <4>1 DEF Later
        <3>2. k \in Purged => k = key
            BY <2>4
        <3> QED
            BY <1>2, <1>5, <2>1, <2>2, <2>4, <3>1, <3>2 DEF PromiseStep, SameItem
    <2> QED
        BY <2>3, <2>4
<1> QED
    BY <1>5, <1>6, <1>7, <1>8 DEF StepFacts

LEMMA PurgeFacts ==
    ASSUME ProfileInv, NEW r \in Requests, Purge(r)
    PROVE  StepFacts
<1> DEFINE c == calls[r].container
           v == calls[r].version
           next == IF calls[r].op = "erase"
                   THEN At("erase", "forget", c, "profile", v, 0, "sound")
                   ELSE Done(calls[r])
<1>0. /\ calls[r] \in Call /\ calls[r].step = "purge"
      /\ c \in Containers /\ v \in Nat /\ Latest \in Nat /\ v <= Latest
    BY DEF Purge, ProfileInv, TypeOK, PromisesAreOld, Latest, Call
<1>1. next \in Call /\ next.step \in {"idle", "forget"} /\ next.version <= Latest
    <2>1. CASE calls[r].op = "erase"
        BY <1>0, <2>1 DEF At, Call, Operations, Steps, Notes, Keys
    <2>2. CASE calls[r].op # "erase"
        <3>1. next.version = 0
            BY <2>2 DEF Done, At
        <3>2. next \in Call /\ next.step = "idle"
            BY <1>0, <2>2, AnsweredIsACall
        <3> HIDE DEF next
        <3> QED
            BY <1>0, <3>1, <3>2
    <2> QED
        BY <2>1, <2>2
<1>2. /\ cache' = [cache EXCEPT ![c]["profile"] = NoEntry]
      /\ Promise(c, {"profile"}, v)
      /\ calls' = [q \in Requests |-> IF q = r THEN next
                                      ELSE Outrun(calls[q], c, "profile")]
      /\ UNCHANGED <<versions, clock>>
    BY DEF Purge, PurgeFor, CacheWithout
<1>3. "profile" \in Purged /\ {"profile"} \in SUBSET Keys
      /\ {"profile"} \cap Purged \subseteq {"profile"}
    BY DEF Purged, Keys
<1> HIDE DEF next
<1> QED
    BY <1>0, <1>1, <1>2, <1>3, PurgerFacts

LEMMA SoftDeleteFacts ==
    ASSUME ProfileInv, NEW r \in Requests, NEW c \in Containers, SoftDelete(r, c)
    PROVE  StepFacts
<1> DEFINE next == At("soft", "forget", c, "profile", 0, 0, "sound")
<1>1. next \in Call /\ next.step = "forget" /\ next.version <= Latest
    <2>1. next.version = 0 /\ next.step = "forget"
        BY DEF At
    <2>2. next \in Call
        BY DEF At, Call, Operations, Steps, Notes, Keys
    <2>3. Latest \in Nat
        BY DEF ProfileInv, TypeOK, Latest
    <2> HIDE DEF next
    <2> QED
        BY <2>1, <2>2, <2>3
<1>2. /\ cache' = [cache EXCEPT ![c]["profile"] = NoEntry]
      /\ Promise(c, {"profile"}, Latest)
      /\ calls' = [q \in Requests |-> IF q = r THEN next
                                      ELSE Outrun(calls[q], c, "profile")]
      /\ UNCHANGED <<versions, clock>>
    BY DEF SoftDelete, PurgeFor, CacheWithout
<1>3. "profile" \in Purged /\ {"profile"} \in SUBSET Keys
      /\ {"profile"} \cap Purged \subseteq {"profile"}
    BY DEF Purged, Keys
<1>4. Latest \in Nat /\ Latest <= Latest
    BY DEF ProfileInv, TypeOK, Latest
<1> HIDE DEF next
<1> QED
    BY <1>1, <1>2, <1>3, <1>4, PurgerFacts

LEMMA ForgetFacts ==
    ASSUME ProfileInv, NEW r \in Requests, Forget(r)
    PROVE  StepFacts
<1> DEFINE c == calls[r].container
           v == IF calls[r].op = "erase" THEN calls[r].version ELSE Latest
           keys == IF calls[r].op = "erase" THEN Spellings ELSE {AsStored}
           next == Done(calls[r])
<1>0. /\ calls[r] \in Call /\ calls[r].step = "forget"
      /\ c \in Containers /\ v \in Nat /\ Latest \in Nat /\ v <= Latest
    BY DEF Forget, ProfileInv, TypeOK, PromisesAreOld, Latest, Call
<1>1. next \in Call /\ next.step = "idle" /\ next.version <= Latest
    <2>1. next.version = 0
        BY DEF Done, At
    <2>2. next \in Call /\ next.step = "idle"
        BY <1>0, AnsweredIsACall
    <2> HIDE DEF next
    <2> QED
        BY <1>0, <2>1, <2>2
<1>2. /\ cache' = [cache EXCEPT ![c][AsStored] = NoEntry]
      /\ Promise(c, keys, v)
      /\ calls' = [q \in Requests |-> IF q = r THEN next
                                      ELSE Outrun(calls[q], c, AsStored)]
      /\ UNCHANGED <<versions, clock>>
    BY DEF Forget, CacheWithout
<1>3. AsStored \in Purged /\ keys \in SUBSET Keys /\ keys \cap Purged \subseteq {AsStored}
    BY SpellingsAssumption DEF Purged, Keys
<1> HIDE DEF next, keys, v
<1> QED
    BY <1>0, <1>1, <1>2, <1>3, PurgerFacts

LEMMA EveryStep == ProfileInv /\ [Next]_vars => StepFacts
<1> SUFFICES ASSUME ProfileInv, [Next]_vars PROVE StepFacts
    OBVIOUS
<1>1. CASE Next
    BY <1>1, HitFacts, MissFacts, ReadFacts, FailFacts, BeginUpdateFacts, FillFacts,
       TickFacts, RestartFacts, PutProfileFacts, UpdateCredentialsFacts,
       EraseItemFacts, PurgeFacts, SoftDeleteFacts, ForgetFacts DEF Next
<1>2. CASE UNCHANGED vars
    <2>1. TypeOK'
        BY <1>2 DEF vars, ProfileInv, TypeOK
    <2>2. HistoryStep
        BY <1>2 DEF vars, HistoryStep
    <2>3. \A r \in Requests : FillStep(r) /\ AnswerStep(r) /\ PutStep(r)
        BY <1>2 DEF vars, FillStep, AnswerStep, PutStep, ProfileInv,
                    PromisesAreOld, Current, Latest
    <2>4. \A c \in Containers, k \in Keys : EntryStep(c, k) /\ PromiseStep(c, k)
        BY <1>2 DEF vars, EntryStep, PromiseStep
    <2> QED
        BY <2>1, <2>2, <2>3, <2>4 DEF StepFacts
<1> QED
    BY <1>1, <1>2

------------------------------------------------------------------------------
(* Any step so described keeps the invariants                              *)

(* A version that was current near t stays so: what replaces it does so    *)
(* now, and t is past.                                                     *)
LEMMA NearStays ==
    ASSUME ProfileInv, HistoryStep, NEW v, NEW t \in Int, t <= clock,
           CurrentNear(versions, v, t)
    PROVE  CurrentNear(versions', v, t)
<1>0. /\ versions \in Seq(Version) /\ clock \in Nat /\ Lag \in Nat
      /\ \A i \in 1..Len(versions) : versions[i].since \in Nat
    <2>1. versions \in Seq(Version) /\ clock \in Nat /\ Lag \in Nat
        BY LagAssumption DEF ProfileInv, TypeOK
    <2>2. \A i \in 1..Len(versions) : versions[i] \in Version
        BY <2>1
    <2> QED
        BY <2>1, <2>2 DEF Version
<1>1. CASE versions' = versions
    BY <1>1
<1>2. ASSUME NEW item \in Version, item.since = clock,
             versions' = Append(versions, item)
      PROVE  CurrentNear(versions', v, t)
    <2>1. /\ Len(versions') = Len(versions) + 1
          /\ versions'[Len(versions) + 1] = item
          /\ \A i \in 1..Len(versions) : versions'[i] = versions[i]
        BY <1>0, <1>2
    <2>2. v \in 1..Len(versions) /\ (v < Len(versions) => versions[v + 1].since + Lag >= t)
        BY DEF CurrentNear
    <2>3. versions'[v + 1].since + Lag >= t
        <3>1. CASE v = Len(versions)
            BY <1>0, <1>2, <2>1, <3>1
        <3>2. CASE v < Len(versions)
            BY <1>0, <2>1, <2>2, <3>2
        <3> QED
            BY <1>0, <2>2, <3>1, <3>2
    <2> QED
        BY <1>0, <2>1, <2>2, <2>3 DEF CurrentNear
<1> QED
    BY <1>1, <1>2 DEF HistoryStep

LEMMA ReadIsNear ==
    ASSUME ProfileInv, NEW v \in Readable
    PROVE  v \in 1..Latest /\ CurrentNear(versions, v, clock)
BY DEF Readable, CurrentNear, ProfileInv, TypeOK, Latest

LEMMA FillsStep ==
    ASSUME ProfileInv, StepFacts
    PROVE  FillsAreRecent'
<1> SUFFICES ASSUME NEW r \in Requests, calls'[r].step = "fill"
             PROVE  /\ calls'[r].at <= clock'
                    /\ CurrentNear(versions', calls'[r].version, calls'[r].at)
    BY DEF FillsAreRecent
<1>0. clock \in Nat /\ HistoryStep /\ FillStep(r) /\ clock <= clock' /\ clock' \in Nat
    BY DEF ProfileInv, TypeOK, StepFacts, HistoryStep
<1>1. CASE /\ calls[r].step = "fill"
           /\ calls'[r].version = calls[r].version
           /\ calls'[r].at = calls[r].at
    <2>1. /\ calls[r].at <= clock /\ calls[r].at \in Int
          /\ CurrentNear(versions, calls[r].version, calls[r].at)
        BY <1>1 DEF ProfileInv, TypeOK, FillsAreRecent, Call
    <2>2. CurrentNear(versions', calls[r].version, calls[r].at)
        BY <1>0, <2>1, NearStays
    <2> QED
        BY <1>0, <1>1, <2>1, <2>2
<1>2. CASE SameItem /\ calls'[r].version \in Readable /\ calls'[r].at = clock
    BY <1>0, <1>2, ReadIsNear DEF SameItem
<1> QED
    BY <1>0, <1>1, <1>2 DEF FillStep

LEMMA EntriesStep ==
    ASSUME ProfileInv, StepFacts
    PROVE  EntriesAreRecent'
<1> SUFFICES ASSUME NEW c \in Containers, NEW k \in Keys, cache'[c][k].note # "none"
             PROVE  /\ cache'[c][k].expires <= clock' + Ttl
                    /\ CurrentNear(versions', cache'[c][k].version,
                          cache'[c][k].expires - Ttl - cache'[c][k].filling)
    BY DEF EntriesAreRecent
<1>0. /\ clock \in Nat /\ HistoryStep /\ EntryStep(c, k)
      /\ clock <= clock' /\ clock' \in Nat /\ Ttl \in Nat
    BY TtlAssumption DEF ProfileInv, TypeOK, StepFacts, HistoryStep
<1>1. CASE cache'[c][k] = cache[c][k]
    <2> DEFINE e == cache[c][k]
               t == e.expires - Ttl - e.filling
    <2>1. /\ e.expires \in Nat /\ e.filling \in Nat /\ t \in Int
        BY <1>0 DEF ProfileInv, TypeOK, Entry
    <2>2. e.expires <= clock + Ttl /\ CurrentNear(versions, e.version, t)
        BY <1>1 DEF ProfileInv, EntriesAreRecent
    <2>3. t <= clock
        BY <1>0, <2>1, <2>2
    <2> HIDE DEF t
    <2>4. CurrentNear(versions', e.version, t)
        BY <1>0, <2>1, <2>2, <2>3, NearStays
    <2> QED
        BY <1>0, <1>1, <2>1, <2>2, <2>4 DEF t
<1>2. ASSUME SameItem, NEW r \in Requests, calls[r].step = "fill",
             cache'[c][k] =
                [version |-> calls[r].version, expires |-> clock + Ttl,
                 filling |-> clock - calls[r].at, note |-> calls[r].note]
      PROVE  /\ cache'[c][k].expires <= clock' + Ttl
             /\ CurrentNear(versions', cache'[c][k].version,
                   cache'[c][k].expires - Ttl - cache'[c][k].filling)
    <2>1. /\ calls[r].at \in Nat
          /\ CurrentNear(versions, calls[r].version, calls[r].at)
        BY <1>2 DEF ProfileInv, TypeOK, FillsAreRecent, Call
    <2>2. (clock + Ttl) - Ttl - (clock - calls[r].at) = calls[r].at
        BY <1>0, <2>1
    <2> QED
        BY <1>0, <1>2, <2>1, <2>2 DEF SameItem
<1> QED
    BY <1>0, <1>1, <1>2 DEF EntryStep

LEMMA PromisesStep ==
    ASSUME ProfileInv, StepFacts
    PROVE  PromisesAreOld'
<1>0. /\ versions \in Seq(Version) /\ Latest \in Nat /\ Latest' \in Nat /\ Latest <= Latest'
      /\ promised \in [Containers -> [Keys -> Nat]] /\ calls \in [Requests -> Call]
    BY DEF ProfileInv, TypeOK, StepFacts, HistoryStep, Latest
<1>1. ASSUME NEW c \in Containers, NEW k \in Keys
      PROVE  promised'[c][k] <= Latest'
    <2>1. promised[c][k] \in Nat /\ promised[c][k] <= Latest
        BY <1>0 DEF ProfileInv, PromisesAreOld
    <2>2. PromiseStep(c, k)
        BY DEF StepFacts
    <2>3. 1 <= Latest
        BY DEF ProfileInv, TypeOK, Latest
    <2>4. CASE promised'[c][k] = promised[c][k]
        BY <1>0, <2>1, <2>4
    <2>5. CASE promised'[c][k] = 1
        BY <1>0, <2>3, <2>5
    <2>6. CASE promised'[c][k] <= Latest
        <3>1. promised'[c][k] \in Nat
            BY DEF StepFacts, TypeOK
        <3> QED
            BY <1>0, <2>6, <3>1
    <2> QED
        BY <2>2, <2>4, <2>5, <2>6 DEF PromiseStep
<1>2. ASSUME NEW r \in Requests, calls'[r].step \in {"purge", "forget"}
      PROVE  calls'[r].version <= Latest'
    BY <1>2 DEF StepFacts, AnswerStep, Latest
<1> QED
    BY <1>1, <1>2 DEF PromisesAreOld

LEMMA SoundFillsStep ==
    ASSUME ProfileInv, StepFacts
    PROVE  SoundFillsAreKept'
<1> SUFFICES ASSUME NEW r \in Requests, calls'[r].step = "fill",
                    calls'[r].note = "sound", calls'[r].key \in Purged
             PROVE  promised'[calls'[r].container][calls'[r].key] <= calls'[r].version
    BY DEF SoundFillsAreKept
<1> DEFINE c == calls'[r].container
           k == calls'[r].key
<1>0. /\ c \in Containers /\ k \in Keys
      /\ FillStep(r) /\ PromiseStep(c, k)
      /\ calls[r].version \in Nat /\ calls'[r].version \in Nat
    BY DEF ProfileInv, TypeOK, StepFacts, Call
<1>1. CASE /\ calls[r].step = "fill"
           /\ calls[r].note = "sound"
           /\ calls[r].container = c
           /\ calls[r].key = k
           /\ calls[r].version = calls'[r].version
    <2>1. promised[c][k] <= calls[r].version
        BY <1>1 DEF ProfileInv, SoundFillsAreKept
    <2>2. promised'[c][k] = promised[c][k] \/ promised'[c][k] = 1
        BY <1>0 DEF PromiseStep
    <2>3. 1 <= calls[r].version
        BY <1>1 DEF ProfileInv, FillsAreRecent, CurrentNear
    <2> QED
        BY <1>0, <1>1, <2>1, <2>2, <2>3
<1>2. CASE promised' = promised /\ calls'[r].version = Latest
    BY <1>0, <1>2 DEF ProfileInv, PromisesAreOld
<1> QED
    BY <1>0, <1>1, <1>2 DEF FillStep

LEMMA SoundEntriesStep ==
    ASSUME ProfileInv, StepFacts
    PROVE  SoundEntriesAreKept'
<1> SUFFICES ASSUME NEW c \in Containers, NEW k \in Purged, cache'[c][k].note = "sound"
             PROVE  promised'[c][k] <= cache'[c][k].version
    BY DEF SoundEntriesAreKept
<1>a. k \in Keys
    BY SpellingsAssumption DEF Purged, Keys
<1>b. cache[c][k].version \in Nat
    BY <1>a DEF ProfileInv, TypeOK, Entry
<1>c. cache'[c][k].version \in Nat
    BY <1>a DEF StepFacts, TypeOK, Entry
<1>d. EntryStep(c, k) /\ PromiseStep(c, k)
    BY <1>a DEF StepFacts
<1>0. /\ k \in Keys /\ EntryStep(c, k) /\ PromiseStep(c, k)
      /\ cache[c][k].version \in Nat /\ cache'[c][k].version \in Nat
    BY <1>a, <1>b, <1>c, <1>d
<1>1. CASE cache'[c][k] = cache[c][k]
    <2>1. promised[c][k] <= cache[c][k].version
        BY <1>1 DEF ProfileInv, SoundEntriesAreKept
    <2>2. promised'[c][k] = promised[c][k] \/ promised'[c][k] = 1
        BY <1>0 DEF PromiseStep
    <2>3. 1 <= cache[c][k].version
        BY <1>0, <1>1 DEF ProfileInv, EntriesAreRecent, CurrentNear
    <2> QED
        BY <1>0, <1>1, <2>1, <2>2, <2>3
<1>2. ASSUME promised' = promised, NEW r \in Requests,
             calls[r].step = "fill", calls[r].container = c, calls[r].key = k,
             cache'[c][k] =
                [version |-> calls[r].version, expires |-> clock + Ttl,
                 filling |-> clock - calls[r].at, note |-> calls[r].note]
      PROVE  promised'[c][k] <= cache'[c][k].version
    BY <1>2 DEF ProfileInv, SoundFillsAreKept
<1> QED
    BY <1>0, <1>1, <1>2 DEF EntryStep

LEMMA PutsStep ==
    ASSUME ProfileInv, StepFacts
    PROVE  PutsAreRecent'
<1> SUFFICES ASSUME NEW r \in Requests, calls'[r].step = "put"
             PROVE  /\ calls'[r].at <= clock'
                    /\ CurrentNear(versions', calls'[r].version, calls'[r].at)
                    /\ versions'[calls'[r].version].state = "there"
    BY DEF PutsAreRecent
<1>0. /\ clock \in Nat /\ HistoryStep /\ PutStep(r) /\ clock <= clock' /\ clock' \in Nat
      /\ versions \in Seq(Version)
    BY DEF ProfileInv, TypeOK, StepFacts, HistoryStep
<1>1. CASE /\ calls[r].step = "put"
           /\ calls'[r].version = calls[r].version
           /\ calls'[r].at = calls[r].at
    <2>1. /\ calls[r].at <= clock /\ calls[r].at \in Int
          /\ CurrentNear(versions, calls[r].version, calls[r].at)
          /\ versions[calls[r].version].state = "there"
        BY <1>1 DEF ProfileInv, TypeOK, PutsAreRecent, Call
    <2>2. CurrentNear(versions', calls[r].version, calls[r].at)
        BY <1>0, <2>1, NearStays
    <2>3. versions'[calls[r].version] = versions[calls[r].version]
        BY <1>0, <2>1 DEF HistoryStep, CurrentNear
    <2> QED
        BY <1>0, <1>1, <2>1, <2>2, <2>3
<1>2. CASE /\ SameItem
           /\ calls'[r].version \in Readable
           /\ versions[calls'[r].version].state = "there"
           /\ calls'[r].at = clock
    BY <1>0, <1>2, ReadIsNear DEF SameItem
<1> QED
    BY <1>0, <1>1, <1>2 DEF PutStep

LEMMA InvInit == Init => ProfileInv
<1> SUFFICES ASSUME Init PROVE ProfileInv
    OBVIOUS
<1>0. PICK c \in Containers :
         calls = [r \in Requests |-> At("none", "idle", c, "profile", 0, 0, "sound")]
    BY DEF Init
<1>1. At("none", "idle", c, "profile", 0, 0, "sound") \in Call
    BY DEF At, Call, Operations, Steps, Notes, Keys
<1>2. [state |-> "there", password |-> 1, since |-> 0] \in Version
    BY DEF Version
<1>3. NoEntry \in Entry /\ NoEntry.note = "none"
    BY DEF NoEntry, Entry
<1>4. versions \in Seq(Version) /\ Len(versions) = 1
    BY <1>2 DEF Init
<1>5. \A r \in Requests : calls[r].step = "idle"
    BY <1>0 DEF At
<1>6. \A d \in Containers, k \in Keys : cache[d][k] = NoEntry /\ promised[d][k] = 1
    BY DEF Init
<1>7. TypeOK
    BY <1>0, <1>1, <1>3, <1>4 DEF Init, TypeOK
<1>8. FillsAreRecent /\ EntriesAreRecent /\ PromisesAreOld
    BY <1>3, <1>4, <1>5, <1>6 DEF FillsAreRecent, EntriesAreRecent, PromisesAreOld, Latest
<1>9. SoundFillsAreKept /\ SoundEntriesAreKept
    BY <1>3, <1>5, <1>6, SpellingsAssumption
    DEF SoundFillsAreKept, SoundEntriesAreKept, Purged, Keys
<1>10. PutsAreRecent
    BY <1>5 DEF PutsAreRecent
<1> QED
    BY <1>7, <1>8, <1>9, <1>10 DEF ProfileInv

LEMMA InvStep == ProfileInv /\ [Next]_vars => ProfileInv'
<1> SUFFICES ASSUME ProfileInv, [Next]_vars PROVE ProfileInv'
    OBVIOUS
<1>1. StepFacts
    BY EveryStep
<1>2. TypeOK'
    BY <1>1 DEF StepFacts
<1> QED
    BY <1>1, <1>2, FillsStep, EntriesStep, PromisesStep, SoundFillsStep,
       SoundEntriesStep, PutsStep DEF ProfileInv

LEMMA InvAlways == Spec => []ProfileInv
BY InvInit, InvStep, PTL DEF Spec

------------------------------------------------------------------------------
(* Every reachable state is well typed: what is put back is an item, and a *)
(* fill never takes negative time.                                         *)
THEOREM TypeCorrect == Spec => []TypeOK
<1>1. ProfileInv => TypeOK
    BY DEF ProfileInv
<1> QED
    BY <1>1, InvAlways, PTL

(* What a cache serves was current not longer ago than the lifetime, the   *)
(* time of its fill and the lag together, in GetProfile and GetCredentials *)
(* alike, whether or not anything is ever purged.                          *)
THEOREM StalenessIsBounded == Spec => []StalenessBounded
<1>1. ProfileInv => StalenessBounded
    <2> SUFFICES ASSUME ProfileInv, NEW c \in Containers, NEW k \in Keys,
                        Live(cache[c][k]), cache[c][k].version < Latest
                 PROVE  versions[cache[c][k].version + 1].since + Lag
                           + cache[c][k].filling + Ttl >= clock
        BY DEF StalenessBounded
    <2> DEFINE e == cache[c][k]
    <2>1. /\ e.expires \in Nat /\ e.filling \in Nat /\ Ttl \in Nat /\ Lag \in Nat
          /\ clock \in Nat /\ versions \in Seq(Version) /\ Latest = Len(versions)
        BY TtlAssumption, LagAssumption DEF ProfileInv, TypeOK, Entry, Latest
    <2>2. clock <= e.expires /\ CurrentNear(versions, e.version, e.expires - Ttl - e.filling)
        BY DEF Live, ProfileInv, EntriesAreRecent
    <2>3. e.version \in 1..Len(versions) /\ e.version < Len(versions)
        BY <2>1, <2>2 DEF CurrentNear
    <2>4. versions[e.version + 1].since \in Nat
        <3>1. e.version + 1 \in 1..Len(versions)
            BY <2>1, <2>3
        <3>2. versions[e.version + 1] \in Version
            BY <2>1, <3>1
        <3> QED
            BY <3>2 DEF Version
    <2>5. versions[e.version + 1].since + Lag >= e.expires - Ttl - e.filling
        BY <2>2, <2>3 DEF CurrentNear
    <2>6. \A s, l, f, t, x, n \in Nat :
            n <= x /\ s + l >= (x - t) - f => s + l + f + t >= n
        OBVIOUS
    <2> HIDE DEF e
    <2> QED
        BY <2>1, <2>2, <2>4, <2>5, <2>6 DEF e
<1> QED
    BY <1>1, InvAlways, PTL

(* A container that answered an update, a soft delete or an erase serves   *)
(* nothing older under the keys it purged, but for late copies.            *)
THEOREM InvalidationsReach == Spec => []InvalidationReaches
<1>1. ProfileInv => InvalidationReaches
    BY DEF ProfileInv, SoundEntriesAreKept, InvalidationReaches, PromisesKept, Purged
<1> QED
    BY <1>1, InvAlways, PTL

(* Clients that type the address only as it is stored are served nothing   *)
(* older under any key: the spellings in which the e-mail key of the cache *)
(* is written are the whole reason an erased profile is still served.      *)
THEOREM ErasedIsForgottenInOneSpelling ==
    ASSUME Spellings = {AsStored}
    PROVE  Spec => []ErasedIsForgotten
<1>1. Keys = {"profile", AsStored}
    BY DEF Keys
<1>2. InvalidationReaches => ErasedIsForgotten
    BY <1>1 DEF InvalidationReaches, ErasedIsForgotten, PromisesKept
<1> QED
    BY <1>2, InvalidationsReach, PTL

(* However long an update waits, and whatever the other requests write in  *)
(* the meantime, it puts back a password the item had when it was read or  *)
(* at most the lag before.                                                 *)
THEOREM UpdatesUndoOnlyRecent == Spec => UpdateUndoesOnlyRecent
<1>1. ASSUME ProfileInv, NEW r \in Requests, PutProfile(r)
      PROVE  \E v \in 1..Latest :
                /\ versions[v].state = "there"
                /\ versions[v].password = Current'.password
                /\ v < Latest => versions[v + 1].since + Lag >= calls[r].at
    <2> DEFINE v == calls[r].version
    <2>1. /\ CurrentNear(versions, v, calls[r].at)
          /\ versions[v].state = "there"
        BY <1>1 DEF PutProfile, ProfileInv, PutsAreRecent
    <2>2. v \in 1..Latest /\ (v < Latest => versions[v + 1].since + Lag >= calls[r].at)
        BY <2>1 DEF CurrentNear, Latest
    <2>3. KeptPassword(v) \in Nat
        <3>1. versions \in Seq(Version)
            BY <1>1 DEF ProfileInv, TypeOK
        <3>2. versions[v] \in Version
            BY <2>2, <3>1 DEF Latest
        <3> QED
            BY <3>2 DEF KeptPassword, Version
    <2>4. Write("there", KeptPassword(v)) /\ clock' = clock
        BY <1>1 DEF PutProfile, WriteBy
    <2>5. Current'.password = KeptPassword(v)
        BY <1>1, <2>3, <2>4, WriteFacts
    <2> QED
        BY <2>1, <2>2, <2>5 DEF KeptPassword
<1>2. ProfileInv /\ [Next]_vars =>
        [\A r \in Requests : PutProfile(r) =>
            \E v \in 1..Latest :
               /\ versions[v].state = "there"
               /\ versions[v].password = Current'.password
               /\ v < Latest => versions[v + 1].since + Lag >= calls[r].at]_vars
    BY <1>1
<1> QED
    BY <1>2, InvAlways, PTL DEF Spec, UpdateUndoesOnlyRecent

==============================================================================
