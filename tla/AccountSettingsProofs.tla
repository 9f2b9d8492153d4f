------------------------ MODULE AccountSettingsProofs ------------------------
(***************************************************************************)
(* Theorems of AccountSettings, for every set of requests and tags, every  *)
(* limit and window, and (unless stated) with and without lagging reads.   *)
(***************************************************************************)
EXTENDS AccountSettings, TLAPS

LEMMA LaterPlusWindow == \A a, b \in Int, w \in Nat : a <= b => b + w >= a
  OBVIOUS

USE NoRowAssumption, BoundsAssumption

(* Both specifications take their steps from NextOpen, CreateUser and the  *)
(* steps of the erasure and of the profile update.                         *)
LEMMA NextOpenIsNext == NextOpen => Next
  BY DEF NextOpen, Next

(* A read returns items of the right types.                                *)
LEMMA ReadableType ==
  ASSUME TypeOK
  PROVE  \A read \in Readable :
            read \in [profile : Existence, settings : Row \cup {NoRow}]
  BY DEF TypeOK, Readable

LEMMA DefaultRowType == DefaultRow \in Row
  BY DEF DefaultRow, Row, Status, Time, NoTime

LEMMA IdleType == Idle \in Call
  BY DEF Idle, Call, Service, Time

------------------------------------------------------------------------------
(* Type correctness                                                        *)

LEMMA InitType == Init \/ InitOpen => TypeOK
  <1>1. [r \in Requests |-> Idle] \in [Requests -> Call]
    BY IdleType
  <1>2. 0 \in Time /\ 0 \in 0..MaxVersion
    BY DEF Time
  <1>3. Init => TypeOK
    BY <1>1, <1>2 DEF Init, TypeOK, Existence
  <1>4. InitOpen => TypeOK
    BY <1>1, <1>2, DefaultRowType DEF InitOpen, TypeOK, Existence
  <1> QED
    BY <1>3, <1>4

LEMMA WritesType == TypeOK /\ Writes => TypeOK'
  <1> SUFFICES ASSUME TypeOK, Writes PROVE TypeOK'
    OBVIOUS
  <1>1. CASE SoftDeleteCustomer
    BY <1>1 DEF SoftDeleteCustomer, TypeOK, Row, Status
  <1>2. ASSUME NEW svc \in Service, NEW v \in Shown,
               NEW st \in Status \cup {KeepStatus},
               UpdateSettings(svc, v, st)
        PROVE  TypeOK'
    <2>1. settings \in Row /\ v + 1 \in 0..MaxVersion
      BY <1>2 DEF UpdateSettings, VersionMatches, Shown, TypeOK
    <2>2. settings' \in Row
      BY <1>2, <2>1 DEF UpdateSettings, KeepStatus, TypeOK, Row, Status, Time
    <2> QED
      BY <1>2, <2>1, <2>2 DEF UpdateSettings, TypeOK
  <1> QED
    BY <1>1, <1>2 DEF Writes

(* What the first step of a tag update remembers, on either branch.        *)
LEMMA BeginTagsCall ==
  ASSUME TypeOK, NEW r \in Requests, NEW svc \in Service, NEW v \in Shown,
         NEW add \in SUBSET Tags, NEW remove \in SUBSET Tags,
         BeginTags(r, svc, v, add, remove)
  PROVE  /\ calls' \in [Requests -> Call]
         /\ calls'[r].step \in {"init tags", "mutate tags"}
         /\ calls'[r].service = svc
         /\ calls'[r].version = v
         /\ calls'[r].add = add
         /\ calls'[r].remove = remove
         /\ \A q \in Requests \ {r} : calls'[q] = calls[q]
  <1>1. v \in 0..(MaxVersion - 1)
    BY DEF BeginTags, Shown, TypeOK
  <1> DEFINE fresh == [Idle EXCEPT !.step = "init tags", !.service = svc,
                         !.version = v, !.add = add, !.remove = remove]
             found(read) ==
                 [Idle EXCEPT !.step = "mutate tags", !.service = svc,
                    !.version = v, !.add = add, !.remove = remove,
                    !.counted = (read.settings.version = v)]
  <1>2. /\ fresh \in Call
        /\ fresh.step = "init tags" /\ fresh.service = svc
        /\ fresh.version = v /\ fresh.add = add /\ fresh.remove = remove
    BY <1>1, IdleType DEF Call, Idle
  <1>3. ASSUME NEW read
        PROVE  /\ found(read) \in Call
               /\ found(read).step = "mutate tags" /\ found(read).service = svc
               /\ found(read).version = v /\ found(read).add = add
               /\ found(read).remove = remove
    BY <1>1, IdleType DEF Call, Idle
  <1>4. \E read \in Readable :
           \/ calls' = [calls EXCEPT ![r] = fresh]
           \/ calls' = [calls EXCEPT ![r] = found(read)]
    BY DEF BeginTags
  <1> HIDE DEF fresh, found
  <1> QED
    BY <1>2, <1>3, <1>4 DEF TypeOK

LEMMA BeginTagsType ==
  ASSUME TypeOK, NEW r \in Requests, NEW svc \in Service, NEW v \in Shown,
         NEW add \in SUBSET Tags, NEW remove \in SUBSET Tags,
         BeginTags(r, svc, v, add, remove)
  PROVE  TypeOK'
  <1>1. calls' \in [Requests -> Call]
    BY BeginTagsCall
  <1> QED
    BY <1>1 DEF BeginTags, TypeOK

LEMMA BeginRestoreType ==
  ASSUME TypeOK, NEW r \in Requests, BeginRestore(r)
  PROVE  TypeOK'
  <1>1. [Idle EXCEPT !.step = "commit restore", !.readAt = clock] \in Call
    BY IdleType DEF Call, TypeOK
  <1> QED
    BY <1>1 DEF BeginRestore, TypeOK

LEMMA BeginEraseType ==
  ASSUME TypeOK, NEW r \in Requests, BeginErase(r)
  PROVE  TypeOK'
  <1>1. PICK read \in Readable :
           calls' = [calls EXCEPT ![r] =
              [Idle EXCEPT !.step = "erase items", !.listed = ItemsOf(read)]]
    BY DEF BeginErase
  <1>2. ItemsOf(read) \in SUBSET {"PROFILE", "SETTINGS"}
    BY DEF ItemsOf
  <1>3. [Idle EXCEPT !.step = "erase items", !.listed = ItemsOf(read)] \in Call
    BY <1>2, IdleType DEF Call
  <1>4. calls' \in [Requests -> Call]
    BY <1>1, <1>3 DEF TypeOK
  <1> QED
    BY <1>4 DEF BeginErase, TypeOK

LEMMA BeginUpdateUserType ==
  ASSUME TypeOK, NEW r \in Requests, BeginUpdateUser(r)
  PROVE  TypeOK'
  <1>1. [Idle EXCEPT !.step = "put profile"] \in Call
    BY IdleType DEF Call
  <1> QED
    BY <1>1 DEF BeginUpdateUser, TypeOK

LEMMA CallType ==
  ASSUME TypeOK, NEW r \in Requests
  PROVE  /\ calls[r] \in Call
         /\ calls[r].step \in {"idle", "init tags", "mutate tags",
                               "commit restore", "erase items", "put profile"}
         /\ calls[r].readAt \in Int
         /\ calls[r].version \in Nat
         /\ calls[r].version + 1 \in 0..MaxVersion
         /\ calls[r].add \in SUBSET Tags
         /\ clock \in Int
  <1>1. calls[r] \in Call
    BY DEF TypeOK
  <1>2. calls[r].step \in {"idle", "init tags", "mutate tags",
                           "commit restore", "erase items", "put profile"}
    BY <1>1 DEF Call
  <1>3. calls[r].readAt \in Time /\ clock \in Time
    BY <1>1 DEF Call, TypeOK
  <1>4. calls[r].version \in 0..(MaxVersion - 1)
    BY <1>1 DEF Call
  <1>5. calls[r].add \in SUBSET Tags
    BY <1>1 DEF Call
  <1>6. calls[r].version \in Nat /\ calls[r].version + 1 \in 0..MaxVersion
    BY <1>4
  <1>7. calls[r].readAt \in Int /\ clock \in Int
    BY <1>3 DEF Time
  <1> QED
    BY <1>1, <1>2, <1>5, <1>6, <1>7

LEMMA FinishType ==
  ASSUME TypeOK, NEW r \in Requests, Finish(r)
  PROVE  TypeOK'
  <1>1. CASE InitTags(r)
    <2>1. [calls[r] EXCEPT !.step = "mutate tags"] \in Call
      BY DEF TypeOK, Call
    <2>2. calls' \in [Requests -> Call]
      BY <1>1, <2>1, IdleType DEF InitTags, Done, TypeOK
    <2> QED
      BY <1>1, <2>2, DefaultRowType DEF InitTags, TypeOK
  <1>2. CASE MutateTags(r)
    <2>1. calls' \in [Requests -> Call]
      BY <1>2, IdleType DEF MutateTags, Done, TypeOK
    <2>2. /\ calls[r].version + 1 \in 0..MaxVersion
          /\ calls[r].add \in SUBSET Tags
      BY CallType
    <2>3. CASE TagWriteAccepted(calls[r])
      <3>1. settings \in Row
        BY <2>3 DEF TagWriteAccepted, VersionMatches, TypeOK
      <3>2. settings' \in Row
        BY <1>2, <2>2, <2>3, <3>1 DEF MutateTags, Row
      <3> QED
        BY <1>2, <2>1, <2>2, <2>3, <3>2 DEF MutateTags, TypeOK
    <2>4. CASE ~TagWriteAccepted(calls[r])
      BY <1>2, <2>1, <2>4 DEF MutateTags, TypeOK
    <2> QED
      BY <2>3, <2>4
  <1>3. CASE CommitRestore(r)
    BY <1>3, IdleType
    DEF CommitRestore, StillPending, Done, TypeOK, Row, Status
  <1>4. CASE EraseItems(r)
    <2>1. PICK chunk \in Chunks(calls[r].listed) :
             /\ profile' = IF "PROFILE" \in chunk THEN "absent" ELSE profile
             /\ settings' = IF "SETTINGS" \in chunk THEN NoRow ELSE settings
             /\ \/ Done(r)
                \/ calls' = [calls EXCEPT ![r].listed = @ \ chunk]
      BY <1>4 DEF EraseItems
    <2>2. \A rest \in SUBSET calls[r].listed :
             [calls[r] EXCEPT !.listed = rest] \in Call
      BY DEF TypeOK, Call
    <2>3. calls' \in [Requests -> Call]
      BY <2>1, <2>2, IdleType DEF Done, TypeOK
    <2> QED
      BY <1>4, <2>1, <2>3 DEF EraseItems, TypeOK, Existence
  <1>5. CASE PutProfile(r)
    BY <1>5, IdleType DEF PutProfile, Done, TypeOK, Existence
  <1>6. CASE Abandon(r)
    BY <1>6, IdleType DEF Abandon, Done, TypeOK
  <1> QED
    BY <1>1, <1>2, <1>3, <1>4, <1>5, <1>6 DEF Finish

LEMMA NextType == TypeOK /\ [Next]_vars => TypeOK'
  <1> SUFFICES ASSUME TypeOK, [Next]_vars PROVE TypeOK'
    OBVIOUS
  <1>1. CASE CreateUser
    BY <1>1, DefaultRowType DEF CreateUser, TypeOK, Existence
  <1>2. CASE Writes
    BY <1>2, WritesType
  <1>3. ASSUME NEW r \in Requests, Steps(r) PROVE TypeOK'
    BY <1>3, BeginTagsType, BeginRestoreType, FinishType DEF Steps
  <1>4. ASSUME NEW r \in Requests, ProfileSteps(r) PROVE TypeOK'
    BY <1>4, BeginEraseType, BeginUpdateUserType DEF ProfileSteps
  <1>5. CASE Replicate
    BY <1>5 DEF Replicate, TypeOK
  <1>6. CASE Tick
    BY <1>6 DEF Tick, TypeOK, Time
  <1>7. CASE UNCHANGED vars
    BY <1>7 DEF vars, TypeOK
  <1> QED
    BY <1>1, <1>2, <1>3, <1>4, <1>5, <1>6, <1>7 DEF Next

(* Every state of both specifications is made of values of the right       *)
(* types: no version, time or tag outside its range is ever written.       *)
THEOREM TypeCorrect == Spec \/ OpenSpec => []TypeOK
  <1>1. Init \/ InitOpen => TypeOK
    BY InitType
  <1>2. TypeOK /\ [Next]_vars => TypeOK'
    BY NextType
  <1>3. [NextOpen]_vars => [Next]_vars
    BY NextOpenIsNext
  <1> QED
    BY <1>1, <1>2, <1>3, PTL DEF Spec, OpenSpec

------------------------------------------------------------------------------
(* The clock of a deletion, and the restore window                         *)

(* Times are written in order: no row is from the future, and a lagging    *)
(* read never shows a later change of status than the current row's.       *)
TimesOrdered ==
    /\ settings # NoRow => settings.changedAt <= clock
    /\ lagged.settings # NoRow => lagged.settings.changedAt <= clock
    /\ /\ settings # NoRow /\ lagged.settings # NoRow
       /\ settings.changedAt # NoTime /\ lagged.settings.changedAt # NoTime
       => lagged.settings.changedAt <= settings.changedAt

(* While a request is about to restore, the wait of the account, if it is  *)
(* in one, had not run out when the request read.                          *)
DeadlineRemembered ==
    \A r \in Requests :
        calls[r].step = "commit restore" =>
            /\ calls[r].readAt <= clock
            /\ StillPending => settings.changedAt + Window >= calls[r].readAt

RestoreInv ==
    /\ TypeOK
    /\ PendingHasClock
    /\ TimesOrdered
    /\ DeadlineRemembered

(* What the steps of all requests do to the row and to the clock.          *)
RowUntouched == UNCHANGED <<settings, clock>>
RowRestamped == /\ settings' \in Row
                /\ settings'.changedAt = clock
                /\ UNCHANGED clock
RowKeepsTime == /\ settings' \in Row
                /\ settings \in Row
                /\ settings'.changedAt = settings.changedAt
                /\ settings'.status = settings.status
                /\ UNCHANGED clock
RowNotPending == /\ settings' # NoRow =>
                      /\ settings' \in Row
                      /\ settings'.changedAt = NoTime
                      /\ settings'.status # "pending_deletion"
                 /\ UNCHANGED clock

RowChange == RowUntouched \/ RowRestamped \/ RowKeepsTime \/ RowNotPending

LEMMA RowChangePreserves ==
  ASSUME TypeOK, PendingHasClock, TimesOrdered, RowChange, UNCHANGED lagged
  PROVE  PendingHasClock' /\ TimesOrdered'
  <1>1. CASE RowUntouched
    BY <1>1 DEF RowUntouched, PendingHasClock, TimesOrdered, StillPending
  <1>2. CASE RowRestamped
    BY <1>2 DEF RowRestamped, PendingHasClock, TimesOrdered, StillPending,
                TypeOK, Time, NoTime
  <1>3. CASE RowKeepsTime
    BY <1>3 DEF RowKeepsTime, PendingHasClock, TimesOrdered, StillPending,
                TypeOK, Row
  <1>4. CASE RowNotPending
    BY <1>4 DEF RowNotPending, PendingHasClock, TimesOrdered, StillPending,
                TypeOK, Time, NoTime
  <1> QED
    BY <1>1, <1>2, <1>3, <1>4 DEF RowChange

(* Every step of a request other than the clock's and the replication's    *)
(* changes the row in one of those ways.                                   *)
LEMMA FinishRowChange ==
  ASSUME TypeOK, NEW r \in Requests, Finish(r)
  PROVE  RowChange /\ UNCHANGED lagged
  <1>1. CASE InitTags(r)
    BY <1>1, DefaultRowType
    DEF InitTags, DefaultRow, RowChange, RowNotPending
  <1>2. CASE MutateTags(r)
    <2>1. CASE TagWriteAccepted(calls[r])
      <3>1. settings \in Row
        BY <2>1 DEF TagWriteAccepted, VersionMatches, TypeOK
      <3>2. settings' \in Row \cup {NoRow}
        BY FinishType DEF TypeOK
      <3>3. settings' = [settings EXCEPT
                  !.tags = (@ \cup calls[r].add) \ calls[r].remove,
                  !.version = calls[r].version + 1]
        BY <1>2, <2>1 DEF MutateTags
      <3>4. /\ settings'.changedAt = settings.changedAt
            /\ settings'.status = settings.status
            /\ settings'.version = calls[r].version + 1
        BY <3>1, <3>3 DEF Row
      <3>5. settings' \in Row
        <4>1. /\ calls[r].version + 1 \in 0..MaxVersion
              /\ (settings.tags \cup calls[r].add) \ calls[r].remove
                    \in SUBSET Tags
          BY <3>1, CallType DEF Row
        <4> QED
          BY <3>1, <3>3, <4>1 DEF Row
      <3> QED
        BY <1>2, <3>1, <3>4, <3>5 DEF MutateTags, RowChange, RowKeepsTime
    <2>2. CASE ~TagWriteAccepted(calls[r])
      BY <1>2, <2>2 DEF MutateTags, RowChange, RowUntouched
    <2> QED
      BY <2>1, <2>2
  <1>3. CASE CommitRestore(r)
    BY <1>3 DEF CommitRestore, StillPending, TypeOK, Row, Status, NoTime,
                RowChange, RowUntouched, RowNotPending
  <1>4. CASE EraseItems(r)
    BY <1>4 DEF EraseItems, RowChange, RowUntouched, RowNotPending
  <1>5. CASE PutProfile(r) \/ Abandon(r)
    BY <1>5 DEF PutProfile, Abandon, RowChange, RowUntouched
  <1> QED
    BY <1>1, <1>2, <1>3, <1>4, <1>5 DEF Finish

LEMMA WritesRowChange ==
  ASSUME TypeOK, Writes
  PROVE  RowChange /\ UNCHANGED <<lagged, calls>>
  <1>1. CASE SoftDeleteCustomer
    BY <1>1 DEF SoftDeleteCustomer, TypeOK, Row, Status,
                RowChange, RowRestamped
  <1>2. ASSUME NEW svc \in Service, NEW v \in Shown,
               NEW st \in Status \cup {KeepStatus},
               UpdateSettings(svc, v, st)
        PROVE  RowChange /\ UNCHANGED <<lagged, calls>>
    <2>1. settings \in Row /\ v + 1 \in 0..MaxVersion
      BY <1>2 DEF UpdateSettings, VersionMatches, Shown, TypeOK
    <2>2. settings' \in Row
      BY <1>2, <2>1 DEF UpdateSettings, KeepStatus, TypeOK, Row, Status, Time
    <2> QED
      BY <1>2, <2>1, <2>2
      DEF UpdateSettings, Row, RowChange, RowRestamped, RowKeepsTime
  <1> QED
    BY <1>1, <1>2 DEF Writes

(* No request enters a restore, and those in one keep what they remember.  *)
NoNewRestore ==
    \A r \in Requests :
        calls'[r].step = "commit restore" =>
            /\ calls[r].step = "commit restore"
            /\ calls'[r].readAt = calls[r].readAt

LEMMA DeadlineKept ==
  ASSUME TypeOK, DeadlineRemembered, RowChange, NoNewRestore
  PROVE  DeadlineRemembered'
  <1> SUFFICES ASSUME NEW r \in Requests, calls'[r].step = "commit restore"
               PROVE  /\ calls'[r].readAt <= clock'
                      /\ StillPending' =>
                            settings'.changedAt + Window >= calls'[r].readAt
    BY DEF DeadlineRemembered
  <1>1. /\ calls'[r].readAt = calls[r].readAt
        /\ calls[r].readAt <= clock
        /\ StillPending => settings.changedAt + Window >= calls[r].readAt
    BY DEF NoNewRestore, DeadlineRemembered
  <1>2. calls[r].readAt \in Int /\ clock \in Int /\ Window \in Nat
    BY CallType
  <1>3. CASE RowUntouched
    BY <1>1, <1>3 DEF RowUntouched, StillPending
  <1>4. CASE RowRestamped
    <2>1. settings'.changedAt = clock /\ clock' = clock
      BY <1>4 DEF RowRestamped
    <2>2. calls[r].readAt <= clock
      BY <1>1
    <2>3. clock + Window >= calls[r].readAt
      BY <1>2, <2>2, LaterPlusWindow, Zenon
    <2> QED
      BY <1>1, <2>1, <2>3
  <1>5. CASE RowKeepsTime
    BY <1>1, <1>5 DEF RowKeepsTime, StillPending
  <1>6. CASE RowNotPending
    BY <1>1, <1>6 DEF RowNotPending, StillPending
  <1> QED
    BY <1>3, <1>4, <1>5, <1>6 DEF RowChange

LEMMA FinishNoNewRestore ==
  ASSUME TypeOK, NEW r \in Requests, Finish(r)
  PROVE  NoNewRestore
  <1>1. \A q \in Requests \ {r} : calls'[q] = calls[q]
    BY DEF Finish, InitTags, MutateTags, CommitRestore, EraseItems,
           PutProfile, Abandon, Done, TypeOK
  <1>2. \/ calls'[r] = Idle
        \/ calls'[r] = [calls[r] EXCEPT !.step = "mutate tags"]
        \/ /\ calls[r].step = "erase items"
           /\ \E rest : calls'[r] = [calls[r] EXCEPT !.listed = rest]
    BY DEF Finish, InitTags, MutateTags, CommitRestore, EraseItems,
           PutProfile, Abandon, Done, TypeOK
  <1>3. calls'[r].step # "commit restore"
    <2>1. calls[r] \in Call
      BY DEF TypeOK
    <2>2. Idle.step = "idle"
      BY DEF Idle
    <2>3. [calls[r] EXCEPT !.step = "mutate tags"].step = "mutate tags"
      BY <2>1 DEF Call
    <2>4. \A rest :
             [calls[r] EXCEPT !.listed = rest].step = calls[r].step
      BY <2>1 DEF Call
    <2> QED
      BY <1>2, <2>2, <2>3, <2>4
  <1> QED
    BY <1>1, <1>3 DEF NoNewRestore

(* The other first steps leave the row alone and start no restore.         *)
LEMMA BeginOther ==
  ASSUME TypeOK, NEW r \in Requests,
         \/ \E svc \in Service, v \in Shown, add, remove \in SUBSET Tags :
               BeginTags(r, svc, v, add, remove)
         \/ ProfileSteps(r)
  PROVE  RowChange /\ UNCHANGED lagged /\ NoNewRestore
  <1>1. calls'[r].step # "commit restore"
    <2>1. ASSUME NEW svc \in Service, NEW v \in Shown,
                 NEW add \in SUBSET Tags, NEW remove \in SUBSET Tags,
                 BeginTags(r, svc, v, add, remove)
          PROVE  calls'[r].step # "commit restore"
      BY <2>1, BeginTagsCall
    <2>2. ASSUME BeginErase(r)
          PROVE  calls'[r].step # "commit restore"
      <3>1. PICK read \in Readable :
               calls' = [calls EXCEPT ![r] =
                  [Idle EXCEPT !.step = "erase items",
                               !.listed = ItemsOf(read)]]
        BY <2>2 DEF BeginErase
      <3> QED
        BY <3>1 DEF Idle, TypeOK
    <2>3. ASSUME BeginUpdateUser(r)
          PROVE  calls'[r].step # "commit restore"
      BY <2>3 DEF BeginUpdateUser, Idle, TypeOK
    <2> QED
      BY <2>1, <2>2, <2>3 DEF ProfileSteps
  <1>2. \A q \in Requests \ {r} : calls'[q] = calls[q]
    BY DEF BeginTags, ProfileSteps, BeginErase, BeginUpdateUser, TypeOK
  <1> QED
    BY <1>1, <1>2 DEF BeginTags, ProfileSteps, BeginErase, BeginUpdateUser,
                      RowChange, RowUntouched, NoNewRestore

(* The read of a restore: what it saw bounds the current row's wait, even  *)
(* when the read was a lagging one.                                        *)
LEMMA BeginRestoreDeadline ==
  ASSUME RestoreInv, NEW r \in Requests, BeginRestore(r)
  PROVE  DeadlineRemembered'
  <1> USE DEF RestoreInv
  <1>1. StillPending => settings.changedAt + Window >= clock
    <2> SUFFICES ASSUME StillPending
                 PROVE  settings.changedAt + Window >= clock
      OBVIOUS
    <2>1. settings \in Row /\ settings.changedAt # NoTime
      BY DEF StillPending, PendingHasClock, TypeOK
    <2>2. PICK read \in Readable : Restorable(read.settings)
      BY DEF BeginRestore
    <2>3. read.settings \in Row
      BY <2>2, ReadableType DEF Restorable
    <2>4. settings.changedAt \in Int /\ read.settings.changedAt \in Int
      BY <2>1, <2>3 DEF Row, Time, NoTime
    <2>5. read.settings.changedAt <= settings.changedAt
      <3>1. CASE read = [profile |-> profile, settings |-> settings]
        BY <2>4, <3>1
      <3>2. CASE read = lagged
        BY <2>1, <2>2, <3>2 DEF Restorable, TimesOrdered
      <3> QED
        BY <2>2, <3>1, <3>2 DEF Readable
    <2>6. clock - read.settings.changedAt <= Window
      BY <2>2 DEF Restorable
    <2> QED
      BY <2>4, <2>5, <2>6 DEF TypeOK, Time
  <1>2. /\ calls'[r].readAt = clock
        /\ \A q \in Requests \ {r} : calls'[q] = calls[q]
    BY DEF BeginRestore, Idle, TypeOK
  <1>3. UNCHANGED <<settings, clock>>
    BY DEF BeginRestore
  <1>4. clock <= clock
    BY DEF TypeOK, Time
  <1>5. StillPending' <=> StillPending
    BY <1>3 DEF StillPending
  <1> QED
    BY <1>1, <1>2, <1>3, <1>4, <1>5 DEF DeadlineRemembered

LEMMA RestoreInvInductive == RestoreInv /\ [Next]_vars => RestoreInv'
  <1> SUFFICES ASSUME RestoreInv, [Next]_vars PROVE RestoreInv'
    OBVIOUS
  <1> USE DEF RestoreInv
  <1>0. TypeOK'
    BY NextType
  <1>a. ASSUME RowChange, UNCHANGED lagged, NoNewRestore PROVE RestoreInv'
    BY <1>a, <1>0, RowChangePreserves, DeadlineKept
  <1>1. CASE CreateUser
    BY <1>1, <1>a, DefaultRowType
    DEF CreateUser, DefaultRow, RowChange, RowNotPending, NoNewRestore
  <1>2. CASE Writes
    BY <1>2, <1>a, WritesRowChange DEF NoNewRestore
  <1>3. ASSUME NEW r \in Requests, Steps(r) PROVE RestoreInv'
    <2>1. CASE \E svc \in Service, v \in Shown, add, remove \in SUBSET Tags :
                  BeginTags(r, svc, v, add, remove)
      BY <2>1, <1>a, BeginOther
    <2>2. CASE BeginRestore(r)
      <3>1. RowUntouched /\ UNCHANGED lagged
        BY <2>2 DEF BeginRestore, RowUntouched
      <3> QED
        BY <3>1, <2>2, <1>0, BeginRestoreDeadline, RowChangePreserves
        DEF RowChange
    <2>3. CASE Finish(r)
      BY <2>3, <1>a, FinishRowChange, FinishNoNewRestore
    <2> QED
      BY <1>3, <2>1, <2>2, <2>3 DEF Steps
  <1>4. ASSUME NEW r \in Requests, ProfileSteps(r) PROVE RestoreInv'
    BY <1>4, <1>a, BeginOther
  <1>5. CASE Replicate
    <2>1. /\ UNCHANGED <<settings, calls, clock>>
          /\ lagged'.settings = settings
      BY <1>5 DEF Replicate
    <2>2. PendingHasClock' /\ DeadlineRemembered'
      BY <2>1 DEF PendingHasClock, DeadlineRemembered, StillPending
    <2>3. settings # NoRow => settings.changedAt <= settings.changedAt
      BY DEF TypeOK, Row, Time, NoTime
    <2>4. TimesOrdered'
      BY <2>1, <2>3 DEF TimesOrdered
    <2> QED
      BY <2>2, <2>4, <1>0
  <1>6. CASE Tick
    <2>1. UNCHANGED <<settings, lagged, calls>> /\ clock' = clock + 1
      BY <1>6 DEF Tick
    <2>2. PendingHasClock'
      BY <2>1 DEF PendingHasClock, StillPending
    <2>3. TimesOrdered'
      BY <2>1 DEF TimesOrdered, TypeOK, Row, Time, NoTime
    <2>4. DeadlineRemembered'
      <3>1. \A r \in Requests : calls[r].readAt \in Int
        BY CallType
      <3>2. clock \in Int
        BY DEF TypeOK, Time
      <3>3. \A r \in Requests :
               calls[r].readAt <= clock => calls[r].readAt <= clock + 1
        BY <3>1, <3>2
      <3> QED
        BY <2>1, <3>3 DEF DeadlineRemembered, StillPending
    <2> QED
      BY <2>2, <2>3, <2>4, <1>0
  <1>7. CASE UNCHANGED vars
    BY <1>7, <1>0 DEF vars, PendingHasClock, TimesOrdered,
                      DeadlineRemembered, StillPending
  <1> QED
    BY <1>1, <1>2, <1>3, <1>4, <1>5, <1>6, <1>7 DEF Next

LEMMA RestoreInvInitially == Init \/ InitOpen => RestoreInv
  <1>1. ASSUME Init PROVE RestoreInv
    <2>1. PendingHasClock
      BY <1>1 DEF Init, PendingHasClock, StillPending
    <2>2. TimesOrdered
      BY <1>1 DEF Init, TimesOrdered
    <2>3. DeadlineRemembered
      BY <1>1 DEF Init, DeadlineRemembered, Idle
    <2> QED
      BY <1>1, <2>1, <2>2, <2>3, InitType DEF RestoreInv
  <1>2. ASSUME InitOpen PROVE RestoreInv
    <2>1. PendingHasClock
      BY <1>2 DEF InitOpen, PendingHasClock, StillPending, DefaultRow
    <2>2. TimesOrdered
      BY <1>2 DEF InitOpen, TimesOrdered, DefaultRow, NoTime
    <2>3. DeadlineRemembered
      BY <1>2 DEF InitOpen, DeadlineRemembered, Idle
    <2> QED
      BY <1>2, <2>1, <2>2, <2>3, InitType DEF RestoreInv
  <1> QED
    BY <1>1, <1>2

LEMMA RestoreInvAlways == Spec \/ OpenSpec => []RestoreInv
  <1>1. [NextOpen]_vars => [Next]_vars
    BY NextOpenIsNext
  <1> QED
    BY <1>1, RestoreInvInitially, RestoreInvInductive, PTL DEF Spec, OpenSpec

(* An account waiting for its deletion always carries the time its wait    *)
(* began, however the requests that set status and time interleave.        *)
THEOREM PendingAlwaysHasClock == Spec \/ OpenSpec => []PendingHasClock
  <1>1. RestoreInv => PendingHasClock
    BY DEF RestoreInv
  <1> QED
    BY <1>1, RestoreInvAlways, PTL

(* No restore takes effect on an account whose wait had run out when the   *)
(* request looked at it: for any number of racing restores, soft deletes,  *)
(* updates, erasures and re-creations, and for lagging reads.              *)
THEOREM RestoresWithinWindow == Spec \/ OpenSpec => RestoreWithinWindow
  <1>1. RestoreInv /\ [Next]_vars =>
           [\A r \in Requests : RestoreTakesEffect(r) =>
               /\ StillPending
               /\ settings.changedAt + Window >= calls[r].readAt]_vars
    <2> SUFFICES ASSUME RestoreInv, Next, NEW r \in Requests,
                        RestoreTakesEffect(r)
                 PROVE  /\ StillPending
                        /\ settings.changedAt + Window >= calls[r].readAt
      OBVIOUS
    <2>1. /\ calls[r].step = "commit restore"
          /\ calls'[r].step = "idle"
          /\ settings' # settings
      BY DEF RestoreTakesEffect
    <2>2. /\ ~CreateUser /\ ~Writes /\ ~Replicate /\ ~Tick
      BY <2>1 DEF CreateUser, Writes, UpdateSettings, SoftDeleteCustomer,
                  Replicate, Tick
    <2>3. PICK q \in Requests : Steps(q) \/ ProfileSteps(q)
      BY <2>2 DEF Next
    <2>4. calls'[r] # calls[r]
      BY <2>1
    <2>5. q = r
      BY <2>3, <2>4 DEF RestoreInv, TypeOK, Steps, ProfileSteps, Finish,
                        BeginErase, BeginUpdateUser, BeginTags, BeginRestore,
                        InitTags, MutateTags, CommitRestore, EraseItems,
                        PutProfile, Abandon, Done
    <2>6. CommitRestore(r) /\ StillPending
      BY <2>1, <2>3, <2>5 DEF Steps, ProfileSteps, Finish, BeginErase,
                  BeginUpdateUser, BeginTags, BeginRestore, InitTags,
                  MutateTags, CommitRestore, EraseItems, PutProfile, Abandon
    <2> QED
      BY <2>1, <2>6 DEF RestoreInv, DeadlineRemembered
  <1>2. [NextOpen]_vars => [Next]_vars
    BY NextOpenIsNext
  <1> QED
    BY <1>1, <1>2, RestoreInvAlways, PTL
    DEF Spec, OpenSpec, RestoreWithinWindow

==============================================================================
