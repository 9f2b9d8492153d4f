--------------------------- MODULE ErasureProofs ---------------------------
(* Theorems of Erasure, for any number of workers and requests, any chunk  *)
(* and page size and any set of exports.                                   *)
EXTENDS Erasure, TLAPS

(* What an erase has to account for: after the listing, every item that is *)
(* there is still to be deleted or late; after that of the exports, every  *)
(* export is on the page or late.                                          *)
Accounted(e, there, stored) ==
    /\ e.step \in {"delete", "exports", "remove", "erased"}
          => there \subseteq e.todo \cup e.late
    /\ e.step \in {"remove", "erased"} => stored \subseteq e.page \cup e.late

EraseInv ==
    /\ TypeOK
    /\ \A w \in Workers : Accounted(erases[w], items, Stored)

Shape(e) ==
    /\ e \in Erase
    /\ e.step = "delete" <=> e.todo # {}
    /\ e.step = "remove" <=> e.page # {}

(* The part of TypeOK that is not about the erases.                        *)
Frame ==
    /\ items \subseteq Kinds
    /\ unsettled \subseteq Kinds
    /\ objects \subseteq Objects
    /\ requests \in [Requests -> Writes]
    /\ wanted \in BOOLEAN
    /\ writes \in 0..MaxWrites

LEMMA TypeParts ==
    TypeOK <=> /\ Frame
               /\ erases \in [Workers -> Erase]
               /\ \A w \in Workers : Shape(erases[w])
BY DEF TypeOK, Frame, Shape

LEMMA KindNames ==
    {"ADDR", "CONSENT", "PASSKEY", "PAY", "PREFS", "PROFILE", "SETTINGS"} = Kinds
BY DEF Kinds, Order

LEMMA ShapeOf ==
    ASSUME NEW step \in Stages, NEW todo \in SUBSET Kinds,
           NEW page \in SUBSET ExportIds, NEW late \in SUBSET (Kinds \cup Objects),
           step = "delete" <=> todo # {}, step = "remove" <=> page # {}
    PROVE  Shape(At(step, todo, page, late))
BY DEF Shape, At, Erase

LEMMA IdleShape == Shape(Idle) /\ \A i, s : Accounted(Idle, i, s)
BY ShapeOf DEF Idle, Stages, Accounted, At, Shape, Erase

(* One erase goes on, and takes away only what it accounts for.            *)
LEMMA OneErase ==
    ASSUME EraseInv, Frame', NEW w \in Workers, NEW e, Shape(e),
           erases' = [erases EXCEPT ![w] = e],
           items' \subseteq items, objects' \subseteq objects,
           Accounted(e, items', Stored')
    PROVE  EraseInv'
<1>1. erases' \in [Workers -> Erase] /\ \A x \in Workers : Shape(erases[x])
    BY TypeParts DEF EraseInv, Shape
<1>2. \A x \in Workers : erases'[x] = IF x = w THEN e ELSE erases[x]
    BY TypeParts DEF EraseInv
<1>3. Stored' \subseteq Stored
    BY DEF Stored
<1>4. ASSUME NEW x \in Workers
      PROVE  Shape(erases'[x]) /\ Accounted(erases'[x], items', Stored')
    <2>1. CASE x = w
        BY <1>2, <2>1
    <2>2. CASE x # w
        <3>1. Accounted(erases[x], items, Stored)
            BY DEF EraseInv
        <3>2. Accounted(erases[x], items', Stored')
            BY <1>3, <3>1 DEF Accounted
        <3> QED
            BY <1>1, <1>2, <2>2, <3>2
    <2> QED
        BY <2>1, <2>2
<1>5. TypeOK'
    BY <1>1, <1>4, TypeParts DEF TypeOK, Frame, Shape
<1> QED
    BY <1>4, <1>5 DEF EraseInv

(* A step that no erase takes, and that takes nothing away unseen: what    *)
(* comes is noted by every erase that has passed it.                       *)
LEMMA NoteSteps ==
    ASSUME EraseInv, Frame', NEW keys \in SUBSET (Kinds \cup Objects), Note(keys),
           items' \subseteq items \cup keys, objects' \subseteq objects \cup keys
    PROVE  EraseInv'
<1> DEFINE Added(x) == {key \in keys : erases[x].step \in Passed(key)}
<1>1. ASSUME NEW x \in Workers
      PROVE  /\ erases[x] \in Erase /\ Shape(erases[x])
             /\ Accounted(erases[x], items, Stored)
    BY TypeParts DEF EraseInv
<1>2. ASSUME NEW x \in Workers
      PROVE  /\ erases'[x] = [erases[x] EXCEPT !.late = @ \cup Added(x)]
             /\ Shape(erases'[x])
    <2>1. erases'[x] = [erases[x] EXCEPT !.late = @ \cup Added(x)]
        BY DEF Note
    <2> QED
        BY <1>1, <2>1 DEF Shape, Erase
<1>3. erases' \in [Workers -> Erase]
    <2>1. erases' = [x \in Workers |-> [erases[x] EXCEPT !.late = @ \cup Added(x)]]
        BY DEF Note
    <2>2. \A x \in Workers : [erases[x] EXCEPT !.late = @ \cup Added(x)] \in Erase
        BY <1>2 DEF Shape
    <2> HIDE DEF Added
    <2> QED
        BY <2>1, <2>2
<1>4. ASSUME NEW x \in Workers
      PROVE  Accounted(erases'[x], items', Stored')
    <2> DEFINE e == erases[x]
               f == erases'[x]
    <2>1. /\ f.step = e.step /\ f.todo = e.todo /\ f.page = e.page
          /\ f.late = e.late \cup Added(x)
        BY <1>1, <1>2 DEF Erase
    <2>2. ASSUME f.step \in {"delete", "exports", "remove", "erased"}
          PROVE  items' \subseteq f.todo \cup f.late
        <3>1. items' \subseteq items \cup (keys \cap Kinds)
            BY DEF Frame
        <3>2. keys \cap Kinds \subseteq Added(x)
            BY <2>1, <2>2, IdsAssumption DEF Passed
        <3>3. items \subseteq e.todo \cup e.late
            BY <1>1, <2>1, <2>2 DEF Accounted
        <3> HIDE DEF Added
        <3> QED
            BY <2>1, <3>1, <3>2, <3>3
    <2>3. ASSUME f.step \in {"remove", "erased"}
          PROVE  Stored' \subseteq f.page \cup f.late
        <3>1. Stored' \subseteq Stored \cup (keys \cap ExportIds)
            BY DEF Stored
        <3>2. keys \cap ExportIds \subseteq Added(x)
            BY <2>1, <2>3 DEF Passed
        <3>3. Stored \subseteq e.page \cup e.late
            BY <1>1, <2>1, <2>3 DEF Accounted
        <3> HIDE DEF Added
        <3> QED
            BY <2>1, <3>1, <3>2, <3>3
    <2> QED
        BY <2>2, <2>3 DEF Accounted
<1>5. TypeOK'
    BY <1>2, <1>3, TypeParts DEF TypeOK, Frame, Shape
<1> QED
    BY <1>4, <1>5 DEF EraseInv

(* Nothing changes for the erases, and nothing comes.                      *)
LEMMA OtherSteps ==
    ASSUME EraseInv, Frame', UNCHANGED erases,
           items' \subseteq items, objects' \subseteq objects
    PROVE  EraseInv'
<1>1. Stored' \subseteq Stored
    BY DEF Stored
<1>2. TypeOK'
    BY TypeParts DEF EraseInv, TypeOK, Frame
<1>3. ASSUME NEW x \in Workers
      PROVE  Accounted(erases'[x], items', Stored')
    <2>1. Accounted(erases[x], items, Stored)
        BY DEF EraseInv
    <2> QED
        BY <1>1, <2>1 DEF Accounted
<1> QED
    BY <1>2, <1>3 DEF EraseInv

LEMMA PutSteps ==
    ASSUME EraseInv, NEW kinds \in SUBSET Kinds, Put(kinds),
           requests' \in [Requests -> Writes]
    PROVE  EraseInv'
<1>1. Frame'
    <2>1. writes' \in 0..MaxWrites
        BY SizesAssumption DEF Put, EraseInv, TypeOK
    <2> QED
        BY <2>1 DEF Put, Become, EraseInv, TypeOK, Frame
<1>2. items' \subseteq items \cup kinds /\ objects' \subseteq objects \cup kinds
    BY DEF Put, Become
<1> QED
    BY <1>1, <1>2, NoteSteps DEF Put

LEMMA DropSteps ==
    ASSUME EraseInv, NEW k \in Kinds, Drop(k)
    PROVE  EraseInv'
<1>1. Frame'
    BY DEF Drop, Become, EraseInv, TypeOK, Frame
<1> QED
    BY <1>1, OtherSteps DEF Drop, Become

LEMMA StoreSteps ==
    ASSUME EraseInv, NEW object \in Objects, Store(object),
           requests' \in [Requests -> Writes]
    PROVE  EraseInv'
<1>1. Frame'
    BY DEF Store, EraseInv, TypeOK, Frame
<1>2. objects' \subseteq objects \cup {object} /\ items' \subseteq items \cup {object}
    BY DEF Store
<1> QED
    BY <1>1, <1>2, NoteSteps DEF Store

LEMMA Ends ==
    ASSUME EraseInv, NEW r \in Requests, End(r)
    PROVE  requests' \in [Requests -> Writes]
BY DEF EraseInv, TypeOK, End, Writes

LEMMA BeginSteps ==
    ASSUME EraseInv, NEW r \in Requests, NEW write \in Writes, Begin(r, write)
    PROVE  EraseInv'
<1>1. Frame'
    BY DEF Begin, EraseInv, TypeOK, Frame
<1> QED
    BY <1>1, OtherSteps DEF Begin

LEMMA CustomerSteps ==
    ASSUME EraseInv, NEW r \in Requests, Customer(r)
    PROVE  EraseInv'
<1>1. CASE BeginUpdateUser(r)
    BY <1>1, BeginSteps DEF BeginUpdateUser, Writes
<1>2. CASE PutProfile(r)
    BY <1>2, Ends, PutSteps, KindNames DEF PutProfile
<1>3. CASE BeginTags(r)
    BY <1>3, BeginSteps DEF BeginTags, Writes
<1>4. CASE PutDefaults(r)
    BY <1>4, Ends, PutSteps, KindNames DEF PutDefaults
<1>5. CASE BeginExport(r)
    BY <1>5, BeginSteps DEF BeginExport, Writes
<1>6. ASSUME NEW id \in ExportIds, StoreExport(r, id)
      PROVE  EraseInv'
    BY <1>6, Ends, StoreSteps DEF StoreExport, Objects
<1>7. CASE GetAvatarUploadURL(r)
    BY <1>7, BeginSteps DEF GetAvatarUploadURL, Writes
<1>8. CASE Upload(r)
    BY <1>8, StoreSteps DEF Upload, Objects, EraseInv, TypeOK
<1>9. CASE GiveUp(r)
    <2>1. Frame'
        BY <1>9, Ends DEF GiveUp, EraseInv, TypeOK, Frame
    <2> QED
        BY <1>9, <2>1, OtherSteps DEF GiveUp
<1> QED
    BY <1>1, <1>2, <1>3, <1>4, <1>5, <1>6, <1>7, <1>8, <1>9 DEF Customer

(* The chunks: what is deleted is part of what was to do, and the rest     *)
(* stays to do, whatever the size of a chunk.                              *)
LEMMA ChunkIsTodo == \A todo : Chunk(todo) \subseteq todo /\ Rest(todo) = todo \ Chunk(todo)
BY DEF Chunk, FirstOf, Rest

LEMMA ListItemsStep ==
    ASSUME EraseInv, NEW w \in Workers, ListItems(w)
    PROVE  EraseInv'
<1>1. PICK listed \in Listable :
         erases' = [erases EXCEPT ![w] =
             At(AfterListing(listed), listed, {}, items \ listed)]
    BY DEF ListItems
<1> DEFINE e == At(AfterListing(listed), listed, {}, items \ listed)
<1>2. listed \subseteq Kinds
    BY DEF Listable, EraseInv, TypeOK
<1>3. Shape(e)
    <2>1. CASE listed = {}
        BY <1>2, <2>1, ShapeOf DEF AfterListing, Stages, EraseInv, TypeOK
    <2>2. CASE listed # {}
        BY <1>2, <2>2, ShapeOf DEF AfterListing, Stages, EraseInv, TypeOK
    <2> QED
        BY <2>1, <2>2
<1>4. UNCHANGED <<items, objects>> /\ Frame'
    BY DEF ListItems, EraseInv, TypeOK, Frame
<1>5. Accounted(e, items', Stored')
    BY <1>4 DEF Accounted, At, AfterListing
<1> HIDE DEF e
<1> QED
    BY <1>1, <1>3, <1>4, <1>5, OneErase DEF e

LEMMA DeleteChunkStep ==
    ASSUME EraseInv, NEW w \in Workers, DeleteChunk(w)
    PROVE  EraseInv'
<1> DEFINE d == erases[w]
           gone == Chunk(d.todo)
           rest == Rest(d.todo)
           e == At(IF rest = {} THEN "exports" ELSE "delete", rest, {}, d.late \ gone)
<1>1. d \in Erase /\ d.step = "delete" /\ Accounted(d, items, Stored)
    BY DEF DeleteChunk, EraseInv, TypeOK
<1>2. gone \subseteq d.todo /\ rest = d.todo \ gone
    BY ChunkIsTodo
<1> HIDE DEF gone, rest
<1>3. Shape(e)
    <2>1. rest \in SUBSET Kinds /\ d.late \ gone \in SUBSET (Kinds \cup Objects)
        BY <1>1, <1>2 DEF Erase
    <2>2. CASE rest = {}
        BY <2>1, <2>2, ShapeOf DEF Stages
    <2>3. CASE rest # {}
        BY <2>1, <2>3, ShapeOf DEF Stages
    <2> QED
        BY <2>2, <2>3
<1>4. /\ items' = items \ gone /\ objects' = objects
      /\ erases' = [erases EXCEPT ![w] = e]
    BY DEF DeleteChunk, Become, gone, rest
<1>5. Frame'
    BY DEF DeleteChunk, Become, EraseInv, TypeOK, Frame
<1>6. Accounted(e, items', Stored')
    <2>1. items \subseteq d.todo \cup d.late
        BY <1>1 DEF Accounted
    <2>2. items' \subseteq rest \cup (d.late \ gone)
        BY <1>2, <1>4, <2>1
    <2>3. e.todo = rest /\ e.late = d.late \ gone /\ e.step \in {"exports", "delete"}
        BY DEF At
    <2> HIDE DEF e
    <2> QED
        BY <2>2, <2>3 DEF Accounted
<1> HIDE DEF e
<1> QED
    BY <1>3, <1>4, <1>5, <1>6, OneErase

LEMMA ListExportsStep ==
    ASSUME EraseInv, NEW w \in Workers, ListExports(w)
    PROVE  EraseInv'
<1> DEFINE d == erases[w]
<1>1. PICK page \in SUBSET Stored :
         erases' = [erases EXCEPT ![w] =
             At(AfterPage(page), {}, page, d.late \cup (Stored \ page))]
    BY DEF ListExports, EraseInv, TypeOK
<1> DEFINE e == At(AfterPage(page), {}, page, d.late \cup (Stored \ page))
<1>2. d \in Erase /\ d.step = "exports" /\ Accounted(d, items, Stored) /\ d.todo = {}
    BY DEF ListExports, EraseInv, TypeOK
<1>3. Shape(e)
    <2>1. page \in SUBSET ExportIds
          /\ d.late \cup (Stored \ page) \in SUBSET (Kinds \cup Objects)
        BY <1>2 DEF Erase, Stored, Objects
    <2>2. CASE page = {}
        BY <2>1, <2>2, ShapeOf DEF AfterPage, Stages
    <2>3. CASE page # {}
        BY <2>1, <2>3, ShapeOf DEF AfterPage, Stages
    <2> QED
        BY <2>2, <2>3
<1>4. UNCHANGED <<items, objects>> /\ Frame'
    BY DEF ListExports, EraseInv, TypeOK, Frame
<1>5. Accounted(e, items', Stored')
    <2>1. items \subseteq d.late
        BY <1>2 DEF Accounted
    <2>2. Stored' = Stored
        BY <1>4 DEF Stored
    <2> QED
        BY <1>4, <2>1, <2>2 DEF Accounted, At
<1> HIDE DEF e
<1> QED
    BY <1>1, <1>3, <1>4, <1>5, OneErase DEF e

LEMMA RemoveExportsStep ==
    ASSUME EraseInv, NEW w \in Workers, RemoveExports(w)
    PROVE  EraseInv'
<1> DEFINE d == erases[w]
<1>1. PICK refused \in SUBSET d.page :
         /\ objects' = objects \ (d.page \ refused)
         /\ erases' = [erases EXCEPT ![w] =
               At("erased", {}, {}, d.late \cup refused)]
    BY DEF RemoveExports, EraseInv, TypeOK
<1> DEFINE e == At("erased", {}, {}, d.late \cup refused)
<1>2. d \in Erase /\ d.step = "remove" /\ Accounted(d, items, Stored) /\ d.todo = {}
    BY DEF RemoveExports, EraseInv, TypeOK
<1>3. Shape(e)
    <2>1. d.late \cup refused \in SUBSET (Kinds \cup Objects)
        BY <1>2 DEF Erase, Objects
    <2> QED
        BY <2>1, ShapeOf DEF Stages
<1>4. items' = items /\ Frame'
    BY <1>1 DEF RemoveExports, EraseInv, TypeOK, Frame
<1>5. Accounted(e, items', Stored')
    <2>1. items \subseteq d.late /\ Stored \subseteq d.page \cup d.late
        BY <1>2 DEF Accounted
    <2>2. Stored' \subseteq d.late \cup refused
        BY <1>1, <2>1 DEF Stored
    <2> QED
        BY <1>4, <2>1, <2>2 DEF Accounted, At
<1> HIDE DEF e
<1> QED
    BY <1>1, <1>3, <1>4, <1>5, OneErase DEF e

(* An attempt that ends remembers nothing, whatever its last call did.     *)
LEMMA EndOfErase ==
    ASSUME EraseInv, Frame', NEW w \in Workers, erases' = [erases EXCEPT ![w] = Idle],
           items' \subseteq items, objects' \subseteq objects
    PROVE  EraseInv'
<1> DEFINE e == Idle
<1>1. Shape(e) /\ Accounted(e, items', Stored')
    BY IdleShape
<1> HIDE DEF e
<1> QED
    BY <1>1, OneErase DEF e

LEMMA EraseSteps ==
    ASSUME EraseInv, NEW w \in Workers, EraseStep(w)
    PROVE  EraseInv'
<1>1. CASE BeginErase(w)
    <2> DEFINE e == At("list", {}, {}, {})
    <2>1. Shape(e) /\ Accounted(e, items', Stored')
        BY ShapeOf DEF Stages, Accounted, At
    <2>2. Frame' /\ UNCHANGED <<items, objects>>
        BY <1>1 DEF BeginErase, EraseInv, TypeOK, Frame
    <2>3. erases' = [erases EXCEPT ![w] = e]
        BY <1>1 DEF BeginErase
    <2> HIDE DEF e
    <2> QED
        BY <2>1, <2>2, <2>3, OneErase
<1>2. CASE ListItems(w)
    BY <1>2, ListItemsStep
<1>3. CASE DeleteChunk(w)
    BY <1>3, DeleteChunkStep
<1>4. CASE ListExports(w)
    BY <1>4, ListExportsStep
<1>5. CASE RemoveExports(w)
    BY <1>5, RemoveExportsStep
<1>6. CASE Confirm(w)
    <2>1. Frame' /\ UNCHANGED <<items, objects>>
        BY <1>6 DEF Confirm, EraseInv, TypeOK, Frame
    <2> QED
        BY <1>6, <2>1, EndOfErase DEF Confirm
<1>7. CASE Fail(w)
    <2>1. Frame' /\ UNCHANGED <<items, objects>>
        BY <1>7 DEF Fail, EraseInv, TypeOK, Frame
    <2> QED
        BY <1>7, <2>1, EndOfErase DEF Fail
<1>8. CASE FailAfterDelete(w)
    <2>1. Frame' /\ items' \subseteq items /\ objects' \subseteq objects
        BY <1>8 DEF FailAfterDelete, Become, EraseInv, TypeOK, Frame
    <2> QED
        BY <1>8, <2>1, EndOfErase DEF FailAfterDelete
<1> QED
    BY <1>1, <1>2, <1>3, <1>4, <1>5, <1>6, <1>7, <1>8 DEF EraseStep

LEMMA InvInit == Init => EraseInv
<1> SUFFICES ASSUME Init PROVE EraseInv
    OBVIOUS
<1>1. Frame
    <2>1. writes \in 0..MaxWrites
        BY SizesAssumption DEF Init
    <2>2. requests \in [Requests -> Writes]
        BY DEF Init, Writes
    <2> QED
        BY <2>1, <2>2 DEF Init, Frame
<1>2. \A w \in Workers : erases[w] = Idle
    BY DEF Init
<1>3. erases \in [Workers -> Erase]
    BY IdleShape DEF Init, Shape
<1>4. TypeOK
    BY <1>1, <1>2, <1>3, IdleShape, TypeParts
<1> QED
    BY <1>2, <1>4, IdleShape DEF EraseInv

LEMMA InvStep == EraseInv /\ [Next]_vars => EraseInv'
<1> SUFFICES ASSUME EraseInv, [Next]_vars PROVE EraseInv'
    OBVIOUS
<1> USE KindNames
<1>0. requests \in [Requests -> Writes]
    BY DEF EraseInv, TypeOK
<1>1. CASE CreateUser
    BY <1>0, <1>1, PutSteps DEF CreateUser
<1>2. CASE CreateAddress
    BY <1>0, <1>2, PutSteps DEF CreateAddress
<1>3. CASE UpsertPayment
    BY <1>0, <1>3, PutSteps DEF UpsertPayment
<1>4. CASE AppendConsentLog
    BY <1>0, <1>4, PutSteps DEF AppendConsentLog
<1>5. CASE CreatePasskey
    BY <1>0, <1>5, PutSteps DEF CreatePasskey
<1>6. ASSUME NEW channels \in SUBSET {"known", "unknown"},
             NEW fields \in SUBSET {"other"}, UpdatePreferences(channels, fields)
      PROVE  EraseInv'
    BY <1>0, <1>6, PutSteps DEF UpdatePreferences
<1>7. CASE DeleteAddress \/ DeletePayment \/ DeletePasskey \/ DeletePreferences
    BY <1>7, DropSteps DEF DeleteAddress, DeletePayment, DeletePasskey, DeletePreferences
<1>8. ASSUME NEW r \in Requests, Customer(r)
      PROVE  EraseInv'
    BY <1>8, CustomerSteps
<1>9. ASSUME NEW w \in Workers, EraseStep(w)
      PROVE  EraseInv'
    BY <1>9, EraseSteps
<1>10. CASE FallDue \/ Settle \/ UNCHANGED vars
    <2>1. Frame' /\ UNCHANGED <<items, objects, erases>>
        BY <1>10 DEF FallDue, Settle, vars, EraseInv, TypeOK, Frame
    <2> QED
        BY <2>1, OtherSteps
<1> QED
    <2>1. CASE Next
        BY <2>1, <1>1, <1>2, <1>3, <1>4, <1>5, <1>6, <1>7, <1>8, <1>9, <1>10, Zenon
           DEF Next
    <2> QED
        BY <2>1, <1>10

LEMMA Invariant == Spec => []EraseInv
BY InvInit, InvStep, PTL DEF Spec

(* An erase never deletes an empty chunk or an empty page, and remembers   *)
(* only what there is to delete.                                           *)
THEOREM TypeCorrect == Spec => []TypeOK
<1>1. EraseInv => TypeOK
    BY DEF EraseInv
<1> QED
    BY <1>1, Invariant, PTL

(* DeleteProfile reports success only when all that is left escaped that   *)
(* very attempt, for chunks and pages of any size, any number of erases    *)
(* and requests at once, and any failures of earlier attempts.             *)
THEOREM LeftoversEscaped == Spec => []LeftoversAreLate
<1>1. EraseInv => LeftoversAreLate
    <2> SUFFICES ASSUME EraseInv, NEW w \in Workers, erases[w].step = "erased"
                 PROVE  items \cup Stored \subseteq erases[w].late
        BY DEF LeftoversAreLate
    <2>1. erases[w].todo = {} /\ erases[w].page = {}
        BY DEF EraseInv, TypeOK
    <2> QED
        BY <2>1 DEF EraseInv, Accounted
<1> QED
    BY <1>1, Invariant, PTL

==============================================================================
