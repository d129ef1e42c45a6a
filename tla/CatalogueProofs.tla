--------------------------- MODULE CatalogueProofs ---------------------------
(***************************************************************************)
(* What uploads, re-ordering, removals and deletions of one product keep   *)
(* true of its rows and its pictures, for any finite set of pictures, any  *)
(* number of requests at once and any failures.                            *)
(***************************************************************************)
EXTENDS Catalogue, FiniteSetTheorems, WellFoundedInduction, TLAPS

(* While the create form is being filled in or sent there is no product,   *)
(* so nothing else has happened; it makes at most one.                     *)
NotYet == form \in {"filling", "creating"} =>
  /\ created = 0 /\ status = "NONE"
  /\ \A i \in Images : upload[i] = Unsent
  /\ \A r \in Requests : request[r] = Idle
AtMostOne == created <= 1

(* The pictures whose upload has read a position or has ended.  Positions  *)
(* are below their number, whoever wrote them: an upload counts itself, a  *)
(* re-ordering gives places in a list of rows.                             *)
Reached == {i \in Images : upload[i].at \in {"measured", "done", "refused", "unanswered"}}
Places(r) == IF Doing(r, "reorder") THEN Len(request[r].list) ELSE 0
Placed ==
  /\ \A i \in Images : row[i] < Cardinality(Reached)
  /\ \A i \in Images : IF i \in Reached THEN upload[i].position < Cardinality(Reached)
                                        ELSE upload[i].position = 0
  /\ \A r \in Requests : Places(r) <= Cardinality(Reached)

(* The pictures a request was asked about.  Only what was uploaded has a   *)
(* row or is asked about.                                                  *)
Asked(r) == CASE Doing(r, "reorder") -> ToSet(request[r].list)
              [] Doing(r, "remove") -> {request[r].image}
              [] Doing(r, "delete") -> request[r].left \cup request[r].taken
              [] OTHER -> {}
Uploaded == {i \in Images : upload[i].at = "done"}
OnlyUploaded == Rows \subseteq Uploaded /\ \A r \in Requests : Asked(r) \subseteq Uploaded

(* A picture is in the store from the second step of its upload on.        *)
StoredInTurn ==
  \A i \in Images : /\ upload[i].at \in {"stored", "measured"} => i \in stored
                    /\ upload[i].at \in {"unsent", "sent", "found"} => i \notin stored

(* What a removal has taken is not put back, and a deletion goes through   *)
(* every row but those inserted behind its back.                           *)
TakenIsGone == \A r \in Requests : Taken(r) \cap stored = {}
NoneIsMissed == \A r \in Requests : Doing(r, "delete") =>
                  Rows \subseteq request[r].left \cup request[r].taken \cup loose

(* Every picture picked on the form has arrived or is named when it ends.  *)
NoneDropped == form \in {"summary", "left"} =>
                 /\ created = 1
                 /\ \A i \in Staged : upload[i].at = "done" \/ i \in named
FormKnows ==
  /\ form = "uploading" => created = 1 /\ \A i \in Staged : upload[i].at # "unsent"
  /\ NoneDropped

IInv == TypeOK /\ NotYet /\ AtMostOne /\ Placed /\ OnlyUploaded /\ StoredInTurn /\ TakenIsGone
        /\ NoneIsMissed /\ FormKnows /\ HeldIsKept /\ PictureBehindRow /\ NoOrphans

-----------------------------------------------------------------------------
(* Sets of positions, lists and requests *)

(* A finite set of integers has a largest: inclusion is well-founded on    *)
(* its subsets.                                                            *)
LEMMA MaxOfFinite ==
  ASSUME NEW S, S \subseteq Int, S # {}, IsFiniteSet(S)
  PROVE  Max(S) \in S /\ \A y \in S : y <= Max(S)
<1> DEFINE Above(x) == {y \in S : y > x}
           T == {Above(x) : x \in S}
<1>1. T \in SUBSET FiniteSubsetsOf(S) /\ T # {}
  <2>1. \A x \in S : Above(x) \in SUBSET S /\ IsFiniteSet(Above(x))
    BY FS_Subset
  <2> QED BY <2>1 DEF FiniteSubsetsOf
<1>2. PICK t \in T : \A u \in T : ~(<<u, t>> \in StrictSubsetOrdering(S))
  BY <1>1, WFMin, FS_StrictSubsetOrderingWellFounded
<1>3. PICK x \in S : t = Above(x)
  OBVIOUS
<1>4. \A y \in S : y <= x
  <2> SUFFICES ASSUME NEW y \in S, y > x PROVE FALSE
    BY <1>3
  <2>1. Above(y) \in T
    OBVIOUS
  <2>2. \A z \in S : z > y => z > x
    OBVIOUS
  <2>3. y \in Above(x) /\ y \notin Above(y)
    OBVIOUS
  <2>4. Above(y) \subseteq Above(x) /\ Above(x) \subseteq S
    BY <2>2
  <2>5. <<Above(y), t>> \in StrictSubsetOrdering(S)
    <3> HIDE DEF Above
    <3> QED BY <1>3, <2>3, <2>4 DEF StrictSubsetOrdering
  <2> QED BY <1>2, <2>1, <2>5
<1> QED BY <1>4 DEF Max

(* The fields a request has, by what it does. *)
LEMMA Shapes ==
  ASSUME TypeOK, NEW r \in Requests
  PROVE  /\ Doing(r, "reorder") =>
              request[r] \in [does : {"reorder"}, list : SeqOf(Images, Cardinality(Images))]
         /\ Doing(r, "remove") => request[r] \in [does : {"remove"}, image : Images, gone : BOOLEAN]
         /\ Doing(r, "status") =>
              request[r] \in [does : {"status"}, from : {"DRAFT", "PUBLISHED", "ARCHIVED"},
                              to : {"PUBLISHED", "ARCHIVED"}]
         /\ Doing(r, "delete") =>
              request[r] \in [does : {"delete"}, left : SUBSET Images, taken : SUBSET Images]
<1>1. request[r] \in Doings
  BY DEF TypeOK
<1> DEFINE Reordering == [does : {"reorder"}, list : SeqOf(Images, Cardinality(Images))]
           Removing == [does : {"remove"}, image : Images, gone : BOOLEAN]
           Changing == [does : {"status"}, from : {"DRAFT", "PUBLISHED", "ARCHIVED"},
                        to : {"PUBLISHED", "ARCHIVED"}]
           DeletingIt == [does : {"delete"}, left : SUBSET Images, taken : SUBSET Images]
<1>2. request[r] \in {Idle} \cup Reordering \cup Removing \cup Changing \cup DeletingIt
  BY <1>1 DEF Doings
<1>3. /\ Idle.does = "nothing"
      /\ \A x \in Reordering : x.does = "reorder"
      /\ \A x \in Removing : x.does = "remove"
      /\ \A x \in Changing : x.does = "status"
      /\ \A x \in DeletingIt : x.does = "delete"
  BY DEF Idle
<1> HIDE DEF Reordering, Removing, Changing, DeletingIt
<1>4. /\ Doing(r, "reorder") => request[r] \in Reordering
      /\ Doing(r, "remove") => request[r] \in Removing
      /\ Doing(r, "status") => request[r] \in Changing
      /\ Doing(r, "delete") => request[r] \in DeletingIt
  BY <1>2, <1>3 DEF Doing
<1> QED BY <1>4 DEF Reordering, Removing, Changing, DeletingIt

LEMMA ListShape ==
  ASSUME TypeOK, NEW r \in Requests, Doing(r, "reorder")
  PROVE  LET list == request[r].list IN
         /\ Len(list) \in 0..Cardinality(Images) /\ DOMAIN list = 1..Len(list)
         /\ ToSet(list) \subseteq Images
         /\ \A i \in ToSet(list) : \E n \in DOMAIN list : list[n] = i
<1>1. request[r].list \in SeqOf(Images, Cardinality(Images))
  BY Shapes
<1>2. PICK m \in 0..Cardinality(Images) : request[r].list \in [1..m -> Images]
  BY <1>1 DEF SeqOf
<1>3. Cardinality(Images) \in Nat
  BY ImagesAreFinite, FS_CardinalityType
<1> QED BY <1>2, <1>3 DEF ToSet

LEMMA ReachedSize ==
  ASSUME TypeOK
  PROVE  /\ IsFiniteSet(Reached) /\ Cardinality(Images) \in Nat
         /\ Cardinality(Reached) \in 0..Cardinality(Images)
<1>1. Reached \in SUBSET Images
  BY DEF Reached
<1> QED BY <1>1, ImagesAreFinite, FS_Subset, FS_CardinalityType

(* What an upload reads as the next position is one that is left. *)
LEMMA NextPositionIs ==
  ASSUME TypeOK, Placed
  PROVE  NextPosition \in 0..Cardinality(Reached)
<1> DEFINE S == {row[i] : i \in Images}
<1>1. IsFiniteSet(S)
  <2>1. row \in Surjection(Images, S)
    BY DEF TypeOK, Surjection
  <2> QED BY <2>1, ImagesAreFinite, FS_Surjection
<1>2. IsFiniteSet(S \cup {NoRow})
  BY <1>1, FS_AddElement
<1>3. S \cup {NoRow} \subseteq Int
  BY ReachedSize DEF TypeOK, NoRow
<1>4. /\ Max(S \cup {NoRow}) \in S \cup {NoRow}
      /\ NoRow <= Max(S \cup {NoRow})
  BY <1>2, <1>3, MaxOfFinite
<1>5. \A v \in S \cup {NoRow} : v < Cardinality(Reached)
  BY ReachedSize DEF Placed, NoRow
<1>6. NextPosition = Max(S \cup {NoRow}) + 1
  BY DEF NextPosition
<1> QED BY <1>3, <1>4, <1>5, <1>6, ReachedSize DEF NoRow

LEMMA ListOfRows ==
  ASSUME TypeOK, OnlyUploaded, NEW list \in SetToSeqs(Rows)
  PROVE  /\ list \in SeqOf(Images, Cardinality(Images))
         /\ Len(list) \in 0..Cardinality(Reached)
         /\ ToSet(list) \subseteq Rows
<1>1. Rows \subseteq Reached /\ Reached \subseteq Images
  BY DEF OnlyUploaded, Uploaded, Reached
<1>2. Cardinality(Rows) \in 0..Cardinality(Reached)
  BY <1>1, ReachedSize, FS_Subset, FS_CardinalityType
<1>3. list \in [1..Cardinality(Rows) -> Rows]
  BY DEF SetToSeqs
<1>4. Len(list) = Cardinality(Rows) /\ ToSet(list) \subseteq Rows
  BY <1>2, <1>3 DEF ToSet
<1>5. list \in [1..Cardinality(Rows) -> Images] /\ Cardinality(Rows) \in 0..Cardinality(Images)
  BY <1>1, <1>2, <1>3, ReachedSize
<1> QED BY <1>2, <1>4, <1>5 DEF SeqOf

-----------------------------------------------------------------------------
(* Type correctness *)
LEMMA TypeOfForm ==
  ASSUME TypeOK, NotYet, Form
  PROVE  TypeOK'
<1> USE DEF TypeOK
<1>1. CASE Submit
  BY <1>1 DEF Submit, productVars, imageVars, requestVars
<1>2. CASE Create
  <2>1. upload' \in [Images -> [at : {"unsent", "sent", "found", "stored", "measured", "done", "refused", "unanswered"},
                                position : 0..Cardinality(Images)]]
    BY <1>2, ReachedSize DEF Create, Send, Unsent
  <2>2. created' = 1
    BY <1>2 DEF Create, NotYet
  <2> QED BY <1>2, <2>1, <2>2 DEF Create, requestVars
<1>3. CASE CreateFails
  <2>1. created' \in 0..2
    BY <1>3 DEF CreateFails, NotYet
  <2> QED BY <1>3, <2>1, BoundsAreNumbers DEF CreateFails, Failing, imageVars, requestVars
<1>4. CASE Settle
  BY <1>4 DEF Settle, PageAfter, FailedUploads, productVars, imageVars, requestVars
<1>5. CASE Continue
  BY <1>5 DEF Continue, productVars, imageVars, requestVars
<1> QED BY <1>1, <1>2, <1>3, <1>4, <1>5 DEF Form

LEMMA TypeOfUpload ==
  ASSUME TypeOK, Placed, NEW i \in Images,
         \/ SendFromPage(i) \/ Uploading(i) \/ \E how \in {"refused", "unanswered"} : UploadFails(i, how)
  PROVE  TypeOK'
<1> USE DEF TypeOK, formVars, productVars, requestVars
<1>1. CASE SendFromPage(i)
  BY <1>1, ReachedSize DEF SendFromPage, Send, Unsent
<1>2. CASE FindProduct(i)
  BY <1>2 DEF FindProduct, To
<1>3. CASE Store(i)
  BY <1>3 DEF Store, To
<1>4. CASE Measure(i)
  BY <1>4, NextPositionIs, ReachedSize DEF Measure
<1>5. CASE InsertRow(i)
  <2>1. upload[i].position \in NoRow..Cardinality(Images) /\ NoRow \in NoRow..Cardinality(Images)
    BY ReachedSize DEF NoRow
  <2>2. row' \in [Images -> NoRow..Cardinality(Images)]
    BY <1>5, <2>1 DEF InsertRow
  <2>3. loose' \subseteq Images
    BY <1>5 DEF InsertRow
  <2> QED BY <1>5, <2>2, <2>3 DEF InsertRow, To
<1>6. CASE \E how \in {"refused", "unanswered"} : UploadFails(i, how)
  BY <1>6, BoundsAreNumbers DEF UploadFails, To, Failing
<1> QED BY <1>1, <1>2, <1>3, <1>4, <1>5, <1>6 DEF Uploading

LEMMA TypeOfStart ==
  ASSUME TypeOK, NEW r \in Requests, NEW doing \in Doings, Start(r, doing)
  PROVE  TypeOK'
BY BoundsAreNumbers DEF TypeOK, Start, formVars, productVars

LEMMA TypeOfBegin ==
  ASSUME TypeOK, OnlyUploaded, NEW r \in Requests, Begin(r)
  PROVE  TypeOK'
<1>1. CASE StartReorder(r)
  <2>1. PICK list \in SetToSeqs(Rows) : Start(r, [does |-> "reorder", list |-> list])
    BY <1>1 DEF StartReorder
  <2>2. [does |-> "reorder", list |-> list] \in Doings
    BY ListOfRows DEF Doings
  <2> QED BY <2>1, <2>2, TypeOfStart
<1>2. CASE StartRemove(r)
  <2>1. PICK i \in Rows : Start(r, [does |-> "remove", image |-> i, gone |-> FALSE])
    BY <1>2 DEF StartRemove
  <2>2. [does |-> "remove", image |-> i, gone |-> FALSE] \in Doings
    BY DEF Doings, Rows
  <2> QED BY <2>1, <2>2, TypeOfStart
<1>3. CASE StartStatus(r)
  <2>1. PICK to \in LegalNextStates(status) :
          Start(r, [does |-> "status", from |-> status, to |-> to])
    BY <1>3 DEF StartStatus
  <2>2. /\ status \in {"DRAFT", "PUBLISHED", "ARCHIVED"}
        /\ to \in {"PUBLISHED", "ARCHIVED"}
    BY <1>3 DEF StartStatus, Exists, LegalNextStates, TypeOK
  <2>3. [does |-> "status", from |-> status, to |-> to] \in Doings
    BY <2>2 DEF Doings
  <2> QED BY <2>1, <2>3, TypeOfStart
<1>4. CASE StartDelete(r)
  <2>1. [does |-> "delete", left |-> PicturesToDelete, taken |-> {}] \in Doings
    BY DEF Doings, PicturesToDelete, Rows
  <2> QED BY <1>4, <2>1, TypeOfStart DEF StartDelete
<1> QED BY <1>1, <1>2, <1>3, <1>4 DEF Begin

LEMMA IdleIsDoing == Idle \in Doings
BY DEF Doings

(* The place reorderImages gives to a picture of its list. *)
PlaceIn(list, i) == CHOOSE n \in DOMAIN list : list[n] = i
LEMMA PlaceInList ==
  ASSUME TypeOK, NEW r \in Requests, Doing(r, "reorder"), NEW i \in ToSet(request[r].list)
  PROVE  PlaceIn(request[r].list, i) \in 1..Len(request[r].list)
BY ListShape DEF PlaceIn

LEMMA ReorderedRow ==
  ASSUME NEW r \in Requests, Reorder(r)
  PROVE  LET list == request[r].list IN
         row' = IF ToSet(list) \subseteq Rows
                THEN [i \in Images |-> IF i \in ToSet(list) THEN PlaceIn(list, i) - 1 ELSE row[i]]
                ELSE row
BY Zenon DEF Reorder, PlaceIn

LEMMA TypeOfFinish ==
  ASSUME TypeOK, NEW r \in Requests, Finish(r) \/ RequestFails(r)
  PROVE  TypeOK'
<1> USE IdleIsDoing DEF TypeOK, formVars, productVars, imageVars, requestVars
<1>1. CASE Reorder(r)
  <2> DEFINE list == request[r].list
  <2>1. \A i \in ToSet(list) : PlaceIn(list, i) - 1 \in NoRow..Cardinality(Images)
    <3>1. Doing(r, "reorder")
      BY <1>1 DEF Reorder
    <3>2. Len(list) \in 0..Cardinality(Images) /\ Cardinality(Images) \in Nat
      BY <3>1, ListShape, ReachedSize
    <3>3. \A i \in ToSet(list) : PlaceIn(list, i) \in 1..Len(list)
      BY <3>1, PlaceInList
    <3> QED BY <3>2, <3>3 DEF NoRow
  <2>2. row' = IF ToSet(list) \subseteq Rows
               THEN [i \in Images |-> IF i \in ToSet(list) THEN PlaceIn(list, i) - 1 ELSE row[i]]
               ELSE row
    BY <1>1, ReorderedRow
  <2>3. row' \in [Images -> NoRow..Cardinality(Images)]
    BY <2>1, <2>2
  <2> QED BY <1>1, <2>3 DEF Reorder, Done
<1>2. CASE RemovePicture(r)
  <2>1. [request[r] EXCEPT !.gone = TRUE] \in Doings
    BY <1>2, Shapes DEF RemovePicture, Doings
  <2> QED BY <1>2, <2>1 DEF RemovePicture
<1>3. CASE RemoveRow(r)
  <2>1. NoRow \in NoRow..Cardinality(Images)
    BY ReachedSize DEF NoRow
  <2> QED BY <1>3, <2>1 DEF RemoveRow, Done
<1>4. CASE WriteStatus(r)
  <2>1. request[r].to \in {"PUBLISHED", "ARCHIVED"}
    BY <1>4, Shapes DEF WriteStatus
  <2>2. dated' \in BOOLEAN
    BY <1>4 DEF WriteStatus, SetsPublishedAt
  <2> QED BY <1>4, <2>1, <2>2 DEF WriteStatus, Done
<1>5. CASE DeletePicture(r)
  <2>1. PICK i \in request[r].left :
          /\ stored' = stored \ {i}
          /\ request' = [request EXCEPT ![r].left = @ \ {i}, ![r].taken = @ \cup {i}]
    BY <1>5 DEF DeletePicture
  <2>2. [request[r] EXCEPT !.left = request[r].left \ {i}, !.taken = request[r].taken \cup {i}] \in Doings
    <3>1. request[r] \in [does : {"delete"}, left : SUBSET Images, taken : SUBSET Images]
      BY <1>5, Shapes DEF DeletePicture
    <3>2. request[r].left \ {i} \in SUBSET Images /\ request[r].taken \cup {i} \in SUBSET Images
      BY <2>1, <3>1
    <3> QED BY <3>1, <3>2 DEF Doings
  <2>3. request' \in [Requests -> Doings]
    BY <2>1, <2>2
  <2> QED BY <1>5, <2>1, <2>3 DEF DeletePicture
<1>6. CASE DeleteRows(r)
  <2>1. NoRow \in NoRow..Cardinality(Images)
    BY ReachedSize DEF NoRow
  <2>2. request[r].taken \subseteq Images
    BY <1>6, Shapes DEF DeleteRows
  <2> QED BY <1>6, <2>1, <2>2 DEF DeleteRows, Done
<1>7. CASE RequestFails(r)
  <2>1. Taken(r) \subseteq Images
    BY Shapes DEF Taken
  <2> QED BY <1>7, <2>1, BoundsAreNumbers DEF RequestFails, Failing, Done
<1> QED BY <1>1, <1>2, <1>3, <1>4, <1>5, <1>6, <1>7 DEF Finish

LEMMA TypeNext ==
  ASSUME TypeOK, NotYet, Placed, OnlyUploaded, [Next]_vars
  PROVE  TypeOK'
<1>1. CASE Hold
  BY <1>1 DEF Hold, TypeOK, formVars, imageVars, requestVars
<1>2. CASE UNCHANGED vars
  BY <1>2 DEF TypeOK, vars, formVars, productVars, imageVars, requestVars
<1> QED BY <1>1, <1>2, TypeOfForm, TypeOfUpload, TypeOfBegin, TypeOfFinish DEF Next

-----------------------------------------------------------------------------
(* The create form *)
LEMMA FormStays ==
  ASSUME [Next]_vars
  PROVE  Form \/ UNCHANGED formVars
<1> USE DEF formVars
<1>1. CASE Hold \/ UNCHANGED vars
  BY <1>1 DEF Hold, vars
<1>2. ASSUME NEW i \in Images,
             SendFromPage(i) \/ Uploading(i) \/ \E how \in {"refused", "unanswered"} : UploadFails(i, how)
      PROVE  UNCHANGED formVars
  BY <1>2 DEF SendFromPage, UploadFails, Uploading, FindProduct, Store, Measure, InsertRow
<1>3. ASSUME NEW r \in Requests, Begin(r)
      PROVE  UNCHANGED formVars
  BY <1>3, Zenon DEF Begin, StartReorder, StartRemove, StartStatus, StartDelete, Start
<1>4. ASSUME NEW r \in Requests, Finish(r) \/ RequestFails(r)
      PROVE  UNCHANGED formVars
  BY <1>4, Zenon DEF Finish, Reorder, RemovePicture, RemoveRow, WriteStatus, DeletePicture,
                     DeleteRows, RequestFails
<1> QED BY <1>1, <1>2, <1>3, <1>4 DEF Next

(* Before there is a product nothing happens but on the form. *)
LEMMA NothingBefore ==
  ASSUME NotYet, form \in {"filling", "creating"}, Next
  PROVE  Form
<1>1. ~Exists
  BY DEF NotYet, Exists
<1>2. ASSUME NEW i \in Images
      PROVE  ~SendFromPage(i) /\ ~Uploading(i) /\ \A how : ~UploadFails(i, how)
  <2>1. upload[i].at = "unsent"
    BY DEF NotYet, Unsent
  <2> QED BY <1>1, <2>1 DEF SendFromPage, Uploading, UploadFails, UnderWay, FindProduct, Store,
                            Measure, InsertRow
<1>3. ASSUME NEW r \in Requests
      PROVE  ~Begin(r)
  <2>1. \A doing : ~Start(r, doing)
    BY <1>1 DEF Start
  <2> QED BY <2>1 DEF Begin, StartReorder, StartRemove, StartStatus, StartDelete
<1>4. ASSUME NEW r \in Requests
      PROVE  ~Finish(r) /\ ~RequestFails(r)
  <2>1. request[r] = Idle /\ request[r].does = "nothing"
    BY DEF NotYet, Idle
  <2> QED BY <2>1 DEF Finish, Reorder, RemovePicture, RemoveRow, WriteStatus, DeletePicture,
                      DeleteRows, Doing, RequestFails
<1> QED BY <1>1, <1>2, <1>3, <1>4 DEF Next, Hold

LEMMA NotYetNext ==
  ASSUME TypeOK, NotYet, AtMostOne, [Next]_vars
  PROVE  NotYet' /\ AtMostOne'
<1>1. CASE Submit
  BY <1>1 DEF Submit, NotYet, AtMostOne, productVars, imageVars, requestVars
<1>2. CASE Create
  BY <1>2 DEF Create, NotYet, AtMostOne
<1>3. CASE CreateFails
  BY <1>3 DEF CreateFails, NotYet, AtMostOne, imageVars, requestVars
<1>4. CASE Settle \/ Continue
  BY <1>4 DEF Settle, Continue, PageAfter, NotYet, AtMostOne
<1>5. CASE Next /\ ~Form
  BY <1>5, NothingBefore, FormStays DEF NotYet, AtMostOne, formVars
<1>6. CASE UNCHANGED vars
  BY <1>6 DEF vars, formVars, productVars, imageVars, requestVars, NotYet, AtMostOne
<1> QED BY <1>1, <1>2, <1>3, <1>4, <1>5, <1>6 DEF Form

(* How far an upload can be taken by a step. *)
Ended(i) == upload[i].at \in {"done", "refused", "unanswered"}
LEMMA UploadsGoForward ==
  ASSUME TypeOK, NotYet, [Next]_vars, NEW i \in Images
  PROVE  /\ Ended(i) => upload'[i] = upload[i]
         /\ upload[i].at # "unsent" => upload'[i].at # "unsent"
         /\ i \in Reached => i \in Reached' /\ upload'[i].position = upload[i].position
<1> USE DEF TypeOK, Ended, Reached
<1>1. CASE Form
  BY <1>1 DEF Form, Submit, Create, CreateFails, Settle, Continue, imageVars, Send, NotYet, Unsent
<1>2. ASSUME NEW j \in Images,
             SendFromPage(j) \/ FindProduct(j) \/ Store(j) \/ InsertRow(j)
             \/ \E how \in {"refused", "unanswered"} : UploadFails(j, how)
      PROVE  /\ Ended(i) => upload'[i] = upload[i]
             /\ upload[i].at # "unsent" => upload'[i].at # "unsent"
             /\ i \in Reached => i \in Reached' /\ upload'[i].position = upload[i].position
  BY <1>2 DEF SendFromPage, Send, Unsent, FindProduct, Store, InsertRow, UploadFails, To, UnderWay
<1>3. ASSUME NEW j \in Images, Measure(j)
      PROVE  /\ Ended(i) => upload'[i] = upload[i]
             /\ upload[i].at # "unsent" => upload'[i].at # "unsent"
             /\ i \in Reached => i \in Reached' /\ upload'[i].position = upload[i].position
  BY <1>3 DEF Measure
<1>4. CASE UNCHANGED upload
  BY <1>4
<1>5. ASSUME NEW r \in Requests, Begin(r) \/ Finish(r) \/ RequestFails(r)
      PROVE  UNCHANGED upload
  BY <1>5, Zenon DEF Begin, StartReorder, StartRemove, StartStatus, StartDelete, Start, imageVars,
                     Finish, Reorder, RemovePicture, RemoveRow, WriteStatus, DeletePicture,
                     DeleteRows, RequestFails
<1>6. CASE Hold \/ UNCHANGED vars
  BY <1>4, <1>6 DEF Hold, vars, imageVars
<1> QED BY <1>1, <1>2, <1>3, <1>4, <1>5, <1>6 DEF Next, Uploading

LEMMA FormKnowsNext ==
  ASSUME TypeOK, NotYet, FormKnows, [Next]_vars
  PROVE  FormKnows'
<1>1. CASE Submit \/ CreateFails
  BY <1>1 DEF Submit, CreateFails, FormKnows, NoneDropped
<1>2. CASE Create
  BY <1>2, StagedAreImages DEF Create, Send, Unsent, FormKnows, NoneDropped, NotYet
<1>3. CASE Settle
  <2>1. \A i \in Staged : upload[i].at \in {"done", "refused", "unanswered"}
    BY <1>3, StagedAreImages DEF Settle, AllSettled, UnderWay, FormKnows, TypeOK
  <2> QED BY <1>3, <2>1 DEF Settle, FailedUploads, PageAfter, imageVars, FormKnows, NoneDropped
<1>4. CASE Continue
  BY <1>4 DEF Continue, imageVars, FormKnows, NoneDropped
<1>5. CASE UNCHANGED formVars
  BY <1>5, UploadsGoForward, StagedAreImages DEF formVars, FormKnows, NoneDropped, Ended
<1> QED BY <1>1, <1>2, <1>3, <1>4, <1>5, FormStays DEF Form

-----------------------------------------------------------------------------
(* What a step can do to a request, to the rows and to the store *)
Begun(q) ==
  /\ request[q] = Idle
  /\ \/ \E list \in SetToSeqs(Rows) : request'[q] = [does |-> "reorder", list |-> list]
     \/ \E i \in Rows : request'[q] = [does |-> "remove", image |-> i, gone |-> FALSE]
     \/ \E from, to : request'[q] = [does |-> "status", from |-> from, to |-> to]
     \/ request'[q] = [does |-> "delete", left |-> Rows, taken |-> {}]
  /\ UNCHANGED <<row, stored, loose, broken>>
Answered(q) ==
  /\ request'[q] = Idle
  /\ Reorder(q) \/ RemoveRow(q) \/ WriteStatus(q) \/ DeleteRows(q) \/ RequestFails(q)

LEMMA RequestSteps ==
  ASSUME TypeOK, [Next]_vars, NEW q \in Requests
  PROVE  request'[q] = request[q] \/ Begun(q) \/ RemovePicture(q) \/ DeletePicture(q) \/ Answered(q)
<1> DEFINE Goal == request'[q] = request[q] \/ Begun(q) \/ RemovePicture(q) \/ DeletePicture(q) \/ Answered(q)
<1>1. DOMAIN request = Requests
  BY DEF TypeOK
<1>2. CASE UNCHANGED request
  BY <1>2
<1>3. CASE Form \/ Hold \/ UNCHANGED vars
  BY <1>2, <1>3 DEF Form, Submit, Create, CreateFails, Settle, Continue, Hold, vars, requestVars
<1>4. ASSUME NEW i \in Images,
             SendFromPage(i) \/ Uploading(i) \/ \E how \in {"refused", "unanswered"} : UploadFails(i, how)
      PROVE  UNCHANGED request
  BY <1>4 DEF SendFromPage, UploadFails, Uploading, FindProduct, Store, Measure, InsertRow, requestVars
<1>5. ASSUME NEW r \in Requests, NEW doing, Start(r, doing)
      PROVE  /\ request'[q] = request[q] \/ (request[q] = Idle /\ request'[q] = doing)
             /\ UNCHANGED <<row, stored, loose, broken>>
  BY <1>1, <1>5 DEF Start
<1>6. ASSUME NEW r \in Requests, Begin(r)
      PROVE  Goal
  <2> USE DEF Begun
  <2>1. CASE StartReorder(r)
    BY <1>5, <2>1 DEF StartReorder
  <2>2. CASE StartRemove(r)
    BY <1>5, <2>2 DEF StartRemove
  <2>3. CASE StartStatus(r)
    BY <1>5, <2>3 DEF StartStatus
  <2>4. CASE StartDelete(r)
    BY <1>5, <2>4 DEF StartDelete, PicturesToDelete
  <2> QED BY <1>6, <2>1, <2>2, <2>3, <2>4 DEF Begin
<1>7. ASSUME NEW r \in Requests, Finish(r) \/ RequestFails(r)
      PROVE  Goal
  <2>1. CASE Reorder(r) \/ RemoveRow(r) \/ WriteStatus(r) \/ DeleteRows(r) \/ RequestFails(r)
    <3>1. Done(r)
      BY <2>1 DEF Reorder, RemoveRow, WriteStatus, DeleteRows, RequestFails
    <3>2. CASE q = r
      BY <1>1, <2>1, <3>1, <3>2 DEF Done, Answered
    <3>3. CASE q # r
      BY <1>1, <3>1, <3>3 DEF Done
    <3> QED BY <3>2, <3>3
  <2>2. CASE RemovePicture(r)
    BY <1>1, <2>2 DEF RemovePicture
  <2>3. CASE DeletePicture(r)
    BY <1>1, <2>3 DEF DeletePicture
  <2> QED BY <1>7, <2>1, <2>2, <2>3 DEF Finish
<1> HIDE DEF Goal
<1>8. Goal
  BY <1>2, <1>3, <1>4, <1>6, <1>7 DEF Next, Goal
<1> QED BY <1>8 DEF Goal

LEMMA RowSteps ==
  ASSUME [Next]_vars
  PROVE  \/ UNCHANGED row
         \/ \E i \in Images : InsertRow(i)
         \/ \E r \in Requests : Reorder(r) \/ RemoveRow(r) \/ DeleteRows(r)
<1>1. CASE Form \/ Hold \/ UNCHANGED vars
  BY <1>1 DEF Form, Submit, Create, CreateFails, Settle, Continue, Hold, vars, imageVars
<1>2. ASSUME NEW i \in Images,
             \/ SendFromPage(i) \/ FindProduct(i) \/ Store(i) \/ Measure(i)
             \/ \E how \in {"refused", "unanswered"} : UploadFails(i, how)
      PROVE  UNCHANGED row
  BY <1>2 DEF SendFromPage, UploadFails, FindProduct, Store, Measure
<1>3. ASSUME NEW r \in Requests,
             Begin(r) \/ RemovePicture(r) \/ WriteStatus(r) \/ DeletePicture(r) \/ RequestFails(r)
      PROVE  UNCHANGED row
  BY <1>3, Zenon DEF Begin, StartReorder, StartRemove, StartStatus, StartDelete, Start, imageVars,
                     RemovePicture, WriteStatus, DeletePicture, RequestFails
<1> QED BY <1>1, <1>2, <1>3 DEF Next, Uploading, Finish

LEMMA StoreSteps ==
  ASSUME [Next]_vars
  PROVE  \/ UNCHANGED stored
         \/ \E i \in Images : Store(i)
         \/ \E r \in Requests : RemovePicture(r) \/ DeletePicture(r)
<1>1. CASE Form \/ Hold \/ UNCHANGED vars
  BY <1>1 DEF Form, Submit, Create, CreateFails, Settle, Continue, Hold, vars, imageVars
<1>2. ASSUME NEW i \in Images,
             \/ SendFromPage(i) \/ FindProduct(i) \/ Measure(i) \/ InsertRow(i)
             \/ \E how \in {"refused", "unanswered"} : UploadFails(i, how)
      PROVE  UNCHANGED stored
  BY <1>2 DEF SendFromPage, UploadFails, FindProduct, Measure, InsertRow
<1>3. ASSUME NEW r \in Requests,
             Begin(r) \/ Reorder(r) \/ RemoveRow(r) \/ WriteStatus(r) \/ DeleteRows(r) \/ RequestFails(r)
      PROVE  UNCHANGED stored
  BY <1>3, Zenon DEF Begin, StartReorder, StartRemove, StartStatus, StartDelete, Start, imageVars,
                     Reorder, RemoveRow, WriteStatus, DeleteRows, RequestFails
<1> QED BY <1>1, <1>2, <1>3 DEF Next, Uploading, Finish

LEMMA HistoryGrows ==
  ASSUME [Next]_vars
  PROVE  loose \subseteq loose' /\ broken \subseteq broken'
<1>1. CASE Form \/ Hold \/ UNCHANGED vars
  BY <1>1 DEF Form, Submit, Create, CreateFails, Settle, Continue, Hold, vars, imageVars
<1>2. ASSUME NEW i \in Images,
             SendFromPage(i) \/ Uploading(i) \/ \E how \in {"refused", "unanswered"} : UploadFails(i, how)
      PROVE  loose \subseteq loose' /\ broken \subseteq broken'
  BY <1>2 DEF SendFromPage, UploadFails, Uploading, FindProduct, Store, Measure, InsertRow
<1>3. ASSUME NEW r \in Requests,
             Begin(r) \/ Reorder(r) \/ RemovePicture(r) \/ RemoveRow(r) \/ WriteStatus(r) \/ DeletePicture(r)
      PROVE  UNCHANGED <<loose, broken>>
  BY <1>3, Zenon DEF Begin, StartReorder, StartRemove, StartStatus, StartDelete, Start, imageVars,
                     Reorder, RemovePicture, RemoveRow, WriteStatus, DeletePicture
<1>4. ASSUME NEW r \in Requests, DeleteRows(r) \/ RequestFails(r)
      PROVE  loose \subseteq loose' /\ broken \subseteq broken'
  BY <1>4 DEF DeleteRows, RequestFails
<1> QED BY <1>1, <1>2, <1>3, <1>4 DEF Next, Finish

(* Only InsertRow makes a row. *)
LEMMA RowsGrow ==
  ASSUME TypeOK, [Next]_vars, NEW i \in Images, i \in Rows', i \notin Rows
  PROVE  InsertRow(i)
<1> USE DEF TypeOK, Rows
<1>1. ASSUME NEW j \in Images, InsertRow(j), j # i
      PROVE  FALSE
  BY <1>1 DEF InsertRow
<1>2. ASSUME NEW r \in Requests, Reorder(r)
      PROVE  FALSE
  BY <1>2, ReorderedRow
<1>3. ASSUME NEW r \in Requests, RemoveRow(r) \/ DeleteRows(r)
      PROVE  FALSE
  BY <1>3 DEF RemoveRow, DeleteRows
<1> QED BY <1>1, <1>2, <1>3, RowSteps

LEMMA AskedSteps ==
  ASSUME TypeOK, [Next]_vars, NEW q \in Requests
  PROVE  Asked(q)' \subseteq Asked(q) \cup Rows
<1> USE DEF Asked, Doing
<1>1. CASE request'[q] = request[q]
  BY <1>1
<1>2. CASE Begun(q)
  <2>1. ASSUME NEW list \in SetToSeqs(Rows)
        PROVE  ToSet(list) \subseteq Rows
    BY <2>1 DEF SetToSeqs, ToSet
  <2>2. ASSUME NEW list \in SetToSeqs(Rows), request'[q] = [does |-> "reorder", list |-> list]
        PROVE  Asked(q)' = ToSet(list)
    BY <2>2 DEF ToSet
  <2>3. ASSUME NEW i \in Rows, request'[q] = [does |-> "remove", image |-> i, gone |-> FALSE]
        PROVE  Asked(q)' = {i}
    BY <2>3
  <2>4. ASSUME NEW from, NEW to, request'[q] = [does |-> "status", from |-> from, to |-> to]
        PROVE  Asked(q)' = {}
    BY <2>4
  <2>5. CASE request'[q] = [does |-> "delete", left |-> Rows, taken |-> {}]
    <3>1. /\ request'[q].does = "delete"
          /\ request'[q].left = Rows /\ request'[q].taken = {}
      BY <2>5
    <3>2. Asked(q)' = Rows \cup {}
      BY <3>1
    <3> QED BY <3>2
  <2> HIDE DEF Asked
  <2> QED BY <1>2, <2>1, <2>2, <2>3, <2>4, <2>5 DEF Begun
<1>3. CASE RemovePicture(q)
  BY <1>3, Shapes DEF RemovePicture, TypeOK
<1>4. CASE DeletePicture(q)
  <2>1. request[q] \in [does : {"delete"}, left : SUBSET Images, taken : SUBSET Images]
    BY <1>4, Shapes DEF DeletePicture
  <2>2. PICK i \in request[q].left :
          request' = [request EXCEPT ![q].left = @ \ {i}, ![q].taken = @ \cup {i}]
    BY <1>4 DEF DeletePicture
  <2>3. /\ request'[q].does = "delete"
        /\ request'[q].left = request[q].left \ {i} /\ request'[q].taken = request[q].taken \cup {i}
    BY <2>1, <2>2 DEF TypeOK
  <2>4. Asked(q)' = (request[q].left \ {i}) \cup (request[q].taken \cup {i})
    BY <2>3
  <2>5. Asked(q) = request[q].left \cup request[q].taken
    BY <2>1
  <2> QED BY <2>2, <2>4, <2>5
<1>5. CASE Answered(q)
  BY <1>5 DEF Answered, Idle
<1> QED BY <1>1, <1>2, <1>3, <1>4, <1>5, RequestSteps

LEMMA OnlyUploadedNext ==
  ASSUME TypeOK, NotYet, OnlyUploaded, [Next]_vars
  PROVE  OnlyUploaded'
<1>1. Uploaded \subseteq Uploaded'
  BY UploadsGoForward DEF Uploaded, Ended
<1>2. Rows' \subseteq Uploaded'
  <2> SUFFICES ASSUME NEW i \in Images, i \in Rows', i \notin Rows PROVE i \in Uploaded'
    BY <1>1 DEF OnlyUploaded, Rows
  <2>1. InsertRow(i)
    BY RowsGrow
  <2> QED BY <2>1 DEF InsertRow, To, Uploaded, Rows, TypeOK
<1> QED BY <1>1, <1>2, AskedSteps DEF OnlyUploaded

-----------------------------------------------------------------------------
(* Positions: no picture is placed further than the number of uploads that *)
(* have come to choose a place.                                            *)
LEMMA ReachedGrows ==
  ASSUME TypeOK, NotYet, TypeOK', [Next]_vars
  PROVE  /\ Cardinality(Reached) \in Nat /\ Cardinality(Reached') \in Nat
         /\ Reached \subseteq Reached' /\ Cardinality(Reached) <= Cardinality(Reached')
         /\ \A i \in Reached' \ Reached : Cardinality(Reached) < Cardinality(Reached')
<1>1. IsFiniteSet(Reached) /\ IsFiniteSet(Reached')
  <2>1. Reached \in SUBSET Images /\ Reached' \in SUBSET Images
    BY DEF Reached
  <2> QED BY <2>1, ImagesAreFinite, FS_Subset
<1>2. Reached \subseteq Reached'
  BY UploadsGoForward DEF Reached
<1>3. Cardinality(Reached) \in Nat /\ Cardinality(Reached') \in Nat
  BY <1>1, FS_CardinalityType
<1>4. /\ Cardinality(Reached) <= Cardinality(Reached')
      /\ Cardinality(Reached') = Cardinality(Reached) => Reached' = Reached
  BY <1>1, <1>2, FS_Subset
<1> QED BY <1>2, <1>3, <1>4

(* The only place an upload ever gets is the one it measures. *)
LEMMA PositionSteps ==
  ASSUME TypeOK, NotYet, [Next]_vars, NEW i \in Images, i \notin Reached,
         upload[i].position = 0
  PROVE  \/ upload'[i].position = 0
         \/ upload'[i].position = NextPosition /\ i \in Reached'
<1> USE DEF TypeOK
<1>1. CASE UNCHANGED upload
  BY <1>1
<1>2. CASE Form \/ Hold \/ UNCHANGED vars
  BY <1>2 DEF Form, Submit, Create, CreateFails, Settle, Continue, Hold, vars, imageVars, Send, Unsent
<1>3. ASSUME NEW j \in Images,
             SendFromPage(j) \/ FindProduct(j) \/ Store(j) \/ InsertRow(j)
             \/ \E how \in {"refused", "unanswered"} : UploadFails(j, how)
      PROVE  upload'[i].position = 0
  BY <1>3 DEF SendFromPage, Send, Unsent, FindProduct, Store, InsertRow, UploadFails, To
<1>4. ASSUME NEW j \in Images, Measure(j)
      PROVE  \/ upload'[i].position = 0
             \/ upload'[i].position = NextPosition /\ i \in Reached'
  BY <1>4 DEF Measure, Reached
<1>5. ASSUME NEW r \in Requests, Begin(r) \/ Finish(r) \/ RequestFails(r)
      PROVE  UNCHANGED upload
  BY <1>5, Zenon DEF Begin, StartReorder, StartRemove, StartStatus, StartDelete, Start, imageVars,
                     Finish, Reorder, RemovePicture, RemoveRow, WriteStatus, DeletePicture,
                     DeleteRows, RequestFails
<1> QED BY <1>1, <1>2, <1>3, <1>4, <1>5 DEF Next, Uploading

LEMMA RowsArePlaced ==
  ASSUME TypeOK, Placed, [Next]_vars, NEW i \in Images
  PROVE  row'[i] < Cardinality(Reached)
<1> DEFINE N == Cardinality(Reached)
<1>1. N \in Nat /\ row[i] < N /\ NoRow < N /\ row[i] \in Int
  BY ReachedSize DEF Placed, NoRow, TypeOK
<1> HIDE DEF N
<1>2. ASSUME NEW j \in Images, InsertRow(j)
      PROVE  row'[i] < N
  <2>1. upload[j].position < N
    BY <1>2 DEF InsertRow, Placed, Reached, N
  <2> QED BY <1>1, <1>2, <2>1 DEF InsertRow, TypeOK
<1>3. ASSUME NEW r \in Requests, Reorder(r)
      PROVE  row'[i] < N
  <2> DEFINE list == request[r].list
  <2>1. Doing(r, "reorder")
    BY <1>3 DEF Reorder
  <2>2. Len(list) <= N /\ Len(list) \in Nat
    <3>1. Places(r) = Len(list)
      BY <2>1 DEF Places
    <3> QED BY <2>1, <3>1, ListShape, ReachedSize DEF Placed, N
  <2>3. i \in ToSet(list) => PlaceIn(list, i) \in 1..Len(list)
    BY <2>1, PlaceInList
  <2>4. row'[i] = row[i] \/ (i \in ToSet(list) /\ row'[i] = PlaceIn(list, i) - 1)
    BY <1>3, ReorderedRow
  <2> HIDE DEF list
  <2> QED BY <1>1, <2>2, <2>3, <2>4
<1>4. ASSUME NEW r \in Requests, RemoveRow(r) \/ DeleteRows(r)
      PROVE  row'[i] < N
  BY <1>1, <1>4 DEF RemoveRow, DeleteRows, TypeOK
<1> QED BY <1>1, <1>2, <1>3, <1>4, RowSteps DEF N

LEMMA PlacesNext ==
  ASSUME TypeOK, OnlyUploaded, Placed, [Next]_vars, NEW q \in Requests
  PROVE  Places(q)' \in Int /\ Places(q)' <= Cardinality(Reached)
<1> DEFINE N == Cardinality(Reached)
<1>1. N \in Nat /\ Places(q) \in Int /\ Places(q) <= N
  BY ListShape, ReachedSize DEF Placed, Places
<1>2. \A list \in SetToSeqs(Rows) : Len(list) \in 0..N
  BY ListOfRows
<1> HIDE DEF N
<1> SUFFICES Places(q)' \in Int /\ Places(q)' <= N
  BY DEF N
<1> USE DEF Places, Doing
<1>3. CASE request'[q] = request[q]
  BY <1>1, <1>3
<1>4. CASE Begun(q)
  <2>1. CASE \E list \in SetToSeqs(Rows) : request'[q] = [does |-> "reorder", list |-> list]
    BY <1>1, <1>2, <2>1
  <2>2. CASE request'[q].does # "reorder"
    BY <1>1, <2>2
  <2>3. CASE \E i \in Rows : request'[q] = [does |-> "remove", image |-> i, gone |-> FALSE]
    BY <2>2, <2>3
  <2>4. CASE \E from, to : request'[q] = [does |-> "status", from |-> from, to |-> to]
    BY <2>2, <2>4
  <2>5. CASE request'[q] = [does |-> "delete", left |-> Rows, taken |-> {}]
    BY <2>2, <2>5
  <2> QED BY <1>4, <2>1, <2>3, <2>4, <2>5 DEF Begun
<1>5. CASE RemovePicture(q)
  BY <1>1, <1>5, Shapes DEF RemovePicture, TypeOK
<1>6. CASE DeletePicture(q)
  <2>1. request'[q].does = "delete"
    BY <1>6, Shapes DEF DeletePicture, TypeOK
  <2> QED BY <1>1, <2>1
<1>7. CASE Answered(q)
  BY <1>1, <1>7 DEF Answered, Idle
<1> QED BY <1>3, <1>4, <1>5, <1>6, <1>7, RequestSteps

LEMMA PlacedNext ==
  ASSUME TypeOK, NotYet, Placed, OnlyUploaded, TypeOK', [Next]_vars
  PROVE  Placed'
<1> DEFINE N == Cardinality(Reached)
           M == Cardinality(Reached')
<1>1. /\ N \in Nat /\ M \in Nat /\ N <= M /\ Reached \subseteq Reached'
      /\ \A i \in Reached' \ Reached : N < M
  BY ReachedGrows
<1> HIDE DEF N, M
<1>2. \A i \in Images : row'[i] < M
  <2>1. \A i \in Images : row'[i] \in Int /\ row'[i] < N
    BY RowsArePlaced, ReachedSize DEF N, TypeOK, NoRow
  <2> QED BY <1>1, <2>1
<1>3. ASSUME NEW i \in Images
      PROVE  IF i \in Reached' THEN upload'[i].position < M ELSE upload'[i].position = 0
  <2>1. upload[i].position \in Int /\ upload'[i].position \in Int
    BY ReachedSize DEF TypeOK
  <2>2. CASE i \in Reached
    <3>1. i \in Reached' /\ upload'[i].position = upload[i].position /\ upload[i].position < N
      BY <2>2, UploadsGoForward DEF Placed, N
    <3> QED BY <1>1, <2>1, <3>1
  <2>3. CASE i \notin Reached
    <3>1. upload'[i].position = 0 \/ (upload'[i].position = NextPosition /\ i \in Reached')
      BY <2>3, PositionSteps DEF Placed
    <3>2. NextPosition \in 0..N
      BY NextPositionIs DEF N
    <3> QED BY <1>1, <2>3, <3>1, <3>2
  <2> QED BY <2>2, <2>3
<1>4. ASSUME NEW q \in Requests
      PROVE  Places(q)' <= M
  <2>1. Places(q)' \in Int /\ Places(q)' <= N
    BY PlacesNext DEF N
  <2> QED BY <1>1, <2>1
<1> QED BY <1>2, <1>3, <1>4 DEF Placed, M

-----------------------------------------------------------------------------
(* Pictures, their rows and their removal *)
LEMMA AskedIsUploaded ==
  ASSUME TypeOK, OnlyUploaded, NEW r \in Requests
  PROVE  /\ Asked(r) \subseteq Uploaded /\ Taken(r) \subseteq Asked(r)
         /\ Doing(r, "remove") => request[r].image \in Uploaded
         /\ Doing(r, "delete") => request[r].left \subseteq Uploaded
<1>1. Asked(r) \subseteq Uploaded
  BY DEF OnlyUploaded
<1>2. /\ Doing(r, "remove") => Asked(r) = {request[r].image} /\ Taken(r) \subseteq {request[r].image}
      /\ Doing(r, "delete") => Asked(r) = request[r].left \cup request[r].taken /\ Taken(r) = request[r].taken
      /\ ~Doing(r, "remove") /\ ~Doing(r, "delete") => Taken(r) = {}
  BY DEF Asked, Taken, Doing
<1> QED BY <1>1, <1>2

LEMMA StoredInTurnNext ==
  ASSUME TypeOK, NotYet, OnlyUploaded, StoredInTurn, [Next]_vars
  PROVE  StoredInTurn'
<1> USE DEF TypeOK, StoredInTurn
<1>1. CASE Form
  BY <1>1 DEF Form, Submit, Create, CreateFails, Settle, Continue, imageVars, Send, NotYet, Unsent
<1>2. ASSUME NEW j \in Images,
             \/ SendFromPage(j) \/ FindProduct(j) \/ Store(j) \/ InsertRow(j)
             \/ \E how \in {"refused", "unanswered"} : UploadFails(j, how)
      PROVE  StoredInTurn'
  BY <1>2 DEF SendFromPage, Send, Unsent, FindProduct, Store, InsertRow, UploadFails, To
<1>3. ASSUME NEW j \in Images, Measure(j)
      PROVE  StoredInTurn'
  BY <1>3 DEF Measure
<1>4. ASSUME NEW r \in Requests, RemovePicture(r) \/ DeletePicture(r)
      PROVE  StoredInTurn'
  <2>1. UNCHANGED upload
    BY <1>4 DEF RemovePicture, DeletePicture
  <2>2. PICK k \in Uploaded : stored' = stored \ {k}
    <3>1. CASE RemovePicture(r)
      BY <3>1, AskedIsUploaded DEF RemovePicture
    <3>2. CASE DeletePicture(r)
      BY <3>2, AskedIsUploaded DEF DeletePicture
    <3> QED BY <1>4, <3>1, <3>2
  <2> QED BY <2>1, <2>2 DEF Uploaded
<1>5. ASSUME NEW r \in Requests,
             \/ Begin(r) \/ Reorder(r) \/ RemoveRow(r) \/ WriteStatus(r) \/ DeleteRows(r) \/ RequestFails(r)
      PROVE  UNCHANGED <<upload, stored>>
  BY <1>5, Zenon DEF Begin, StartReorder, StartRemove, StartStatus, StartDelete, Start, imageVars,
                     Reorder, RemoveRow, WriteStatus, DeleteRows, RequestFails
<1>6. CASE Hold \/ UNCHANGED vars
  BY <1>6 DEF Hold, vars, imageVars
<1> QED BY <1>1, <1>2, <1>3, <1>4, <1>5, <1>6 DEF Next, Uploading, Finish

LEMMA OnlyStoreStores ==
  ASSUME [Next]_vars, NEW i \in stored', i \notin stored, TypeOK
  PROVE  Store(i) /\ upload[i].at = "found"
<1>1. ASSUME NEW j \in Images, Store(j)
      PROVE  i = j /\ upload[j].at = "found"
  BY <1>1 DEF Store
<1>2. ASSUME NEW r \in Requests, RemovePicture(r) \/ DeletePicture(r)
      PROVE  FALSE
  BY <1>2 DEF RemovePicture, DeletePicture
<1> QED BY <1>1, <1>2, StoreSteps

LEMMA TakenIsGoneNext ==
  ASSUME TypeOK, OnlyUploaded, TakenIsGone, [Next]_vars
  PROVE  TakenIsGone'
<1> SUFFICES ASSUME NEW q \in Requests, NEW i \in Taken(q)', i \in stored'
             PROVE  FALSE
  BY DEF TakenIsGone
<1>1. i \notin Taken(q)
  <2> SUFFICES ASSUME i \in Taken(q) PROVE FALSE
    OBVIOUS
  <2>1. i \notin stored /\ i \in Uploaded
    BY AskedIsUploaded DEF TakenIsGone
  <2> QED BY <2>1, OnlyStoreStores DEF Uploaded
<1> USE DEF Taken, Doing
<1>2. CASE request'[q] = request[q]
  BY <1>1, <1>2
<1>3. CASE Begun(q)
  <2>1. CASE \E list \in SetToSeqs(Rows) : request'[q] = [does |-> "reorder", list |-> list]
    BY <2>1
  <2>2. CASE \E k \in Rows : request'[q] = [does |-> "remove", image |-> k, gone |-> FALSE]
    BY <2>2
  <2>3. CASE \E from, to : request'[q] = [does |-> "status", from |-> from, to |-> to]
    BY <2>3
  <2>4. CASE request'[q] = [does |-> "delete", left |-> Rows, taken |-> {}]
    BY <2>4
  <2> QED BY <1>3, <2>1, <2>2, <2>3, <2>4 DEF Begun
<1>4. CASE RemovePicture(q)
  <2>1. i = request[q].image
    BY <1>4, Shapes DEF RemovePicture, TypeOK
  <2> QED BY <1>4, <2>1 DEF RemovePicture
<1>5. CASE DeletePicture(q)
  <2>1. PICK k \in request[q].left :
          /\ stored' = stored \ {k}
          /\ request' = [request EXCEPT ![q].left = @ \ {k}, ![q].taken = @ \cup {k}]
    BY <1>5 DEF DeletePicture
  <2>2. request'[q].does = "delete" /\ request'[q].taken = request[q].taken \cup {k}
    BY <1>5, <2>1, Shapes DEF DeletePicture, TypeOK
  <2>3. i \in request[q].taken \cup {k}
    BY <2>2
  <2>4. request[q].does = "delete"
    BY <1>5 DEF DeletePicture
  <2> QED BY <1>1, <2>1, <2>3, <2>4
<1>6. CASE Answered(q)
  BY <1>6 DEF Answered, Idle
<1> QED BY <1>2, <1>3, <1>4, <1>5, <1>6, RequestSteps

LEMMA NoneIsMissedNext ==
  ASSUME TypeOK, NoneIsMissed, [Next]_vars
  PROVE  NoneIsMissed'
<1> SUFFICES ASSUME NEW q \in Requests, Doing(q, "delete")', NEW i \in Rows'
             PROVE  i \in (request'[q].left \cup request'[q].taken \cup loose')
  BY DEF NoneIsMissed
<1> USE DEF Doing
<1>1. ASSUME Doing(q, "delete")
      PROVE  i \in (request[q].left \cup request[q].taken \cup loose')
  <2>1. CASE i \in Rows
    BY <1>1, <2>1, HistoryGrows DEF NoneIsMissed
  <2>2. CASE i \notin Rows
    <3>1. i \in Images
      BY DEF Rows
    <3>2. InsertRow(i) /\ Deleting
      BY <1>1, <2>2, <3>1, RowsGrow DEF Deleting
    <3> QED BY <3>2 DEF InsertRow
  <2> QED BY <2>1, <2>2
<1>2. CASE request'[q] = request[q]
  BY <1>1, <1>2
<1>3. CASE Begun(q)
  <2>1. Rows' = Rows
    BY <1>3 DEF Begun, Rows
  <2>2. CASE \E list \in SetToSeqs(Rows) : request'[q] = [does |-> "reorder", list |-> list]
    BY <2>2
  <2>3. CASE \E k \in Rows : request'[q] = [does |-> "remove", image |-> k, gone |-> FALSE]
    BY <2>3
  <2>4. CASE \E from, to : request'[q] = [does |-> "status", from |-> from, to |-> to]
    BY <2>4
  <2>5. CASE request'[q] = [does |-> "delete", left |-> Rows, taken |-> {}]
    BY <2>1, <2>5
  <2> QED BY <1>3, <2>2, <2>3, <2>4, <2>5 DEF Begun
<1>4. CASE RemovePicture(q)
  BY <1>4, Shapes DEF RemovePicture, TypeOK
<1>5. CASE DeletePicture(q)
  <2>1. PICK k \in request[q].left :
          request' = [request EXCEPT ![q].left = @ \ {k}, ![q].taken = @ \cup {k}]
    BY <1>5 DEF DeletePicture
  <2>2. request'[q].left = request[q].left \ {k} /\ request'[q].taken = request[q].taken \cup {k}
    BY <1>5, <2>1, Shapes DEF DeletePicture, TypeOK
  <2>3. Doing(q, "delete")
    BY <1>5 DEF DeletePicture
  <2> QED BY <1>1, <2>2, <2>3
<1>6. CASE Answered(q)
  BY <1>6 DEF Answered, Idle
<1> QED BY <1>2, <1>3, <1>4, <1>5, <1>6, RequestSteps

LEMMA HeldIsKeptNext ==
  ASSUME TypeOK, HeldIsKept, [Next]_vars
  PROVE  HeldIsKept'
<1> USE DEF HeldIsKept, Exists
<1>1. CASE Form
  BY <1>1 DEF Form, Submit, Create, CreateFails, Settle, Continue, productVars
<1>2. CASE Hold \/ UNCHANGED vars
  BY <1>2 DEF Hold, vars, productVars
<1>3. ASSUME NEW i \in Images,
             SendFromPage(i) \/ Uploading(i) \/ \E how \in {"refused", "unanswered"} : UploadFails(i, how)
      PROVE  HeldIsKept'
  BY <1>3 DEF SendFromPage, UploadFails, Uploading, FindProduct, Store, Measure, InsertRow, productVars
<1>4. ASSUME NEW r \in Requests,
             Begin(r) \/ Reorder(r) \/ RemovePicture(r) \/ RemoveRow(r) \/ DeletePicture(r) \/ RequestFails(r)
      PROVE  UNCHANGED <<status, held>>
  BY <1>4, Zenon DEF Begin, StartReorder, StartRemove, StartStatus, StartDelete, Start, productVars,
                     Reorder, RemovePicture, RemoveRow, DeletePicture, RequestFails
<1>5. ASSUME NEW r \in Requests, WriteStatus(r)
      PROVE  HeldIsKept'
  BY <1>5, Shapes DEF WriteStatus
<1>6. ASSUME NEW r \in Requests, DeleteRows(r)
      PROVE  HeldIsKept'
  BY <1>6 DEF DeleteRows, Restricted
<1> QED BY <1>1, <1>2, <1>3, <1>4, <1>5, <1>6 DEF Next, Finish

(* A picture that a request has taken from the store stays with that       *)
(* request until its row is gone or the removal is known to have failed.   *)
LEMMA TakenStays ==
  ASSUME TypeOK, [Next]_vars, NEW q \in Requests, NEW i \in Taken(q)
  PROVE  i \in Taken(q)' \/ i \in broken' \/ i \notin Rows'
<1> USE DEF Taken, Doing
<1>1. CASE request'[q] = request[q]
  BY <1>1
<1>2. CASE Begun(q)
  BY <1>2 DEF Begun, Idle
<1>3. CASE RemovePicture(q)
  BY <1>3 DEF RemovePicture
<1>4. CASE DeletePicture(q)
  <2>1. PICK k \in request[q].left :
          request' = [request EXCEPT ![q].left = @ \ {k}, ![q].taken = @ \cup {k}]
    BY <1>4 DEF DeletePicture
  <2>2. request'[q].does = "delete" /\ request'[q].taken = request[q].taken \cup {k}
    BY <1>4, <2>1, Shapes DEF DeletePicture, TypeOK
  <2>3. i \in request[q].taken
    BY <1>4 DEF DeletePicture
  <2> QED BY <2>2, <2>3
<1>5. CASE Reorder(q) \/ WriteStatus(q)
  BY <1>5 DEF Reorder, WriteStatus
<1>6. CASE RemoveRow(q)
  <2>1. i = request[q].image
    BY <1>6 DEF RemoveRow
  <2> QED BY <1>6, <2>1 DEF RemoveRow, Rows, TypeOK
<1>7. CASE DeleteRows(q)
  <2>1. i \in request[q].taken
    BY <1>7 DEF DeleteRows
  <2> QED BY <1>7, <2>1 DEF DeleteRows, Rows
<1>8. CASE RequestFails(q)
  BY <1>8 DEF RequestFails
<1> QED BY <1>1, <1>2, <1>3, <1>4, <1>5, <1>6, <1>7, <1>8, RequestSteps DEF Answered

LEMMA PictureBehindRowNext ==
  ASSUME TypeOK, StoredInTurn, PictureBehindRow, [Next]_vars
  PROVE  PictureBehindRow'
<1> SUFFICES ASSUME NEW i \in Images, i \in Rows', i \notin broken'
             PROVE  i \in stored' \/ \E r \in Requests : i \in Taken(r)'
  BY DEF PictureBehindRow, Rows
<1>1. CASE i \notin Rows
  <2>1. InsertRow(i)
    BY <1>1, RowsGrow
  <2> QED BY <2>1 DEF InsertRow, StoredInTurn
<1>2. CASE i \in Rows /\ i \in stored
  <2>1. ASSUME NEW r \in Requests, RemovePicture(r), i \notin stored'
        PROVE  i \in Taken(r)'
    <3>1. i = request[r].image /\ Doing(r, "remove")
      BY <1>2, <2>1 DEF RemovePicture
    <3>2. request'[r].does = "remove" /\ request'[r].gone /\ request'[r].image = i
      BY <2>1, <3>1, Shapes DEF RemovePicture, TypeOK
    <3> QED BY <3>2 DEF Taken, Doing
  <2>2. ASSUME NEW r \in Requests, DeletePicture(r), i \notin stored'
        PROVE  i \in Taken(r)'
    <3>1. PICK k \in request[r].left :
            /\ stored' = stored \ {k}
            /\ request' = [request EXCEPT ![r].left = @ \ {k}, ![r].taken = @ \cup {k}]
      BY <2>2 DEF DeletePicture
    <3>2. i = k
      BY <1>2, <2>2, <3>1
    <3>3. request'[r].does = "delete" /\ request'[r].taken = request[r].taken \cup {i}
      BY <2>2, <3>1, <3>2, Shapes DEF DeletePicture, TypeOK
    <3> QED BY <3>3 DEF Taken, Doing
  <2>3. ASSUME NEW j \in Images, Store(j)
        PROVE  i \in stored'
    BY <1>2, <2>3 DEF Store
  <2> QED BY <1>2, <2>1, <2>2, <2>3, StoreSteps
<1>3. CASE i \in Rows /\ i \notin stored
  <2>1. i \notin broken
    BY HistoryGrows
  <2>2. PICK q \in Requests : i \in Taken(q)
    BY <1>3, <2>1 DEF PictureBehindRow
  <2> QED BY <2>2, TakenStays
<1> QED BY <1>1, <1>2, <1>3

(* An upload ends with a row, or known to have failed. *)
LEMMA UnderWayStays ==
  ASSUME TypeOK, NotYet, StoredInTurn, [Next]_vars, NEW i \in Images, UnderWay(i), i \in stored
  PROVE  UnderWay(i)' \/ i \in loose' \/ i \in Rows'
<1> USE DEF TypeOK, UnderWay
<1>1. CASE UNCHANGED upload
  BY <1>1
<1>2. CASE Form \/ Hold \/ UNCHANGED vars
  BY <1>2 DEF Form, Submit, Create, CreateFails, Settle, Continue, Hold, vars, imageVars, Send, NotYet, Unsent
<1>3. ASSUME NEW j \in Images, SendFromPage(j) \/ Store(j) \/ Measure(j)
      PROVE  UnderWay(i)'
  BY <1>3 DEF SendFromPage, Send, Unsent, Store, Measure, To
<1>4. ASSUME NEW j \in Images, FindProduct(j)
      PROVE  UnderWay(i)'
  BY <1>4 DEF FindProduct, To, StoredInTurn
<1>5. ASSUME NEW j \in Images, InsertRow(j)
      PROVE  UnderWay(i)' \/ i \in loose' \/ i \in Rows'
  <2>1. CASE i # j
    BY <1>5, <2>1 DEF InsertRow, To
  <2>2. CASE i = j /\ Exists
    <3>1. upload[j].position # NoRow
      BY ReachedSize DEF NoRow
    <3>2. row'[i] # NoRow
      BY <1>5, <2>2, <3>1 DEF InsertRow
    <3> QED BY <3>2 DEF Rows
  <2>3. CASE i = j /\ ~Exists
    BY <1>5, <2>3 DEF InsertRow
  <2> QED BY <2>1, <2>2, <2>3
<1>6. ASSUME NEW j \in Images, \E how \in {"refused", "unanswered"} : UploadFails(j, how)
      PROVE  UnderWay(i)' \/ i \in loose'
  BY <1>6 DEF UploadFails, To
<1>7. ASSUME NEW r \in Requests, Begin(r) \/ Finish(r) \/ RequestFails(r)
      PROVE  UNCHANGED upload
  BY <1>7, Zenon DEF Begin, StartReorder, StartRemove, StartStatus, StartDelete, Start, imageVars,
                     Finish, Reorder, RemovePicture, RemoveRow, WriteStatus, DeletePicture,
                     DeleteRows, RequestFails
<1> QED BY <1>1, <1>2, <1>3, <1>4, <1>5, <1>6, <1>7 DEF Next, Uploading

(* A row goes after its picture has, or was known to be on its own. *)
LEMMA RowGoesLast ==
  ASSUME TypeOK, OnlyUploaded, TakenIsGone, NoneIsMissed, [Next]_vars,
         NEW i \in Images, i \in Rows, i \notin Rows'
  PROVE  i \notin stored \/ i \in loose
<1>1. ASSUME NEW j \in Images, InsertRow(j)
      PROVE  FALSE
  BY <1>1 DEF InsertRow, Rows, OnlyUploaded, Uploaded, TypeOK
<1>2. ASSUME NEW r \in Requests, Reorder(r)
      PROVE  FALSE
  <2>1. i \in ToSet(request[r].list) => PlaceIn(request[r].list, i) \in 1..Len(request[r].list)
    BY <1>2, PlaceInList DEF Reorder
  <2>2. Len(request[r].list) \in Int
    BY <1>2, ListShape, ReachedSize DEF Reorder
  <2>3. \/ row'[i] = row[i]
        \/ i \in ToSet(request[r].list) /\ row'[i] = PlaceIn(request[r].list, i) - 1
    BY <1>2, ReorderedRow DEF TypeOK
  <2> QED BY <2>1, <2>2, <2>3 DEF Rows, NoRow
<1>3. ASSUME NEW r \in Requests, RemoveRow(r)
      PROVE  i \notin stored
  <2>1. i = request[r].image
    BY <1>3 DEF RemoveRow, Rows, TypeOK
  <2>2. i \in Taken(r)
    BY <1>3, <2>1 DEF RemoveRow, Taken, Doing
  <2> QED BY <2>2 DEF TakenIsGone
<1>4. ASSUME NEW r \in Requests, DeleteRows(r)
      PROVE  i \notin stored \/ i \in loose
  <2>1. i \in request[r].taken \cup loose
    BY <1>4 DEF DeleteRows, NoneIsMissed
  <2>2. Taken(r) = request[r].taken
    BY <1>4 DEF DeleteRows, Taken, Doing
  <2> QED BY <2>1, <2>2 DEF TakenIsGone
<1>5. CASE UNCHANGED row
  BY <1>5 DEF Rows
<1> QED BY <1>1, <1>2, <1>3, <1>4, <1>5, RowSteps

LEMMA NoOrphansNext ==
  ASSUME TypeOK, NotYet, OnlyUploaded, StoredInTurn, TakenIsGone, NoneIsMissed, NoOrphans,
         TypeOK', [Next]_vars
  PROVE  NoOrphans'
<1> SUFFICES ASSUME NEW i \in Images, i \in stored', i \notin Rows'
             PROVE  UnderWay(i)' \/ i \in loose'
  BY DEF NoOrphans, TypeOK
<1>1. CASE i \notin stored
  BY <1>1, OnlyStoreStores DEF Store, To, UnderWay, TypeOK
<1>2. CASE i \in stored /\ i \in Rows
  BY <1>2, RowGoesLast, HistoryGrows
<1>3. CASE i \in stored /\ i \notin Rows
  BY <1>3, UnderWayStays, HistoryGrows DEF NoOrphans
<1> QED BY <1>1, <1>2, <1>3

-----------------------------------------------------------------------------
LEMMA Initially ==
  ASSUME Init
  PROVE  IInv
<1>1. \A i \in Images : upload[i] = Unsent /\ row[i] = NoRow
  BY DEF Init
<1>2. \A r \in Requests : request[r] = Idle
  BY DEF Init
<1>3. TypeOK
  <2>1. Cardinality(Images) \in Nat
    BY ImagesAreFinite, FS_CardinalityType
  <2>2. row \in [Images -> NoRow..Cardinality(Images)]
    BY <2>1 DEF Init, NoRow
  <2>3. upload \in [Images -> [at : {"unsent", "sent", "found", "stored", "measured", "done", "refused", "unanswered"},
                               position : 0..Cardinality(Images)]]
    BY <2>1 DEF Init, Unsent
  <2>4. request \in [Requests -> Doings]
    BY IdleIsDoing DEF Init
  <2>5. /\ form = "filling" /\ named = {} /\ created = 0 /\ status = "NONE"
        /\ dated = FALSE /\ held = FALSE /\ stored = {} /\ loose = {} /\ broken = {}
        /\ requests = 0 /\ failures = 0
    BY DEF Init
  <2>6. requests \in 0..MaxRequests /\ failures \in 0..MaxFailures /\ created \in 0..2
    BY <2>5, BoundsAreNumbers
  <2>7. dated \in BOOLEAN /\ held \in BOOLEAN
    BY <2>5
  <2> QED BY <2>2, <2>3, <2>4, <2>5, <2>6, <2>7, Zenon DEF TypeOK
<1>4. Rows = {} /\ Reached = {}
  BY <1>1 DEF Rows, Reached, Unsent
<1>5. Placed
  <2>1. Cardinality(Reached) = 0
    BY <1>4, FS_EmptySet
  <2>2. \A r \in Requests : Places(r) = 0
    BY <1>2 DEF Places, Doing, Idle
  <2>3. \A i \in Images : upload[i].position = 0 /\ row[i] = -1
    BY <1>1 DEF Unsent, NoRow
  <2> QED BY <1>4, <2>1, <2>2, <2>3 DEF Placed
<1>6. \A r \in Requests : Asked(r) = {} /\ Taken(r) = {}
  BY <1>2 DEF Asked, Taken, Doing, Idle
<1>7. NotYet /\ AtMostOne /\ FormKnows /\ HeldIsKept
  BY <1>1, <1>2 DEF Init, NotYet, AtMostOne, FormKnows, NoneDropped, HeldIsKept
<1>8. OnlyUploaded /\ StoredInTurn /\ TakenIsGone
  BY <1>1, <1>4, <1>6 DEF Init, OnlyUploaded, StoredInTurn, Unsent, TakenIsGone
<1>9. NoneIsMissed /\ PictureBehindRow /\ NoOrphans
  BY <1>2, <1>4 DEF Init, NoneIsMissed, Doing, Idle, PictureBehindRow, NoOrphans
<1> QED BY <1>3, <1>5, <1>7, <1>8, <1>9 DEF IInv

LEMMA Inductive ==
  ASSUME IInv, [Next]_vars
  PROVE  IInv'
<1> USE DEF IInv
<1>1. TypeOK'
  BY TypeNext
<1>2. NotYet' /\ AtMostOne' /\ FormKnows' /\ HeldIsKept'
  BY NotYetNext, FormKnowsNext, HeldIsKeptNext
<1>3. Placed' /\ OnlyUploaded' /\ StoredInTurn'
  BY <1>1, PlacedNext, OnlyUploadedNext, StoredInTurnNext
<1>4. TakenIsGone' /\ NoneIsMissed' /\ PictureBehindRow' /\ NoOrphans'
  BY <1>1, TakenIsGoneNext, NoneIsMissedNext, PictureBehindRowNext, NoOrphansNext
<1> QED BY <1>1, <1>2, <1>3, <1>4

LEMMA Invariance == Spec => []IInv
BY Initially, Inductive, PTL DEF Spec

(* Product, rows, uploads and requests always have the types the schema    *)
(* and the handlers give them; no position reaches the number of pictures. *)
THEOREM TypeCorrect == Spec => []TypeOK
<1>1. IInv => TypeOK
  BY DEF IInv
<1> QED BY <1>1, Invariance, PTL

(* A row without its picture is one that deleteImage or deleteProduct is   *)
(* about to remove, or whose removal failed after the store had deleted it.*)
THEOREM RowsHavePictures == Spec => []PictureBehindRow
<1>1. IInv => PictureBehindRow
  BY DEF IInv
<1> QED BY <1>1, Invariance, PTL

(* Neither deleteImage nor deleteProduct leaves a picture in the store that *)
(* no row points to; only uploads that fail or meet a deletion do.          *)
THEOREM NothingIsOrphaned == Spec => []NoOrphans
<1>1. IInv => NoOrphans
  BY DEF IInv
<1> QED BY <1>1, Invariance, PTL

(* deleteProduct never deletes what a cart or an order holds, out of date  *)
(* though the count is that it refuses by.                                 *)
THEOREM HeldProductsStay == Spec => []HeldIsKept
<1>1. IInv => HeldIsKept
  BY DEF IInv
<1> QED BY <1>1, Invariance, PTL

(* In every state the create form can be in, also when no fairness brings  *)
(* it there: open for another submission, it has made no product; without  *)
(* an answer, one at most; at its summary or off the page, exactly one,    *)
(* with every picture picked on it an image of the product or named.       *)
THEOREM NoneIsDropped ==
  Spec => [](/\ AtMostOne
             /\ form = "filling" => Refused
             /\ form = "stuck" => Unanswered
             /\ form \in {"summary", "left"} => Accounted)
<1>1. IInv => /\ AtMostOne
              /\ form = "filling" => Refused
              /\ form = "stuck" => Unanswered
              /\ form \in {"summary", "left"} => Accounted
  BY DEF IInv, NotYet, AtMostOne, FormKnows, NoneDropped, Refused, Unanswered, Accounted
<1> QED BY <1>1, Invariance, PTL
=============================================================================
