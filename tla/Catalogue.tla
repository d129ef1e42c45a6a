------------------------------ MODULE Catalogue ------------------------------
(***************************************************************************)
(* The life of one product: the create form that makes it and sends its    *)
(* images (apps/admin, create-product-form.tsx), and the image, status and *)
(* delete operations of AdminProductsService (apps/api, catalog).          *)
(*                                                                         *)
(* Pictures live in an external store, their rows in the database.  An     *)
(* operation that touches both does so in separate steps, reads what it    *)
(* decides by outside the transaction that writes, and may fail or die     *)
(* between any two of them.  Texts, categories, collections, options and   *)
(* prices are left out.                                                    *)
(***************************************************************************)
EXTENDS Integers, Sequences, FiniteSets, FiniteSetsExt, SequencesExt

CONSTANTS
  Images,       \* files of pictures; each is sent at most once
  Staged,       \* the ones picked on the create form
  Requests,     \* slots for the other requests of admins
  MaxRequests,  \* bound: requests in these slots
  MaxFailures   \* bound: requests that fail on the way

ASSUME StagedAreImages == Staged \subseteq Images
ASSUME ImagesAreFinite == IsFiniteSet(Images)
ASSUME BoundsAreNumbers == MaxRequests \in Nat /\ MaxFailures \in Nat

VARIABLES
  form,       \* the create form
  named,      \* the pictures its summary names as failed
  created,    \* products the form has made
  status,     \* Product.status, or NONE, or DELETED
  dated,      \* publishedAt is set
  held,       \* a cart or an order holds one of its variants
  stored,     \* pictures in the store
  row,        \* ProductImage.position, where there is a row
  upload,     \* each picture's upload request
  request,    \* what each slot is doing
  loose,      \* pictures whose upload failed, or met a deletion of the product (history)
  broken,     \* pictures whose removal failed after the store had deleted them (history)
  requests, failures

formVars == <<form, named, created>>
productVars == <<status, dated, held>>
imageVars == <<stored, row, upload, loose, broken>>
requestVars == <<request, requests>>
vars == <<formVars, productVars, imageVars, requestVars, failures>>

NoRow == -1
Rows == {i \in Images : row[i] # NoRow}
Exists == status \notin {"NONE", "DELETED"}
Idle == [does |-> "nothing"]

Failing == failures < MaxFailures /\ failures' = failures + 1

(***************************************************************************)
(* uploadImage: look for the product, store the picture, read the last     *)
(* position, insert the row                                                *)
(***************************************************************************)
Unsent == [at |-> "unsent", position |-> 0]
UnderWay(i) == upload[i].at \in {"sent", "found", "stored", "measured"}
To(i, at) == upload' = [upload EXCEPT ![i].at = at]

Send(images) ==
  upload' = [i \in Images |-> IF i \in images THEN [Unsent EXCEPT !.at = "sent"] ELSE upload[i]]

(* The dialog of the product's page sends one file after the other; another *)
(* page of the same product knows nothing of that.                          *)
SendFromPage(i) ==
  /\ Exists /\ i \notin Staged /\ upload[i] = Unsent
  /\ Send({i})
  /\ UNCHANGED <<formVars, productVars, stored, row, loose, broken, requestVars, failures>>

FindProduct(i) ==
  /\ upload[i].at = "sent"
  /\ To(i, IF Exists THEN "found" ELSE "refused")
  /\ UNCHANGED <<formVars, productVars, stored, row, loose, broken, requestVars, failures>>

\* Bug: an upload the store refused goes on.
StoreAnyway(i) ==
  /\ upload[i].at = "found"
  /\ To(i, "stored")
  /\ stored' \in {stored, stored \cup {i}}
  /\ UNCHANGED <<formVars, productVars, row, loose, broken, requestVars, failures>>

Store(i) ==
  /\ upload[i].at = "found"
  /\ To(i, "stored")
  /\ stored' = stored \cup {i}
  /\ UNCHANGED <<formVars, productVars, row, loose, broken, requestVars, failures>>

NextPosition == Max({row[i] : i \in Images} \cup {NoRow}) + 1

Measure(i) ==
  /\ upload[i].at = "stored"
  /\ upload' = [upload EXCEPT ![i] = [at |-> "measured", position |-> NextPosition]]
  /\ UNCHANGED <<formVars, productVars, stored, row, loose, broken, requestVars, failures>>

Deleting == \E r \in Requests : request[r].does = "delete"

(* The row refers to the product, so there is none to insert once it is gone. *)
InsertRow(i) ==
  /\ upload[i].at = "measured"
  /\ row' = [row EXCEPT ![i] = IF Exists THEN upload[i].position ELSE NoRow]
  /\ To(i, IF Exists THEN "done" ELSE "refused")
  /\ loose' = IF Deleting \/ ~Exists THEN loose \cup {i} ELSE loose
  /\ UNCHANGED <<formVars, productVars, stored, broken, requestVars, failures>>

(* The store or the database answers with an error, or the process dies and *)
(* the page never gets an answer.                                           *)
UploadFails(i, how) ==
  /\ UnderWay(i) /\ Failing
  /\ To(i, how)
  /\ loose' = loose \cup {i}
  /\ UNCHANGED <<formVars, productVars, stored, row, broken, requestVars>>

(***************************************************************************)
(* The create form                                                         *)
(***************************************************************************)
Submit ==
  /\ form = "filling" /\ created < 2
  /\ form' = "creating"
  /\ UNCHANGED <<named, created, productVars, imageVars, requestVars, failures>>

(* createProduct is one transaction; the form then sends every staged file *)
(* at once, or leaves for the product's page when there is none.           *)
Create ==
  /\ form = "creating"
  /\ created' = created + 1
  /\ status' = "DRAFT"
  /\ form' = IF Staged = {} THEN "left" ELSE "uploading"
  /\ Send(Staged)
  /\ UNCHANGED <<named, dated, held, stored, row, loose, broken, requestVars, failures>>

(* An error is shown on the form, which can be sent again; an exception is *)
(* not caught, and the form keeps its button disabled for good, whether or *)
(* not the product was created.                                            *)
CreateFails ==
  /\ form = "creating" /\ Failing
  /\ \/ form' = "filling" /\ UNCHANGED <<created, status>>
     \/ form' = "stuck" /\ UNCHANGED <<created, status>>
     \/ form' = "stuck" /\ created' = created + 1 /\ status' = "DRAFT"
  /\ UNCHANGED <<named, dated, held, imageVars, requestVars>>

\* Bug: only requests without any answer count as failed.
OnlyRejected == {i \in Staged : upload[i].at = "unanswered"}
FailedUploads == {i \in Staged : upload[i].at \in {"refused", "unanswered"}}

PageAfter(failed) == IF failed = {} THEN "left" ELSE "summary"

AllSettled == \A i \in Staged : ~UnderWay(i)
Settle ==
  /\ form = "uploading" /\ AllSettled
  /\ named' = FailedUploads
  /\ form' = PageAfter(FailedUploads)
  /\ UNCHANGED <<created, productVars, imageVars, requestVars, failures>>

Continue ==
  /\ form = "summary" /\ form' = "left"
  /\ UNCHANGED <<named, created, productVars, imageVars, requestVars, failures>>

(***************************************************************************)
(* Requests of two steps or more                                           *)
(***************************************************************************)
Start(r, doing) ==
  /\ request[r] = Idle /\ Exists /\ requests < MaxRequests
  /\ requests' = requests + 1
  /\ request' = [request EXCEPT ![r] = doing]
  /\ UNCHANGED <<formVars, productVars, stored, row, upload, loose, broken, failures>>
Doing(r, what) == request[r].does = what
Done(r) == request' = [request EXCEPT ![r] = Idle]

(* reorderImages: the list must be exactly the current one when it is read; *)
(* the transaction fails if a row has gone since.                           *)
StartReorder(r) ==
  \E list \in SetToSeqs(Rows) : Rows # {} /\ Start(r, [does |-> "reorder", list |-> list])
Reorder(r) ==
  /\ Doing(r, "reorder")
  /\ LET list == request[r].list  asked == ToSet(list) IN
     row' = IF asked \subseteq Rows
            THEN [i \in Images |-> IF i \in asked THEN (CHOOSE n \in DOMAIN list : list[n] = i) - 1
                                   ELSE row[i]]
            ELSE row
  /\ Done(r)
  /\ UNCHANGED <<formVars, productVars, stored, upload, loose, broken, requests, failures>>

(* deleteImage: the picture first, the row after. *)
StartRemove(r) == \E i \in Rows : Start(r, [does |-> "remove", image |-> i, gone |-> FALSE])
RemovePicture(r) ==
  /\ Doing(r, "remove") /\ ~request[r].gone
  /\ stored' = stored \ {request[r].image}
  /\ request' = [request EXCEPT ![r].gone = TRUE]
  /\ UNCHANGED <<formVars, productVars, row, upload, loose, broken, requests, failures>>
RemoveRow(r) ==
  /\ Doing(r, "remove") /\ request[r].gone
  /\ row' = [row EXCEPT ![request[r].image] = NoRow]
  /\ Done(r)
  /\ UNCHANGED <<formVars, productVars, stored, upload, loose, broken, requests, failures>>

LegalNextStates(from) ==
  CASE from = "DRAFT" -> {"PUBLISHED"}
    [] from = "PUBLISHED" -> {"ARCHIVED"}
    [] from = "ARCHIVED" -> {"PUBLISHED"}

SetsPublishedAt(from, to) == from = "DRAFT" /\ to = "PUBLISHED"

(* update: the status is checked as it was read and written unconditionally. *)
StartStatus(r) ==
  Exists /\ \E to \in LegalNextStates(status) : Start(r, [does |-> "status", from |-> status, to |-> to])
WriteStatus(r) ==
  /\ Doing(r, "status")
  /\ IF Exists
     THEN /\ status' = request[r].to
          /\ dated' = (dated \/ SetsPublishedAt(request[r].from, request[r].to))
     ELSE UNCHANGED <<status, dated>>
  /\ Done(r)
  /\ UNCHANGED <<formVars, held, imageVars, requests, failures>>

\* Bug: the pictures are left to the cascade.
NoPictures == {}
PicturesToDelete == Rows

(* deleteProduct: carts and orders are counted first, the pictures deleted *)
(* one by one, and the rows last.  Whether a row of a cart or an order     *)
(* still refers to the variants is for the foreign key to say.             *)
StartDelete(r) ==
  ~held /\ Start(r, [does |-> "delete", left |-> PicturesToDelete, taken |-> {}])
DeletePicture(r) ==
  /\ Doing(r, "delete")
  /\ \E i \in request[r].left :
       /\ stored' = stored \ {i}
       /\ request' = [request EXCEPT ![r].left = @ \ {i}, ![r].taken = @ \cup {i}]
  /\ UNCHANGED <<formVars, productVars, row, upload, loose, broken, requests, failures>>

\* Bug: items of carts and orders go with the variant.
Cascades == FALSE
Restricted == held

DeleteRows(r) ==
  /\ Doing(r, "delete") /\ request[r].left = {}
  /\ IF Restricted
     THEN broken' = broken \cup request[r].taken /\ UNCHANGED <<status, row>>
     ELSE status' = "DELETED" /\ row' = [i \in Images |-> NoRow] /\ UNCHANGED broken
  /\ Done(r)
  /\ UNCHANGED <<formVars, dated, held, stored, upload, loose, requests, failures>>

(* The store or the database fails, or the process dies. *)
Taken(r) == CASE Doing(r, "remove") -> IF request[r].gone THEN {request[r].image} ELSE {}
              [] Doing(r, "delete") -> request[r].taken
              [] OTHER -> {}
RequestFails(r) ==
  /\ request[r] # Idle /\ Failing
  /\ broken' = broken \cup Taken(r)
  /\ Done(r)
  /\ UNCHANGED <<formVars, productVars, stored, row, upload, loose, requests>>

(* A shopper who saw the product on sale adds it to a cart, or gives it up. *)
Hold ==
  /\ dated /\ Exists
  /\ held' = ~held
  /\ UNCHANGED <<formVars, status, dated, imageVars, requestVars, failures>>

-----------------------------------------------------------------------------
Init ==
  /\ form = "filling" /\ named = {} /\ created = 0
  /\ status = "NONE" /\ dated = FALSE /\ held = FALSE
  /\ stored = {} /\ row = [i \in Images |-> NoRow] /\ upload = [i \in Images |-> Unsent]
  /\ loose = {} /\ broken = {}
  /\ request = [r \in Requests |-> Idle] /\ requests = 0
  /\ failures = 0

Uploading(i) == FindProduct(i) \/ Store(i) \/ Measure(i) \/ InsertRow(i)
Form == Submit \/ Create \/ CreateFails \/ Settle \/ Continue
Begin(r) == StartReorder(r) \/ StartRemove(r) \/ StartStatus(r) \/ StartDelete(r)
Finish(r) == \/ Reorder(r) \/ RemovePicture(r) \/ RemoveRow(r) \/ WriteStatus(r)
             \/ DeletePicture(r) \/ DeleteRows(r)
Next == \/ Form \/ Hold
        \/ \E i \in Images : \/ SendFromPage(i) \/ Uploading(i)
                             \/ \E how \in {"refused", "unanswered"} : UploadFails(i, how)
        \/ \E r \in Requests : Begin(r) \/ Finish(r) \/ RequestFails(r)

Spec == Init /\ [][Next]_vars
(* A request that was sent is worked on until it is answered or fails. *)
FairSpec ==
  Spec /\ WF_vars(Create) /\ WF_vars(Settle) /\ \A i \in Images : WF_vars(Uploading(i))

-----------------------------------------------------------------------------
Doings ==
  {Idle} \cup [does : {"reorder"}, list : SeqOf(Images, Cardinality(Images))]
         \cup [does : {"remove"}, image : Images, gone : BOOLEAN]
         \cup [does : {"status"}, from : {"DRAFT", "PUBLISHED", "ARCHIVED"}, to : {"PUBLISHED", "ARCHIVED"}]
         \cup [does : {"delete"}, left : SUBSET Images, taken : SUBSET Images]
TypeOK ==
  /\ form \in {"filling", "creating", "uploading", "summary", "left", "stuck"}
  /\ named \subseteq Staged /\ created \in 0..2
  /\ status \in {"NONE", "DRAFT", "PUBLISHED", "ARCHIVED", "DELETED"}
  /\ dated \in BOOLEAN /\ held \in BOOLEAN
  /\ stored \subseteq Images /\ loose \subseteq Images /\ broken \subseteq Images
  /\ row \in [Images -> NoRow..Cardinality(Images)]
  /\ upload \in [Images -> [at : {"unsent", "sent", "found", "stored", "measured", "done", "refused", "unanswered"},
                            position : 0..Cardinality(Images)]]
  /\ request \in [Requests -> Doings]
  /\ requests \in 0..MaxRequests /\ failures \in 0..MaxFailures

(* Whatever overlaps, a row without its picture is one that a request is   *)
(* removing, or whose removal failed after the picture was deleted: the    *)
(* shop shows no image that was never stored (deleteImage, lines 367-373). *)
PictureBehindRow ==
  \A i \in Rows : i \in stored \/ i \in broken \/ \E r \in Requests : i \in Taken(r)

(* Nothing is left in the store that no row points to, unless its upload   *)
(* failed half-way or met the deletion of its product: neither deleting an *)
(* image nor a product orphans one ("nothing is orphaned in storage",      *)
(* admin-products.service.ts line 602).                                    *)
NoOrphans ==
  \A i \in stored \ Rows : UnderWay(i) \/ i \in loose

(* A product that a cart or an order holds is there, though the count that *)
(* deleteProduct refuses by may be out of date when it deletes.            *)
HeldIsKept == held => Exists

(* However the creation and the uploads are answered, a submission of the *)
(* create form comes to an end, and never with a second product            *)
(* ("resubmitting it would create a duplicate product"): refused, it has   *)
(* made none and may be sent again; without an answer, the form has made   *)
(* one at most and cannot be sent again; and after the creation every      *)
(* picture picked on it is an image of the one product or named in the     *)
(* summary, however many of them failed beside it.                         *)
Refused == form = "filling" /\ created = 0
Unanswered == form = "stuck" /\ created <= 1
Accounted == /\ form \in {"summary", "left"} /\ created = 1
             /\ \A i \in Staged : upload[i].at = "done" \/ i \in named
NoneForgotten == form = "creating" ~> Refused \/ Unanswered \/ Accounted
=============================================================================
