-------------------------- MODULE PromotionsProofs --------------------------
(***************************************************************************)
(* What the advisory locks and the overlap check of PromotionsService      *)
(* guarantee, for any number of promotions, variants and requests: as long *)
(* as no promotion is changed by two requests at once, no variant has two  *)
(* promotions in effect and the EXCLUDE constraint has nothing to refuse.  *)
(***************************************************************************)
EXTENDS Promotions, FiniteSetTheorems, WellFoundedInduction, TLAPS

(* Past the overlap check; the request holds the locks of its variants.    *)
Writing(r) == req[r].step \in {"delete", "write"}
AtWork(r) == req[r].step \notin {"idle", "done"}

InOrder(r) ==
  /\ AtWork(r) => req[r].id \in Ids
  /\ req[r].step = "lock" => req[r].variants \subseteq req[r].scope
  /\ req[r].step \in {"lock", "delete", "write"} => ValidRange(req[r].terms)
  /\ Writing(r) => \A v \in req[r].variants : lock[v] = r

(* A promotion that is not stored yet has one creator.                     *)
Creator(r) ==
  req[r].id \in Ids \ made =>
    /\ req[r].step \in {"lock", "write"}
    /\ \A q \in Requests \ {r} : req[q].id # req[r].id

(* Who works on a promotion that was not raced works on it alone, and is   *)
(* to delete every row there is before it writes its own.                  *)
Alone(r) ==
  Serving(r) /\ req[r].id \notin raced =>
    /\ \A q \in Requests \ {r} : Serving(q) => req[q].id # req[r].id
    /\ req[r].step = "write" => Left(r, req[r].id) = {}

(* What the overlap check found still holds when the request writes.       *)
StillFree(r) ==
  Writing(r) /\ req[r].terms.active =>
    \A p \in (made \ raced) \ {req[r].id} :
      promo[p].active /\ Applied(p) \cap req[r].variants # {} => ~RangesOverlap(req[r].terms, promo[p])

NotRefused(r) == req[r].end \in {"excluded", "failed"} => raced # {}

Fine(r) == InOrder(r) /\ Creator(r) /\ Alone(r) /\ StillFree(r) /\ NotRefused(r)

(* What OneEffectivePrice says, for periods instead of moments.            *)
Apart ==
  \A p, q \in made \ raced :
    p # q /\ promo[p].active /\ promo[q].active /\ Applied(p) \cap Applied(q) # {}
      => ~RangesOverlap(promo[p], promo[q])

NewOnesAreEmpty == \A p \in Ids \ made : Applied(p) = {}

IInv == /\ TypeOK /\ NewOnesAreEmpty /\ Apart /\ SnapshotsAgree /\ DatesInOrder
        /\ \A r \in Requests : Fine(r)

(* What every step keeps but the writing of a promotion's rows.            *)
Quiet(r) ==
  /\ req' \in [Requests -> RequestRecords]
  /\ \A q \in Requests \ {r} : req'[q] = req[q]
  /\ UNCHANGED <<promo, made, rows>>
  /\ raced \subseteq raced' /\ raced' \subseteq Ids
  /\ lock' \in [Variants -> Requests \cup {NoRequest}]
  /\ \A v \in Variants : lock[v] # NoRequest /\ lock[v] # r => lock'[v] = lock[v]

-----------------------------------------------------------------------------
(* Operators *)
LEMMA Bounds == Starts \subseteq Int /\ Stops \subseteq Int /\ 0 \in Starts /\ End \in Stops
BY EndIsATime DEF Starts, Stops, Beginning

LEMMA IdleType == Idle \in RequestRecords /\ NoEdit \in Names /\ NoTerms \in Terms
<1>1. NoTerms \in Terms
  BY Bounds DEF NoTerms, Terms, Beginning
<1>2. NoEdit \in Names
  BY DEF NoEdit, Names
<1> QED BY <1>1, <1>2 DEF Idle, RequestRecords, Steps, Ends

LEMMA EndedFields ==
  ASSUME NEW how \in Ends
  PROVE  /\ Ended(how) \in RequestRecords
         /\ Ended(how).step = "done" /\ Ended(how).id = NoId /\ Ended(how).end = how
<1>1. Ended(how) = [Idle EXCEPT !.step = "done", !.end = how]
  BY DEF Ended
<1>2. Idle.id = NoId
  BY DEF Idle
<1> QED BY <1>1, <1>2, IdleType DEF RequestRecords, Steps

LEMMA RequestType ==
  ASSUME TypeOK, NEW r \in Requests
  PROVE  /\ req[r] \in RequestRecords
         /\ req[r].step \in Steps /\ req[r].id \in Ids \cup {NoId} /\ req[r].edit \in Names
         /\ req[r].terms \in Terms /\ req[r].variants \subseteq Variants
         /\ req[r].scope \subseteq Variants /\ req[r].end \in Ends
BY DEF TypeOK, RequestRecords

LEMMA MergedType ==
  ASSUME NEW e \in Names, NEW t \in Terms
  PROVE  Merged(e, t) \in Terms
BY DEF Merged, Or, Terms, Names

LEMMA AppliedType ==
  ASSUME NEW p
  PROVE  Applied(p) \subseteq Variants
BY DEF Applied

(* A request that ends lets go of its locks, and of those only. *)
LEMMA FinishIsQuiet ==
  ASSUME TypeOK, NEW r \in Requests, NEW how \in Ends, Finish(r, how)
  PROVE  /\ req' \in [Requests -> RequestRecords] /\ req'[r] = Ended(how)
         /\ \A q \in Requests \ {r} : req'[q] = req[q]
         /\ lock' \in [Variants -> Requests \cup {NoRequest}]
         /\ \A v \in Variants : lock[v] # r => lock'[v] = lock[v]
BY EndedFields DEF Finish, Released, TypeOK

(* A request that has ended has nothing left to keep right. *)
LEMMA DoneIsFine ==
  ASSUME NEW r \in Requests, req'[r].step = "done", req'[r].id = NoId,
         req'[r].end \in {"excluded", "failed"} => raced' # {}
  PROVE  Fine(r)'
BY NullsAreFresh DEF Fine, InOrder, Creator, Alone, StillFree, NotRefused, AtWork, Writing, Serving

-----------------------------------------------------------------------------
(* Steps that write no rows *)
LEMMA QuietKeeps ==
  ASSUME IInv, NEW r \in Requests, Quiet(r), Fine(r)'
  PROVE  IInv'
<1>1. TypeOK'
  BY DEF IInv, TypeOK, Quiet
<1>2. NewOnesAreEmpty' /\ DatesInOrder'
  BY DEF IInv, Quiet, NewOnesAreEmpty, DatesInOrder, Applied
<1>3. Apart'
  BY DEF IInv, Quiet, Apart, Applied, RangesOverlap
<1>4. SnapshotsAgree'
  BY DEF IInv, Quiet, SnapshotsAgree, Applied
<1>5. ASSUME NEW q \in Requests, q # r
      PROVE  Fine(q)'
  <2>1. Fine(q) /\ req'[q] = req[q]
    BY <1>5 DEF IInv, Quiet
  <2>2. InOrder(q)'
    <3>1. Writing(q) => \A v \in req[q].variants : lock'[v] = q
      BY <2>1, <1>5, NullsAreFresh, RequestType DEF IInv, Quiet, Fine, InOrder
    <3> QED BY <2>1, <3>1 DEF Fine, InOrder, AtWork, Writing, ValidRange
  <2>3. Creator(q)'
    <3>1. req'[q].id \in Ids \ made' => req'[r].id # req'[q].id
      BY <1>5 DEF Fine, Creator
    <3>2. \A s \in Requests \ {q} : s # r => req'[s] = req[s]
      BY DEF Quiet
    <3> QED BY <2>1, <3>1, <3>2 DEF Fine, Creator, Quiet
  <2>4. Alone(q)'
    <3>1. Serving(q)' /\ req'[q].id \notin raced' /\ Serving(r)' => req'[r].id # req'[q].id
      BY <1>5 DEF Fine, Alone
    <3>2. Left(q, req[q].id)' = Left(q, req[q].id)
      BY <2>1 DEF Left, Applied, Quiet
    <3>3. \A s \in Requests : s # r => req'[s] = req[s]
      BY DEF Quiet
    <3>4. raced \subseteq raced'
      BY DEF Quiet
    <3> QED BY <2>1, <3>1, <3>2, <3>3, <3>4 DEF Fine, Alone, Serving, Left
  <2>5. StillFree(q)'
    BY <2>1 DEF Fine, StillFree, Quiet, Writing, Applied, RangesOverlap
  <2>6. NotRefused(q)'
    BY <2>1 DEF Fine, NotRefused, Quiet
  <2> QED BY <2>2, <2>3, <2>4, <2>5, <2>6 DEF Fine
<1> QED BY <1>1, <1>2, <1>3, <1>4, <1>5 DEF IInv

(* A step that only sets its own request, and may count it as racing. *)
LEMMA SetsIsQuiet ==
  ASSUME TypeOK, NEW r \in Requests, NEW new \in RequestRecords,
         req' = [req EXCEPT ![r] = new], UNCHANGED <<promo, made, rows, lock>>,
         raced \subseteq raced' /\ raced' \subseteq Ids
  PROVE  Quiet(r) /\ req'[r] = new
BY DEF Quiet, TypeOK

LEMMA CreateKeeps ==
  ASSUME IInv, NEW r \in Requests, NEW p \in Ids, NEW d \in Drafts, Create(r, p, d)
  PROVE  IInv'
<1> DEFINE new == [req[r] EXCEPT !.step = "lock", !.id = p, !.terms = TermsOf(d),
                                 !.variants = d.variants, !.scope = d.variants]
<1>1. /\ p \notin made /\ ValidRange(d) /\ req' = [req EXCEPT ![r] = new]
      /\ UNCHANGED <<promo, made, rows, lock, raced>>
      /\ \A q \in Requests : req[q].id # p
  BY DEF Create, ValidDraft
<1>2. d \in Sheets /\ TermsOf(d) \in Terms /\ ValidRange(TermsOf(d))
  BY <1>1, DraftsAreSheets DEF Sheets, Terms, TermsOf, ValidRange
<1>3. req[r] \in RequestRecords
  BY RequestType DEF IInv
<1>4. /\ new \in RequestRecords /\ new.step = "lock" /\ new.id = p /\ new.terms = TermsOf(d)
      /\ new.variants = new.scope /\ new.end = req[r].end
  BY <1>2, <1>3 DEF RequestRecords, Sheets, Steps
<1> HIDE DEF new
<1>5. Quiet(r) /\ req'[r] = new
  BY <1>1, <1>4, SetsIsQuiet DEF IInv, TypeOK
<1>6. Fine(r)'
  <2>1. InOrder(r)' /\ StillFree(r)'
    BY <1>2, <1>4, <1>5 DEF InOrder, StillFree, AtWork, Writing
  <2>2. Creator(r)' /\ Alone(r)'
    BY <1>1, <1>4, <1>5 DEF Creator, Alone, Quiet
  <2>3. NotRefused(r)'
    BY <1>1, <1>4, <1>5 DEF NotRefused, IInv, Fine
  <2> QED BY <2>1, <2>2, <2>3 DEF Fine
<1> QED BY <1>5, <1>6, QuietKeeps

LEMMA OpenFormKeeps ==
  ASSUME IInv, NEW r \in Requests, NEW p \in Ids, OpenForm(r, p)
  PROVE  IInv'
<1> DEFINE new == [req[r] EXCEPT !.step = "form", !.id = p, !.terms = promo[p], !.variants = Applied(p)]
<1>1. p \in made /\ req' = [req EXCEPT ![r] = new] /\ UNCHANGED <<promo, made, rows, lock, raced>>
  BY DEF OpenForm
<1>2. req[r] \in RequestRecords /\ promo[p] \in Terms /\ Applied(p) \subseteq Variants
  BY RequestType, AppliedType DEF IInv, TypeOK
<1>3. new \in RequestRecords /\ new.step = "form" /\ new.id = p /\ new.end = req[r].end
  BY <1>2 DEF RequestRecords, Steps
<1> HIDE DEF new
<1>4. Quiet(r) /\ req'[r] = new
  BY <1>1, <1>3, SetsIsQuiet DEF IInv, TypeOK
<1>5. Fine(r)'
  BY <1>1, <1>3, <1>4 DEF IInv, Fine, InOrder, Creator, Alone, StillFree, NotRefused, AtWork, Writing, Serving
<1> QED BY <1>4, <1>5, QuietKeeps

(* A request that starts to work on a stored promotion, or is refused. *)
LEMMA ArrivalIsFine ==
  ASSUME IInv, NEW r \in Requests, Quiet(r), NEW p \in made, Arrives(r, p),
         \/ req'[r] = Ended("invalid") \/ req'[r] = Ended("missing")
         \/ req'[r].step = "read" /\ req'[r].id = p /\ req'[r].end = req[r].end
  PROVE  IInv'
<1>1. CASE req'[r] = Ended("invalid") \/ req'[r] = Ended("missing")
  <2>1. req'[r].step = "done" /\ req'[r].id = NoId /\ req'[r].end \notin {"excluded", "failed"}
    BY <1>1, EndedFields DEF Ends
  <2> QED BY <2>1, DoneIsFine, QuietKeeps
<1>2. CASE req'[r].step = "read" /\ req'[r].id = p /\ req'[r].end = req[r].end
  <2>1. p \in Ids /\ made' = made
    BY DEF IInv, TypeOK, Quiet
  <2>2. InOrder(r)' /\ StillFree(r)' /\ Creator(r)'
    BY <1>2, <2>1 DEF InOrder, StillFree, Creator, AtWork, Writing
  <2>3. NotRefused(r)'
    BY <1>2 DEF IInv, Fine, NotRefused, Quiet
  <2>4. p \notin raced' => \A q \in Requests \ {r} : Serving(q) => req[q].id # p
    BY <2>1 DEF Arrives, OthersOn
  <2>5. Alone(r)'
    BY <1>2, <2>4 DEF Alone, Serving, Quiet
  <2> QED BY <2>2, <2>3, <2>5, QuietKeeps DEF Fine
<1> QED BY <1>1, <1>2

LEMMA RacedGrows ==
  ASSUME TypeOK, NEW r \in Requests, NEW p \in Ids, Arrives(r, p)
  PROVE  raced \subseteq raced' /\ raced' \subseteq Ids
BY DEF Arrives, TypeOK

LEMMA SaveFormKeeps ==
  ASSUME IInv, NEW r \in Requests, NEW e \in Edits, SaveForm(r, e)
  PROVE  IInv'
<1> DEFINE terms == Merged(e, req[r].terms)
           variants == Or(e.variants, req[r].variants)
           form == [active |-> terms.active, from |-> terms.from, to |-> terms.to, variants |-> variants]
           new == IF ~ValidRange(terms) THEN Ended("invalid")
                  ELSE [req[r] EXCEPT !.step = "read", !.edit = form]
<1>1. /\ req[r].step = "form" /\ req' = [req EXCEPT ![r] = new]
      /\ Arrives(r, req[r].id) /\ UNCHANGED <<promo, made, rows, lock>>
  BY DEF SaveForm
<1>2. req[r] \in RequestRecords /\ e \in Names /\ terms \in Terms /\ variants \in SUBSET Variants
  BY RequestType, MergedType, EditsNameFields DEF IInv, Or, Names
<1>3. form \in Names
  BY <1>2 DEF Names, Terms
<1>4. /\ new \in RequestRecords
      /\ new = Ended("invalid") \/ (new.step = "read" /\ new.id = req[r].id /\ new.end = req[r].end)
  BY <1>2, <1>3, EndedFields DEF RequestRecords, Steps, Ends
<1> HIDE DEF new
<1>5. req[r].id \in made /\ req[r].id \in Ids
  BY <1>1 DEF IInv, Fine, InOrder, Creator, AtWork
<1>6. Quiet(r) /\ req'[r] = new
  BY <1>1, <1>4, <1>5, SetsIsQuiet, RacedGrows DEF IInv
<1> QED BY <1>1, <1>4, <1>5, <1>6, ArrivalIsFine

LEMMA RemoveVariantKeeps ==
  ASSUME IInv, NEW r \in Requests, NEW p \in Ids, NEW v \in Variants, RemoveVariant(r, p, v)
  PROVE  IInv'
<1> DEFINE remaining == Applied(p) \ {v}
           edit == [NoEdit EXCEPT !.variants = remaining, !.active = IF remaining = {} THEN FALSE ELSE Keep]
           new == IF v \notin Applied(p) THEN Ended("missing")
                  ELSE [req[r] EXCEPT !.step = "read", !.id = p, !.edit = edit]
<1>1. /\ p \in made /\ req' = [req EXCEPT ![r] = new]
      /\ Arrives(r, p) /\ UNCHANGED <<promo, made, rows, lock>>
  BY DEF RemoveVariant
<1>2. req[r] \in RequestRecords /\ remaining \in SUBSET Variants /\ NoEdit \in Names
  BY RequestType, AppliedType, IdleType DEF IInv
<1>3. edit \in Names
  BY <1>2 DEF Names
<1>4. /\ new \in RequestRecords
      /\ new = Ended("missing") \/ (new.step = "read" /\ new.id = p /\ new.end = req[r].end)
  BY <1>2, <1>3, EndedFields DEF RequestRecords, Steps, Ends
<1> HIDE DEF new
<1>5. Quiet(r) /\ req'[r] = new
  BY <1>1, <1>4, SetsIsQuiet, RacedGrows DEF IInv
<1> QED BY <1>1, <1>4, <1>5, ArrivalIsFine

LEMMA ReadExistingKeeps ==
  ASSUME IInv, NEW r \in Requests, ReadExisting(r)
  PROVE  IInv'
<1> DEFINE p == req[r].id
           terms == Merged(req[r].edit, promo[p])
           set == Or(req[r].edit.variants, Applied(p))
           new == IF ~ValidRange(terms) THEN Ended("invalid")
                  ELSE [req[r] EXCEPT !.step = "lock", !.edit = NoEdit, !.terms = terms, !.variants = set,
                                      !.scope = Applied(p) \cup set]
<1>1. /\ req[r].step = "read" /\ req' = [req EXCEPT ![r] = new]
      /\ UNCHANGED <<promo, made, rows, lock, raced>>
  BY DEF ReadExisting
<1>2. Fine(r) /\ p \in made /\ p \in Ids
  BY <1>1 DEF IInv, Fine, InOrder, Creator, AtWork
<1>3. /\ req[r] \in RequestRecords /\ terms \in Terms /\ set \in SUBSET Variants
      /\ Applied(p) \cup set \in SUBSET Variants /\ set \subseteq Applied(p) \cup set
  <2>1. req[r] \in RequestRecords /\ req[r].edit \in Names /\ promo[p] \in Terms /\ Applied(p) \subseteq Variants
    BY <1>2, RequestType, AppliedType DEF IInv, TypeOK
  <2> QED BY <2>1, MergedType DEF Or, Names
<1>4. /\ new \in RequestRecords
      /\ new = Ended("invalid")
         \/ /\ new.step = "lock" /\ new.id = p /\ new.end = req[r].end
            /\ new.variants \subseteq new.scope /\ ValidRange(new.terms)
  <2>1. CASE ValidRange(terms)
    <3> HIDE DEF terms, set
    <3> QED BY <1>3, <2>1, IdleType DEF RequestRecords, Steps
  <2>2. CASE ~ValidRange(terms)
    BY <2>2, EndedFields DEF Ends
  <2> QED BY <2>1, <2>2
<1> HIDE DEF new
<1>5. Quiet(r) /\ req'[r] = new
  BY <1>1, <1>4, SetsIsQuiet DEF IInv, TypeOK
<1>6. CASE new = Ended("invalid")
  <2>1. req'[r].step = "done" /\ req'[r].id = NoId /\ req'[r].end \notin {"excluded", "failed"}
    BY <1>5, <1>6, EndedFields DEF Ends
  <2> QED BY <1>5, <2>1, DoneIsFine, QuietKeeps
<1>7. CASE /\ new.step = "lock" /\ new.id = p /\ new.end = req[r].end
           /\ new.variants \subseteq new.scope /\ ValidRange(new.terms)
  <2>1. InOrder(r)' /\ StillFree(r)' /\ Creator(r)'
    BY <1>1, <1>2, <1>5, <1>7 DEF InOrder, StillFree, Creator, AtWork, Writing
  <2>2. NotRefused(r)'
    BY <1>1, <1>2, <1>5, <1>7 DEF Fine, NotRefused
  <2>3. Alone(r)'
    BY <1>1, <1>2, <1>5, <1>7 DEF Fine, Alone, Serving, Quiet
  <2> QED BY <1>5, <2>1, <2>2, <2>3, QuietKeeps DEF Fine
<1> QED BY <1>4, <1>6, <1>7

LEMMA LockVariantKeeps ==
  ASSUME IInv, NEW r \in Requests, LockVariant(r)
  PROVE  IInv'
<1>1. /\ req[r].step = "lock" /\ lock' = [lock EXCEPT ![NextToLock(r)] = r]
      /\ lock[NextToLock(r)] = NoRequest /\ UNCHANGED <<promo, made, rows, req, raced>>
  BY DEF LockVariant, Free
<1>2. Quiet(r)
  BY <1>1 DEF IInv, TypeOK, Quiet
<1>3. Fine(r)'
  <2>1. Fine(r) /\ ~Writing(r)
    BY <1>1 DEF IInv, Writing
  <2>2. InOrder(r)' /\ StillFree(r)' /\ NotRefused(r)'
    BY <1>1, <2>1 DEF Fine, InOrder, StillFree, NotRefused, AtWork, Writing
  <2>3. Creator(r)' /\ Alone(r)'
    BY <1>1, <2>1 DEF Fine, Creator, Alone, Serving
  <2> QED BY <2>2, <2>3 DEF Fine
<1> QED BY <1>2, <1>3, QuietKeeps

LEMMA CheckConflictsKeeps ==
  ASSUME IInv, NEW r \in Requests, CheckConflicts(r)
  PROVE  IInv'
<1>1. /\ req[r].step = "lock" /\ Wanted(r) = {} /\ Fine(r)
      /\ UNCHANGED <<promo, made, rows, raced>>
  BY DEF CheckConflicts, IInv
<1>2. CASE req[r].terms.active /\ Conflicts(r) # {}
  <2>1. Finish(r, "conflict") /\ "conflict" \in Ends
    BY <1>2 DEF CheckConflicts, Ends
  <2>2. Quiet(r) /\ req'[r] = Ended("conflict")
    BY <1>1, <2>1, FinishIsQuiet DEF IInv, TypeOK, Quiet
  <2>3. Fine(r)'
    BY <2>1, <2>2, DoneIsFine, EndedFields
  <2> QED BY <2>2, <2>3, QuietKeeps
<1>3. CASE ~(req[r].terms.active /\ Conflicts(r) # {})
  <2> DEFINE new == [req[r] EXCEPT !.scope = {}, !.step = IF req[r].id \in made THEN "delete" ELSE "write"]
  <2>1. req' = [req EXCEPT ![r] = new] /\ UNCHANGED lock
    BY <1>3 DEF CheckConflicts
  <2>2. req[r] \in RequestRecords
    BY RequestType DEF IInv
  <2>3. /\ new \in RequestRecords /\ new.step = IF req[r].id \in made THEN "delete" ELSE "write"
        /\ new.id = req[r].id /\ new.terms = req[r].terms /\ new.variants = req[r].variants
        /\ new.end = req[r].end
    BY <2>2 DEF RequestRecords, Steps
  <2> HIDE DEF new
  <2>4. Quiet(r) /\ req'[r] = new
    BY <1>1, <2>1, <2>3, SetsIsQuiet DEF IInv, TypeOK
  <2>5. InOrder(r)'
    <3>1. \A v \in req[r].scope : lock[v] = r
      BY <1>1, RequestType DEF Wanted, Held, IInv
    <3>2. req[r].variants \subseteq req[r].scope /\ ValidRange(req[r].terms) /\ req[r].id \in Ids
      BY <1>1 DEF Fine, InOrder, AtWork
    <3> QED BY <2>1, <2>3, <2>4, <3>1, <3>2 DEF InOrder, AtWork, Writing
  <2>6. Creator(r)'
    BY <1>1, <2>3, <2>4 DEF Fine, Creator, Quiet
  <2>7. Alone(r)'
    <3>1. req[r].id \in Ids /\ (req[r].id \notin made => Applied(req[r].id) = {})
      BY <1>1 DEF Fine, InOrder, AtWork, IInv, NewOnesAreEmpty
    <3>2. Applied(req[r].id)' = Applied(req[r].id)
      BY <1>1, <2>3, <2>4 DEF Applied
    <3>3. new.step = "write" => Left(r, req[r].id)' = {}
      BY <2>3, <3>1, <3>2 DEF Left
    <3>4. req[r].id \notin raced => \A q \in Requests \ {r} : Serving(q) => req[q].id # req[r].id
      BY <1>1 DEF Fine, Alone, Serving
    <3> QED BY <1>1, <2>3, <2>4, <3>3, <3>4 DEF Alone, Serving, Quiet
  <2>8. StillFree(r)'
    <3>1. req[r].terms.active =>
            \A p \in made \ {req[r].id} :
              promo[p].active /\ Applied(p) \cap req[r].variants # {} => ~RangesOverlap(req[r].terms, promo[p])
      BY <1>3 DEF Conflicts
    <3> QED BY <1>1, <2>3, <2>4, <3>1 DEF StillFree, Applied, RangesOverlap
  <2>9. NotRefused(r)'
    BY <1>1, <2>3, <2>4 DEF Fine, NotRefused
  <2> QED BY <2>4, <2>5, <2>6, <2>7, <2>8, <2>9, QuietKeeps DEF Fine
<1> QED BY <1>2, <1>3

LEMMA DeleteRowsKeeps ==
  ASSUME IInv, NEW r \in Requests, DeleteRows(r)
  PROVE  IInv'
<1> DEFINE new == [req[r] EXCEPT !.step = "write", !.doomed = Seen(req[r].id)]
<1>1. /\ req[r].step = "delete" /\ Fine(r) /\ req' = [req EXCEPT ![r] = new]
      /\ UNCHANGED <<promo, made, rows, lock, raced>>
  BY DEF DeleteRows, IInv
<1>2. req[r] \in RequestRecords /\ req[r].id \in made
  BY <1>1, RequestType DEF IInv, Fine, InOrder, Creator, AtWork
<1>3. Seen(req[r].id) \in SUBSET (Variants \X (Requests \cup {NoRequest}))
  BY <1>2 DEF Seen, Applied, IInv, TypeOK, Snapshots
<1>4. /\ new \in RequestRecords /\ new.step = "write" /\ new.doomed = Seen(req[r].id)
      /\ new.id = req[r].id /\ new.terms = req[r].terms /\ new.variants = req[r].variants
      /\ new.end = req[r].end
  BY <1>2, <1>3 DEF RequestRecords, Steps
<1> HIDE DEF new
<1>5. Quiet(r) /\ req'[r] = new
  BY <1>1, <1>4, SetsIsQuiet DEF IInv, TypeOK
<1>6. InOrder(r)' /\ Creator(r)' /\ StillFree(r)' /\ NotRefused(r)'
  BY <1>1, <1>2, <1>4, <1>5 DEF Fine, InOrder, Creator, StillFree, NotRefused, AtWork, Writing, Applied
<1>7. Left(r, req[r].id)' = {}
  BY <1>1, <1>4, <1>5 DEF Left, Applied, Seen
<1>8. Alone(r)'
  BY <1>1, <1>4, <1>5, <1>7 DEF Fine, Alone, Serving, Quiet, Left
<1> QED BY <1>5, <1>6, <1>8, QuietKeeps DEF Fine

-----------------------------------------------------------------------------
(* The step that writes a promotion and its rows *)

(* It is refused only where two requests changed one promotion. *)
LEMMA RefusedOnlyIfRaced ==
  ASSUME IInv, NEW r \in Requests, req[r].step = "write", Duplicate(r) \/ Excluded(r)
  PROVE  raced # {}
<1> SUFFICES ASSUME raced = {}
             PROVE  FALSE
  OBVIOUS
<1>1. Fine(r) /\ req[r].id \in Ids
  BY DEF IInv, Fine, InOrder, AtWork
<1>2. Left(r, req[r].id) = {}
  BY <1>1 DEF Fine, Alone, Serving
<1>3. Excluded(r)
  BY <1>2 DEF Duplicate
<1>4. PICK p \in Ids, v \in req[r].variants : v \in Left(r, p) /\ rows[p][v].active /\ RangesOverlap(req[r].terms, rows[p][v])
  BY <1>3 DEF Excluded
<1>5. v \in Applied(p) /\ p # req[r].id
  BY <1>2, <1>4 DEF Left
<1>6. p \in made
  BY <1>5 DEF IInv, NewOnesAreEmpty
<1>7. promo[p] = [active |-> rows[p][v].active, from |-> rows[p][v].from, to |-> rows[p][v].to]
  BY <1>5, AppliedType DEF IInv, SnapshotsAgree
<1>8. promo[p].active /\ RangesOverlap(req[r].terms, promo[p])
  BY <1>4, <1>7 DEF RangesOverlap
<1> QED BY <1>1, <1>3, <1>5, <1>6, <1>8 DEF Fine, StillFree, Writing, Excluded

(* What a promotion's rows are once its request has written them. *)
LEMMA WrittenRows ==
  ASSUME IInv, NEW r \in Requests, req[r].step = "write",
         rows' = [rows EXCEPT ![req[r].id] = Rewritten(r)]
  PROVE  /\ rows' \in [Ids -> [Variants -> Snapshots \cup {NoRow}]]
         /\ \A p \in Ids \ {req[r].id} : rows'[p] = rows[p] /\ Applied(p)' = Applied(p)
         /\ \A p \in Ids \ raced : p = req[r].id =>
              /\ Applied(p)' = req[r].variants
              /\ \A v \in req[r].variants : rows'[p][v] = Snapshot(r)
<1>1. Fine(r) /\ req[r].id \in Ids /\ req[r].variants \subseteq Variants
  BY RequestType DEF IInv, Fine, InOrder, AtWork
<1>2. Snapshot(r) \in Snapshots
  BY RequestType DEF IInv, Snapshot, Snapshots, Terms
<1>3. Rewritten(r) \in [Variants -> Snapshots \cup {NoRow}]
  BY <1>1, <1>2 DEF Rewritten, Left, Applied, IInv, TypeOK
<1>4. rows'[req[r].id] = Rewritten(r) /\ \A p \in Ids \ {req[r].id} : rows'[p] = rows[p]
  BY <1>1 DEF IInv, TypeOK
<1>5. rows' \in [Ids -> [Variants -> Snapshots \cup {NoRow}]]
  BY <1>1, <1>3 DEF IInv, TypeOK
<1>6. ASSUME NEW p \in Ids \ raced, p = req[r].id
      PROVE  /\ Applied(p)' = req[r].variants
             /\ \A v \in req[r].variants : rows'[p][v] = Snapshot(r)
  <2>1. Left(r, req[r].id) = {}
    BY <1>1, <1>6 DEF Fine, Alone, Serving
  <2>2. \A v \in Variants : Rewritten(r)[v] = IF v \in req[r].variants THEN Snapshot(r) ELSE NoRow
    BY <2>1 DEF Rewritten
  <2>3. Snapshot(r) # NoRow
    BY <1>2, NoRowIsNone
  <2>4. \A v \in Variants : rows'[p][v] = IF v \in req[r].variants THEN Snapshot(r) ELSE NoRow
    BY <1>4, <1>6, <2>2
  <2> QED BY <1>1, <2>3, <2>4 DEF Applied
<1> QED BY <1>4, <1>5, <1>6 DEF Applied

LEMMA WriteKeeps ==
  ASSUME IInv, NEW r \in Requests, Write(r)
  PROVE  IInv'
<1>1. req[r].step = "write" /\ Fine(r) /\ raced' = raced
  BY DEF Write, IInv
<1>2. CASE Duplicate(r) \/ Excluded(r)
  <2>1. PICK how \in {"failed", "excluded"} : Finish(r, how) /\ UNCHANGED <<promo, made, rows>>
    BY <1>2 DEF Write
  <2>2. how \in Ends
    BY DEF Ends
  <2>3. Quiet(r) /\ req'[r] = Ended(how)
    BY <1>1, <2>1, <2>2, FinishIsQuiet DEF IInv, TypeOK, Quiet
  <2>4. Fine(r)'
    BY <1>1, <1>2, <2>2, <2>3, RefusedOnlyIfRaced, DoneIsFine, EndedFields
  <2> QED BY <2>3, <2>4, QuietKeeps
<1>3. CASE ~(Duplicate(r) \/ Excluded(r))
  <2> DEFINE mine == req[r].id
             terms == req[r].terms
  <2>1. /\ Finish(r, "ok") /\ promo' = [promo EXCEPT ![mine] = terms]
        /\ made' = made \cup {mine} /\ rows' = [rows EXCEPT ![mine] = Rewritten(r)]
    BY <1>3 DEF Write
  <2>2. mine \in Ids /\ terms \in Terms /\ ValidRange(terms) /\ req[r].variants \subseteq Variants
    BY <1>1, RequestType DEF IInv, Fine, InOrder, AtWork
  <2>3. /\ req' \in [Requests -> RequestRecords] /\ req'[r] = Ended("ok")
        /\ \A q \in Requests \ {r} : req'[q] = req[q]
        /\ lock' \in [Variants -> Requests \cup {NoRequest}]
        /\ \A v \in Variants : lock[v] # r => lock'[v] = lock[v]
    BY <2>1, FinishIsQuiet DEF IInv, Ends
  <2>4. /\ promo' \in [Ids -> Terms] /\ promo'[mine] = terms
        /\ \A p \in Ids \ {mine} : promo'[p] = promo[p]
    BY <2>1, <2>2 DEF IInv, TypeOK
  <2>5. /\ rows' \in [Ids -> [Variants -> Snapshots \cup {NoRow}]]
        /\ \A p \in Ids \ {mine} : rows'[p] = rows[p] /\ Applied(p)' = Applied(p)
        /\ \A p \in Ids \ raced : p = mine =>
             /\ Applied(p)' = req[r].variants
             /\ \A v \in req[r].variants : rows'[p][v] = Snapshot(r)
    BY <1>1, <2>1, WrittenRows
  <2>6. TypeOK'
    BY <1>1, <2>1, <2>2, <2>3, <2>4, <2>5 DEF IInv, TypeOK
  <2>7. NewOnesAreEmpty'
    <3> SUFFICES ASSUME NEW p \in Ids \ made'
                 PROVE  Applied(p)' = {}
      BY DEF NewOnesAreEmpty
    <3> QED BY <2>1, <2>5 DEF IInv, NewOnesAreEmpty
  <2>8. DatesInOrder'
    BY <2>1, <2>2, <2>4 DEF IInv, TypeOK, DatesInOrder, ValidRange
  <2>9. made \subseteq Ids /\ (mine \notin raced => \A p \in (made \ raced) \ {mine} :
          terms.active /\ promo[p].active /\ Applied(p) \cap req[r].variants # {} => ~RangesOverlap(terms, promo[p]))
    BY <1>1 DEF IInv, TypeOK, Fine, StillFree, Writing
  <2>10. Apart'
    <3> SUFFICES ASSUME NEW p \in made' \ raced, NEW q \in made' \ raced, p # q, promo'[p].active, promo'[q].active,
                        Applied(p)' \cap Applied(q)' # {}
                 PROVE  ~RangesOverlap(promo'[p], promo'[q])
      BY <1>1 DEF Apart, RangesOverlap
    <3>1. CASE p = mine
      <4>1. q \in (made \ raced) \ {mine} /\ promo'[q] = promo[q] /\ Applied(q)' = Applied(q)
        BY <2>1, <2>4, <2>5, <2>9, <3>1
      <4>2. Applied(p)' = req[r].variants /\ promo'[p] = terms
        BY <2>2, <2>4, <2>5, <3>1
      <4> QED BY <2>9, <3>1, <4>1, <4>2
    <3>2. CASE q = mine
      <4>1. p \in (made \ raced) \ {mine} /\ promo'[p] = promo[p] /\ Applied(p)' = Applied(p)
        BY <2>1, <2>4, <2>5, <2>9, <3>2
      <4>2. Applied(q)' = req[r].variants /\ promo'[q] = terms
        BY <2>2, <2>4, <2>5, <3>2
      <4>3. ~RangesOverlap(terms, promo[p])
        BY <2>9, <3>2, <4>1, <4>2
      <4> QED BY <4>1, <4>2, <4>3 DEF RangesOverlap
    <3>3. CASE p # mine /\ q # mine
      <4>1. p \in made \ raced /\ q \in made \ raced /\ promo'[p] = promo[p] /\ promo'[q] = promo[q]
            /\ Applied(p)' = Applied(p) /\ Applied(q)' = Applied(q)
        BY <2>1, <2>4, <2>5, <2>9, <3>3
      <4> QED BY <4>1 DEF IInv, Apart
    <3> QED BY <3>1, <3>2, <3>3
  <2>11. SnapshotsAgree'
    <3> SUFFICES ASSUME NEW p \in Ids \ raced, NEW v \in Applied(p)'
                 PROVE  /\ [active |-> rows'[p][v].active, from |-> rows'[p][v].from, to |-> rows'[p][v].to] = promo'[p]
                        /\ \A w \in Applied(p)' : rows'[p][w].by = rows'[p][v].by
      BY <1>1 DEF SnapshotsAgree
    <3>1. CASE p = mine
      <4>1. \A w \in Applied(p)' : rows'[p][w] = Snapshot(r)
        BY <2>5, <3>1
      <4>2. [active |-> Snapshot(r).active, from |-> Snapshot(r).from, to |-> Snapshot(r).to] = terms
        BY <2>2 DEF Snapshot, Terms
      <4> QED BY <2>4, <3>1, <4>1, <4>2
    <3>2. CASE p # mine
      <4>1. rows'[p] = rows[p] /\ promo'[p] = promo[p] /\ Applied(p)' = Applied(p)
        BY <2>4, <2>5, <3>2
      <4>2. v \in Variants
        BY <4>1, AppliedType
      <4> QED BY <4>1, <4>2 DEF IInv, SnapshotsAgree
    <3> QED BY <3>1, <3>2
  <2>12. ASSUME NEW q \in Requests, q # r
         PROVE  Fine(q)'
    <3>1. Fine(q) /\ req'[q] = req[q] /\ req'[r].step = "done" /\ req'[r].id \notin Ids
      BY <2>3, <2>12, EndedFields, NullsAreFresh DEF IInv, Ends
    <3>2. InOrder(q)'
      <4>1. Writing(q) => \A v \in req[q].variants : lock'[v] = q
        BY <2>3, <2>12, <3>1, RequestType DEF IInv, Fine, InOrder
      <4> QED BY <3>1, <4>1 DEF Fine, InOrder, AtWork, Writing, ValidRange
    <3>3. Creator(q)'
      <4>1. \A s \in Requests \ {q} : s # r => req'[s] = req[s]
        BY <2>3
      <4> QED BY <2>1, <3>1, <4>1 DEF Fine, Creator
    <3>4. Alone(q)'
      <4> SUFFICES ASSUME NEW on, on = req[q].id, Serving(q), on \notin raced
                   PROVE  /\ \A s \in Requests \ {q} : Serving(s)' => req'[s].id # on
                          /\ req[q].step = "write" => Left(q, on)' = {}
        BY <1>1, <3>1 DEF Alone, Serving, Left, Applied
      <4>1. \A s \in Requests \ {q} : Serving(s)' => req'[s].id # on
        BY <2>3, <3>1 DEF Fine, Alone, Serving
      <4>2. on \in Ids \ {mine}
        <5>1. on \in Ids
          BY <3>1 DEF Fine, InOrder, AtWork, Serving
        <5>2. Serving(r)
          BY <1>1 DEF Serving
        <5> QED BY <2>12, <3>1, <5>1, <5>2 DEF Fine, Alone
      <4>3. Left(q, on)' = Left(q, on)
        BY <2>5, <3>1, <4>2 DEF Left, Applied
      <4> QED BY <3>1, <4>1, <4>3 DEF Fine, Alone
    <3>5. StillFree(q)'
      <4> SUFFICES ASSUME Writing(q), req[q].terms.active, NEW p \in (made' \ raced) \ {req[q].id},
                          promo'[p].active, Applied(p)' \cap req[q].variants # {}
                   PROVE  ~RangesOverlap(req[q].terms, promo'[p])
        BY <1>1, <3>1 DEF StillFree, Writing, RangesOverlap
      <4>1. p # mine
        <5> SUFFICES ASSUME p = mine
                     PROVE  FALSE
          OBVIOUS
        <5>1. PICK v \in req[r].variants : v \in req[q].variants
          BY <2>2, <2>5
        <5>2. lock[v] = r /\ lock[v] = q
          BY <1>1, <3>1, <5>1 DEF Fine, InOrder, Writing
        <5> QED BY <2>12, <5>2
      <4>2. p \in (made \ raced) \ {req[q].id} /\ promo'[p] = promo[p] /\ Applied(p)' = Applied(p)
        BY <2>1, <2>4, <2>5, <2>9, <4>1
      <4> QED BY <3>1, <4>2 DEF Fine, StillFree
    <3>6. NotRefused(q)'
      BY <1>1, <3>1 DEF Fine, NotRefused
    <3> QED BY <3>2, <3>3, <3>4, <3>5, <3>6 DEF Fine
  <2>13. Fine(r)'
    BY <2>3, DoneIsFine, EndedFields DEF Ends
  <2> QED BY <2>6, <2>7, <2>8, <2>10, <2>11, <2>12, <2>13 DEF IInv
<1> QED BY <1>2, <1>3

-----------------------------------------------------------------------------
(* The invariant *)
LEMMA Initially ==
  ASSUME Init
  PROVE  IInv
<1>1. PICK d \in Drafts, p \in Ids :
        /\ ValidDraft(d) /\ made = {p}
        /\ promo = [q \in Ids |-> IF q = p THEN TermsOf(d) ELSE NoTerms]
        /\ rows = [q \in Ids |-> IF q = p THEN Stored(d) ELSE [v \in Variants |-> NoRow]]
  <2>1. (CHOOSE q \in Ids : TRUE) \in Ids
    BY NullsAreFresh
  <2> QED BY <2>1 DEF Init
<1>2. /\ lock = [v \in Variants |-> NoRequest] /\ req = [r \in Requests |-> Idle] /\ raced = {}
      /\ Idle.step = "idle" /\ Idle.id = NoId /\ Idle.end = "none"
  BY DEF Init, Idle
<1>3. TermsOf(d) \in Terms /\ TermsOf(d).from < TermsOf(d).to /\ d \in Sheets
  BY <1>1, DraftsAreSheets DEF Sheets, Terms, TermsOf, ValidDraft, ValidRange
<1>4. Stored(d) \in [Variants -> Snapshots \cup {NoRow}]
  BY <1>3 DEF Stored, Sheets, Snapshots
<1>5. TypeOK
  BY <1>1, <1>2, <1>3, <1>4, IdleType DEF TypeOK
<1>6. \A q \in Ids \ {p} : Applied(q) = {}
  BY <1>1 DEF Applied
<1>7. NewOnesAreEmpty /\ Apart /\ DatesInOrder
  BY <1>1, <1>3, <1>6 DEF NewOnesAreEmpty, Apart, DatesInOrder
<1>8. SnapshotsAgree
  <2> SUFFICES ASSUME NEW q \in Ids, NEW v \in Variants, v \in Applied(q)
               PROVE  /\ [active |-> rows[q][v].active, from |-> rows[q][v].from, to |-> rows[q][v].to] = promo[q]
                      /\ \A w \in Applied(q) : rows[q][w].by = rows[q][v].by
    BY DEF SnapshotsAgree
  <2>1. q = p /\ promo[q] = TermsOf(d) /\ rows[q] = Stored(d)
    BY <1>1, <1>6
  <2>2. \A w \in Applied(q) : Stored(d)[w] = [by |-> NoRequest, active |-> d.active, from |-> d.from, to |-> d.to]
    BY <2>1 DEF Applied, Stored
  <2> QED BY <2>1, <2>2 DEF TermsOf
<1>9. \A r \in Requests : Fine(r)
  BY <1>2, NullsAreFresh DEF Fine, InOrder, Creator, Alone, StillFree, NotRefused, AtWork, Writing, Serving
<1> QED BY <1>5, <1>7, <1>8, <1>9 DEF IInv

LEMMA Stutters ==
  ASSUME IInv, UNCHANGED vars
  PROVE  IInv'
<1> USE DEF vars
<1>1. TypeOK' /\ NewOnesAreEmpty' /\ Apart' /\ SnapshotsAgree' /\ DatesInOrder'
  BY DEF IInv, TypeOK, NewOnesAreEmpty, Apart, SnapshotsAgree, DatesInOrder, Applied, RangesOverlap
<1>2. \A r \in Requests : Fine(r)'
  BY DEF IInv, Fine, InOrder, Creator, Alone, StillFree, NotRefused, AtWork, Writing, Serving, Left, Applied,
         ValidRange, RangesOverlap
<1> QED BY <1>1, <1>2 DEF IInv

LEMMA Inductive ==
  ASSUME IInv, [Next]_vars
  PROVE  IInv'
<1>1. ASSUME NEW r \in Requests, Begin(r)
      PROVE  IInv'
  BY <1>1, CreateKeeps, RemoveVariantKeeps, OpenFormKeeps, SaveFormKeeps DEF Begin
<1>2. ASSUME NEW r \in Requests, Run(r)
      PROVE  IInv'
  BY <1>2, ReadExistingKeeps, LockVariantKeeps, CheckConflictsKeeps, DeleteRowsKeeps, WriteKeeps DEF Run
<1> QED BY <1>1, <1>2, Stutters DEF Next

LEMMA Invariance == Spec => []IInv
BY Initially, Inductive, PTL DEF Spec

-----------------------------------------------------------------------------
(* Locks and waiting *)

(* Only the transaction holds locks, and while it still takes some, those  *)
(* it holds come before all it wants.                                      *)
Ascending(r) ==
  /\ Held(r) # {} => req[r].step \in {"lock", "delete", "write"}
  /\ req[r].step = "lock" => \A v \in Held(r), w \in Wanted(r) : v < w
LocksInOrder == TypeOK /\ \A r \in Requests : Ascending(r)

(* A finite set of numbers has a greatest: inclusion is well-founded.      *)
LEMMA GreatestOfFinite ==
  ASSUME NEW S, S \subseteq Nat, S # {}, IsFiniteSet(S)
  PROVE  \E x \in S : \A y \in S : y <= x
<1> DEFINE Above(x) == {y \in S : y > x}
           T == {Above(x) : x \in S}
<1>1. T \in SUBSET FiniteSubsetsOf(S) /\ T # {}
  <2>1. \A x \in S : Above(x) \in SUBSET S /\ IsFiniteSet(Above(x))
    BY FS_Subset
  <2> QED BY <2>1 DEF FiniteSubsetsOf
<1>2. PICK t \in T : \A u \in T : ~(<<u, t>> \in StrictSubsetOrdering(S))
  BY <1>1, WFMin, FS_StrictSubsetOrderingWellFounded
<1>3. PICK x \in S : t = Above(x)
  OBVIOUS
<1>4. \A y \in S : y <= x
  <2> SUFFICES ASSUME NEW y \in S, y > x PROVE FALSE
    BY <1>3
  <2>1. Above(y) \in T
    OBVIOUS
  <2>2. \A z \in S : z > y => z > x
    OBVIOUS
  <2>3. y \in Above(x) /\ y \notin Above(y)
    OBVIOUS
  <2>4. Above(y) \subseteq Above(x) /\ Above(x) \subseteq S
    BY <2>2
  <2>5. <<Above(y), t>> \in StrictSubsetOrdering(S)
    <3> HIDE DEF Above
    <3> QED BY <1>3, <2>3, <2>4 DEF StrictSubsetOrdering
  <2> QED BY <1>2, <2>1, <2>5
<1> QED BY <1>4

(* So it has a least one: the one furthest below the greatest.             *)
LEMMA LeastOfFinite ==
  ASSUME NEW S, S \subseteq Nat, S # {}, IsFiniteSet(S)
  PROVE  \E x \in S : \A y \in S : x <= y
<1>1. PICK b \in S : \A y \in S : y <= b
  BY GreatestOfFinite
<1> DEFINE f == [x \in S |-> b - x]
           T == {f[x] : x \in S}
<1>2. f \in Surjection(S, T)
  BY DEF Surjection
<1>3. T \subseteq Nat /\ T # {} /\ IsFiniteSet(T)
  <2>1. \A x \in S : f[x] \in Nat
    BY <1>1
  <2>2. T \subseteq Nat /\ T # {}
    BY <2>1
  <2> HIDE DEF T, f
  <2> QED BY <1>2, <2>2, FS_Surjection
<1>4. PICK t \in T : \A u \in T : u <= t
  <2> HIDE DEF T
  <2> QED BY <1>3, GreatestOfFinite
<1>5. PICK x \in S : t = b - x
  OBVIOUS
<1>6. ASSUME NEW y \in S PROVE x <= y
  <2>1. f[y] \in T /\ f[y] = b - y
    OBVIOUS
  <2>2. b - y <= b - x
    BY <1>4, <1>5, <2>1
  <2>3. b \in Nat /\ x \in Nat /\ y \in Nat
    BY <1>5, <1>6
  <2> HIDE DEF f, T
  <2> QED BY <2>2, <2>3
<1> QED BY <1>6

LEMMA LeastWanted ==
  ASSUME TypeOK, NEW r \in Requests, Wanted(r) # {}
  PROVE  NextToLock(r) \in Wanted(r) /\ \A w \in Wanted(r) : NextToLock(r) <= w
<1>1. Wanted(r) \subseteq Variants
  BY RequestType DEF Wanted
<1>2. Wanted(r) \subseteq Nat /\ IsFiniteSet(Wanted(r))
  BY <1>1, VariantsAreOrdered, FS_Subset
<1>3. \E v \in Wanted(r) : \A w \in Wanted(r) : v <= w
  BY <1>2, LeastOfFinite
<1> QED BY <1>3 DEF NextToLock

(* A request that moves on, gives its locks back or begins, disturbs no    *)
(* other.                                                                  *)
LEMMA OthersKeepOrder ==
  ASSUME LocksInOrder, NEW r \in Requests, NEW q \in Requests, q # r,
         req'[q] = req[q], \A v \in Variants : lock'[v] = q <=> lock[v] = q
  PROVE  Ascending(q)'
BY DEF LocksInOrder, Ascending, Held, Wanted

LEMMA OrderStep ==
  ASSUME LocksInOrder, IInv, IInv', [Next]_vars
  PROVE  LocksInOrder'
<1> SUFFICES \A q \in Requests : Ascending(q)'
  BY DEF LocksInOrder, IInv
<1>1. ASSUME UNCHANGED <<req, lock>>
      PROVE  \A q \in Requests : Ascending(q)'
  BY <1>1 DEF LocksInOrder, Ascending, Held, Wanted
<1>2. ASSUME NEW r \in Requests, UNCHANGED lock, \A q \in Requests \ {r} : req'[q] = req[q],
             \/ req[r].step \in {"idle", "form", "read"}
             \/ req'[r].step \in {"delete", "write"}
      PROVE  \A q \in Requests : Ascending(q)'
  <2>1. Ascending(r)'
    BY <1>2 DEF LocksInOrder, Ascending, Held, Wanted
  <2> QED BY <1>2, <2>1, OthersKeepOrder
<1>3. ASSUME NEW r \in Requests, NEW how \in Ends, Finish(r, how)
      PROVE  \A q \in Requests : Ascending(q)'
  <2>1. \A v \in Variants : lock'[v] = IF lock[v] = r THEN NoRequest ELSE lock[v]
    BY <1>3 DEF Finish, Released
  <2>2. Ascending(r)'
    BY <2>1, NullsAreFresh, FinishIsQuiet, <1>3, EndedFields DEF LocksInOrder, Ascending, Held
  <2>3. ASSUME NEW q \in Requests, q # r
        PROVE  Ascending(q)'
    BY <1>3, <2>1, <2>3, NullsAreFresh, FinishIsQuiet, OthersKeepOrder DEF LocksInOrder
  <2> QED BY <2>2, <2>3
<1>4. ASSUME NEW r \in Requests, LockVariant(r)
      PROVE  \A q \in Requests : Ascending(q)'
  <2>1. /\ req[r].step = "lock" /\ Wanted(r) # {} /\ UNCHANGED req
        /\ lock[NextToLock(r)] = NoRequest /\ lock' = [lock EXCEPT ![NextToLock(r)] = r]
    BY <1>4 DEF LockVariant, Free
  <2>2. NextToLock(r) \in Wanted(r) /\ \A w \in Wanted(r) : NextToLock(r) <= w
    BY <2>1, LeastWanted DEF LocksInOrder
  <2>3. Wanted(r) \subseteq Variants /\ Wanted(r) \subseteq Nat
    BY RequestType, VariantsAreOrdered DEF Wanted, LocksInOrder
  <2>4. Held(r)' = Held(r) \cup {NextToLock(r)}
    BY <2>1, <2>2, <2>3 DEF Held, LocksInOrder, TypeOK
  <2>5. Wanted(r)' = Wanted(r) \ {NextToLock(r)}
    BY <2>1, <2>4 DEF Wanted
  <2>6. \A w \in Wanted(r) \ {NextToLock(r)} : NextToLock(r) < w
    BY <2>2, <2>3
  <2>7. Ascending(r)'
    BY <2>1, <2>4, <2>5, <2>6 DEF LocksInOrder, Ascending
  <2>8. ASSUME NEW q \in Requests, q # r
        PROVE  Ascending(q)'
    <3>1. \A v \in Variants : lock'[v] = q <=> lock[v] = q
      BY <2>1, <2>2, <2>3, <2>8, NullsAreFresh DEF LocksInOrder, TypeOK
    <3> QED BY <2>1, <2>8, <3>1, OthersKeepOrder
  <2> QED BY <2>7, <2>8
<1>5. ASSUME NEW r \in Requests, Begin(r)
      PROVE  \A q \in Requests : Ascending(q)'
  <2>1. UNCHANGED lock /\ req[r].step \in {"idle", "form"}
    BY <1>5 DEF Begin, Create, RemoveVariant, OpenForm, SaveForm
  <2>2. \A q \in Requests \ {r} : req'[q] = req[q]
    BY <1>5 DEF Begin, Create, RemoveVariant, OpenForm, SaveForm, LocksInOrder, TypeOK
  <2> QED BY <1>2, <2>1, <2>2
<1>6. ASSUME NEW r \in Requests, ReadExisting(r)
      PROVE  \A q \in Requests : Ascending(q)'
  BY <1>2, <1>6 DEF ReadExisting, LocksInOrder, TypeOK
<1>7. ASSUME NEW r \in Requests, CheckConflicts(r)
      PROVE  \A q \in Requests : Ascending(q)'
  <2>1. CASE Finish(r, "conflict")
    BY <1>3, <2>1 DEF Ends
  <2>2. CASE /\ req' = [req EXCEPT ![r] = [@ EXCEPT !.scope = {},
                          !.step = IF req[r].id \in made THEN "delete" ELSE "write"]]
             /\ UNCHANGED lock
    <3>1. req'[r].step \in {"delete", "write"} /\ \A q \in Requests \ {r} : req'[q] = req[q]
      BY <2>2, RequestType DEF LocksInOrder, TypeOK, RequestRecords
    <3> QED BY <1>2, <2>2, <3>1
  <2> QED BY <1>7, <2>1, <2>2 DEF CheckConflicts
<1>8. ASSUME NEW r \in Requests, DeleteRows(r)
      PROVE  \A q \in Requests : Ascending(q)'
  <2>1. req'[r].step = "write" /\ \A q \in Requests \ {r} : req'[q] = req[q]
    BY <1>8, RequestType DEF DeleteRows, LocksInOrder, TypeOK, RequestRecords
  <2> QED BY <1>2, <1>8, <2>1 DEF DeleteRows
<1>9. ASSUME NEW r \in Requests, Write(r)
      PROVE  \A q \in Requests : Ascending(q)'
  BY <1>3, <1>9 DEF Write, Ends
<1> QED BY <1>1, <1>4, <1>5, <1>6, <1>7, <1>8, <1>9 DEF Next, Run, vars

LEMMA OrderHolds == Spec => []LocksInOrder
<1>1. Init /\ IInv => LocksInOrder
  BY NullsAreFresh DEF Init, IInv, LocksInOrder, Ascending, Held, Idle
<1>2. LocksInOrder /\ IInv /\ IInv' /\ [Next]_vars => LocksInOrder'
  BY OrderStep
<1> QED BY <1>1, <1>2, Invariance, PTL DEF Spec

-----------------------------------------------------------------------------
(* Theorems *)

(* Every variable keeps its type.                                          *)
THEOREM TypeCorrect == Spec => []TypeOK
<1>1. IInv => TypeOK
  BY DEF IInv
<1> QED BY <1>1, Invariance, PTL

(* A variant has at most one of the promotions that were not changed by    *)
(* two requests at once in effect, at every moment: the advisory locks     *)
(* keep what findOverlapConflicts found true until the rows are written.   *)
THEOREM OnePrice == Spec => []OneEffectivePrice
<1>1. IInv => OneEffectivePrice
  <2> SUFFICES ASSUME IInv, NEW v \in Variants, NEW now \in Moments, NEW p \in Ids \ raced, NEW q \in Ids \ raced,
                      p \in InEffectOn(v, now), q \in InEffectOn(v, now), p # q
               PROVE  FALSE
    BY DEF OneEffectivePrice
  <2>1. /\ p \in made /\ q \in made /\ promo[p].active /\ promo[q].active /\ Applied(p) \cap Applied(q) # {}
        /\ promo[p].from <= now /\ now < promo[p].to /\ promo[q].from <= now /\ now < promo[q].to
    BY DEF InEffectOn, InEffect
  <2>2. ~RangesOverlap(promo[p], promo[q])
    BY <2>1 DEF IInv, Apart
  <2>3. /\ now \in Int /\ promo[p].from \in Int /\ promo[p].to \in Int
        /\ promo[q].from \in Int /\ promo[q].to \in Int
    BY EndIsATime DEF IInv, TypeOK, Terms, Starts, Stops, Moments, Beginning
  <2> QED BY <2>1, <2>2, <2>3 DEF RangesOverlap
<1> QED BY <1>1, Invariance, PTL

(* The dates the EXCLUDE constraint compares are the promotion's own.      *)
THEOREM SnapshotsStayEqual == Spec => []SnapshotsAgree
<1>1. IInv => SnapshotsAgree
  BY DEF IInv
<1> QED BY <1>1, Invariance, PTL

(* A request is refused by a constraint of the database only after some    *)
(* promotion was changed by two requests at once.                          *)
THEOREM ConstraintIsSecondLine == Spec => []ConstraintNeverNeeded
<1>1. IInv => ConstraintNeverNeeded
  BY DEF IInv, Fine, NotRefused, ConstraintNeverNeeded
<1> QED BY <1>1, Invariance, PTL

(* Every stored promotion ends after it starts, whichever of its dates two *)
(* requests set at once.                                                   *)
THEOREM StoredDatesInOrder == Spec => []DatesInOrder
<1>1. IInv => DatesInOrder
  BY DEF IInv
<1> QED BY <1>1, Invariance, PTL

(* Whatever locks requests hold and wait for, one of them can go on:       *)
(* acquireVariantPromotionLocks takes the locks of a request in the order  *)
(* of the ids (promotion-overlap.ts, line 44).                             *)
THEOREM NobodyWaitsInCircle == Spec => []NoCircle
<1>1. LocksInOrder => NoCircle
  <2> SUFFICES ASSUME LocksInOrder, NEW r0 \in Requests, Waits(r0)
               PROVE  \E q \in Requests : Serving(q) /\ ~Waits(q)
    BY DEF NoCircle
  <2> DEFINE W == {v \in Variants : \E r \in Requests : Waits(r) /\ v = NextToLock(r)}
  <2>1. ASSUME NEW r \in Requests, Waits(r)
        PROVE  /\ NextToLock(r) \in Variants /\ NextToLock(r) \in Wanted(r)
               /\ \E q \in Requests : lock[NextToLock(r)] = q
    <3>1. NextToLock(r) \in Wanted(r) /\ Wanted(r) \subseteq Variants
      BY <2>1, LeastWanted, RequestType DEF LocksInOrder, Waits, Wanted
    <3> QED BY <2>1, <3>1 DEF Waits, Free, LocksInOrder, TypeOK
  <2>2. W \subseteq Nat /\ IsFiniteSet(W) /\ NextToLock(r0) \in W
    BY <2>1, VariantsAreOrdered, FS_Subset
  <2>3. PICK m \in W : \A v \in W : v <= m
    <3> HIDE DEF W
    <3> QED BY <2>2, GreatestOfFinite
  <2>4. PICK q \in Requests : lock[m] = q
    BY <2>1
  <2>5. m \in Held(q)
    BY <2>4 DEF Held
  <2>6. Serving(q)
    BY <2>5 DEF LocksInOrder, Ascending, Serving
  <2>7. ~Waits(q)
    <3> SUFFICES ASSUME Waits(q) PROVE FALSE
      OBVIOUS
    <3>1. NextToLock(q) \in W /\ NextToLock(q) \in Wanted(q)
      BY <2>1
    <3>2. m < NextToLock(q)
      BY <2>5, <3>1 DEF LocksInOrder, Ascending, Waits
    <3>3. NextToLock(q) <= m /\ m \in Nat /\ NextToLock(q) \in Nat
      BY <2>2, <2>3, <3>1
    <3> QED BY <3>2, <3>3
  <2> QED BY <2>6, <2>7
<1> QED BY <1>1, OrderHolds, PTL
=============================================================================
