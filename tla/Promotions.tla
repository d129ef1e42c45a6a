----------------------------- MODULE Promotions -----------------------------
(***************************************************************************)
(* Percentage promotions on product variants: PromotionsService create,    *)
(* update and removeVariant, with the advisory locks, the overlap check    *)
(* and the EXCLUDE constraint that are to keep a variant from having two   *)
(* promotions in effect at one moment (apps/api/src/promotions).           *)
(*                                                                         *)
(* Requests run concurrently under READ COMMITTED: every statement reads   *)
(* what is committed when it starts.  A transaction's writes become        *)
(* visible at its commit, which is one action here.                        *)
(*                                                                         *)
(* Times are numbers.  A promotion is in effect from `from' up to but not  *)
(* including `to'; Beginning and End stand for a bound left empty.         *)
(***************************************************************************)
EXTENDS Integers, FiniteSets

CONSTANTS
  Ids,        \* promotions
  Variants,   \* product variants, numbered in the order of their ids
  Requests,   \* admin requests; each runs once
  End,        \* the moment after every other
  Drafts,     \* promotions an admin may create
  Edits,      \* changes an admin may make in the form of a promotion
  Keep,       \* stands for what an edit leaves as it is
  NoId, NoRow, NoRequest

Beginning == 0
Moments == Beginning..End
Starts == Beginning..(End - 1)
Stops == 1..End

ASSUME VariantsAreOrdered == Variants \subseteq Nat /\ IsFiniteSet(Variants)
ASSUME EndIsATime == End \in Nat \ {0}
ASSUME NullsAreFresh == Ids # {} /\ NoId \notin Ids /\ NoRequest \notin Requests

Terms == [active : BOOLEAN, from : Starts, to : Stops]
Names == [active : {Keep} \cup BOOLEAN, from : {Keep} \cup Starts,
          to : {Keep} \cup Stops, variants : {Keep} \cup SUBSET Variants]
Sheets == [active : BOOLEAN, from : Starts, to : Stops, variants : SUBSET Variants]
ASSUME DraftsAreSheets == Drafts \subseteq Sheets
ASSUME EditsNameFields == Edits \subseteq Names

Snapshots == [by : Requests \cup {NoRequest}, active : BOOLEAN, from : Starts, to : Stops]
ASSUME NoRowIsNone == NoRow \notin Snapshots

VARIABLES
  promo,   \* Promotion: its terms, by id
  made,    \* ids that have a row
  rows,    \* PromotionVariant: the snapshot a promotion keeps per variant
  lock,    \* pg_advisory_xact_lock: who holds the lock of a variant
  req,     \* the admin requests
  raced    \* ids that were changed by two requests at once (history)

vars == <<promo, made, rows, lock, req, raced>>

NoTerms == [active |-> FALSE, from |-> Beginning, to |-> End]
NoEdit == [active |-> Keep, from |-> Keep, to |-> Keep, variants |-> Keep]
Idle == [step |-> "idle", id |-> NoId, edit |-> NoEdit, terms |-> NoTerms,
         variants |-> {}, scope |-> {}, doomed |-> {}, end |-> "none"]

Steps == {"idle", "form", "read", "lock", "delete", "write", "done"}
Ends == {"none", "ok", "missing", "invalid", "conflict", "excluded", "failed"}
Serving(r) == req[r].step \in {"read", "lock", "delete", "write"}
Ended(how) == [Idle EXCEPT !.step = "done", !.end = how]
OthersOn(r, p) == \E q \in Requests \ {r} : Serving(q) /\ req[q].id = p

Applied(p) == {v \in Variants : rows[p][v] # NoRow}

\* Bug: only the start of the stored range is looked at.
StartsInside(a, b) == a.from <= b.from /\ b.from < a.to

(* [) semantics, as in the EXCLUDE constraint. *)
RangesOverlap(a, b) == a.from < b.to /\ b.from < a.to
InEffect(t, now) == t.active /\ t.from <= now /\ now < t.to

(***************************************************************************)
(* create, from the form for a new promotion                               *)
(***************************************************************************)
TermsOf(x) == [active |-> x.active, from |-> x.from, to |-> x.to]
ValidRange(t) == t.from < t.to
ValidDraft(d) == ValidRange(d) /\ d.variants # {}

Create(r, p, d) ==
  /\ req[r].step = "idle" /\ ValidDraft(d)
  /\ p \notin made /\ \A q \in Requests : req[q].id # p
  /\ req' = [req EXCEPT ![r] = [@ EXCEPT !.step = "lock", !.id = p, !.terms = TermsOf(d),
               !.variants = d.variants, !.scope = d.variants]]
  /\ UNCHANGED <<promo, made, rows, lock, raced>>

(***************************************************************************)
(* update, from the form of a promotion, which sends every field it shows; *)
(* and removeVariant, which ends in update                                 *)
(***************************************************************************)
OpenForm(r, p) ==
  /\ req[r].step = "idle" /\ p \in made
  /\ req' = [req EXCEPT ![r] = [@ EXCEPT !.step = "form", !.id = p, !.terms = promo[p],
                                        !.variants = Applied(p)]]
  /\ UNCHANGED <<promo, made, rows, lock, raced>>

Or(given, stored) == IF given = Keep THEN stored ELSE given
Merged(e, t) == [active |-> Or(e.active, t.active), from |-> Or(e.from, t.from), to |-> Or(e.to, t.to)]
Arrives(r, p) == raced' = IF OthersOn(r, p) THEN raced \cup {p} ELSE raced

SaveForm(r, e) ==
  LET terms == Merged(e, req[r].terms)
      variants == Or(e.variants, req[r].variants)
  IN
  /\ req[r].step = "form" /\ variants # {}
  /\ req' = [req EXCEPT ![r] =
       IF ~ValidRange(terms) THEN Ended("invalid")
       ELSE [@ EXCEPT !.step = "read",
               !.edit = [active |-> terms.active, from |-> terms.from, to |-> terms.to,
                         variants |-> variants]]]
  /\ Arrives(r, req[r].id)
  /\ UNCHANGED <<promo, made, rows, lock>>

(* removeVariant reads the variants once, then update reads them again. *)
RemoveVariant(r, p, v) ==
  LET remaining == Applied(p) \ {v} IN
  /\ req[r].step = "idle" /\ p \in made
  /\ req' = [req EXCEPT ![r] =
       IF v \notin Applied(p) THEN Ended("missing")
       ELSE [@ EXCEPT !.step = "read", !.id = p,
              !.edit = [NoEdit EXCEPT !.variants = remaining,
                                      !.active = IF remaining = {} THEN FALSE ELSE Keep]]]
  /\ Arrives(r, p)
  /\ UNCHANGED <<promo, made, rows, lock>>

(* Lock the variants that are removed as well as those that are set. *)
ReadExisting(r) ==
  LET p == req[r].id
      terms == Merged(req[r].edit, promo[p])
      set == Or(req[r].edit.variants, Applied(p))
  IN
  /\ req[r].step = "read"
  /\ req' = [req EXCEPT ![r] =
       IF ~ValidRange(terms) THEN Ended("invalid")
       ELSE [@ EXCEPT !.step = "lock", !.edit = NoEdit, !.terms = terms, !.variants = set,
                      !.scope = Applied(p) \cup set]]
  /\ UNCHANGED <<promo, made, rows, lock, raced>>

(***************************************************************************)
(* The transaction both share                                              *)
(***************************************************************************)
Held(r) == {v \in Variants : lock[v] = r}
Wanted(r) == req[r].scope \ Held(r)
\* Bug: update locks the ids unsorted, as they come.
Unsorted(r) == CHOOSE v \in Wanted(r) :
  \A w \in Wanted(r) : IF req[r].id \in made THEN v >= w ELSE v <= w
NextToLock(r) == CHOOSE v \in Wanted(r) : \A w \in Wanted(r) : v <= w
Free(v) == lock[v] = NoRequest

LockVariant(r) ==
  /\ req[r].step = "lock" /\ Wanted(r) # {}
  /\ Free(NextToLock(r))
  /\ lock' = [lock EXCEPT ![NextToLock(r)] = r]
  /\ UNCHANGED <<promo, made, rows, req, raced>>

Released(r) == [v \in Variants |-> IF lock[v] = r THEN NoRequest ELSE lock[v]]
Finish(r, how) ==
  /\ req' = [req EXCEPT ![r] = Ended(how)]
  /\ lock' = Released(r)

(* findOverlapConflicts reads the promotions themselves, not the snapshots. *)
Conflicts(r) ==
  {p \in made \ {req[r].id} :
     /\ promo[p].active /\ Applied(p) \cap req[r].variants # {}
     /\ RangesOverlap(req[r].terms, promo[p])}

CheckConflicts(r) ==
  /\ req[r].step = "lock" /\ Wanted(r) = {}
  /\ IF req[r].terms.active /\ Conflicts(r) # {} THEN Finish(r, "conflict")
     ELSE /\ req' = [req EXCEPT ![r] = [@ EXCEPT !.scope = {},
                                         !.step = IF req[r].id \in made THEN "delete" ELSE "write"]]
          /\ UNCHANGED lock
  /\ UNCHANGED <<promo, made, rows, raced>>

(* deleteMany removes the rows it sees: not those another transaction is   *)
(* still to commit.                                                        *)
Seen(p) == {<<v, rows[p][v].by>> : v \in Applied(p)}
DeleteRows(r) ==
  /\ req[r].step = "delete"
  /\ req' = [req EXCEPT ![r] = [@ EXCEPT !.step = "write", !.doomed = Seen(req[r].id)]]
  /\ UNCHANGED <<promo, made, rows, lock, raced>>

Left(r, p) == {v \in Applied(p) : p = req[r].id => <<v, rows[p][v].by>> \notin req[r].doomed}
Snapshot(r) == [by |-> r, active |-> req[r].terms.active, from |-> req[r].terms.from,
                to |-> req[r].terms.to]

(* @@unique([promotionId, productVariantId]) *)
Duplicate(r) == req[r].variants \cap Left(r, req[r].id) # {}
(* promotion_variant_no_overlap compares the snapshots of active rows. *)
Excluded(r) ==
  /\ req[r].terms.active
  /\ \E p \in Ids : \E v \in req[r].variants \cap Left(r, p) :
       rows[p][v].active /\ RangesOverlap(req[r].terms, rows[p][v])

\* Bug: the rows of variants that stay are left as they are.
OnlyDiffering(r) == [v \in Variants |->
  IF v \notin req[r].variants THEN NoRow
  ELSE IF v \in Applied(req[r].id) THEN rows[req[r].id][v] ELSE Snapshot(r)]

Rewritten(r) == [v \in Variants |->
  IF v \in req[r].variants THEN Snapshot(r)
  ELSE IF v \in Left(r, req[r].id) THEN rows[req[r].id][v] ELSE NoRow]

Write(r) ==
  /\ req[r].step = "write"
  /\ IF Duplicate(r) \/ Excluded(r)
     THEN /\ Finish(r, IF Duplicate(r) THEN "failed" ELSE "excluded")
          /\ UNCHANGED <<promo, made, rows>>
     ELSE /\ Finish(r, "ok")
          /\ promo' = [promo EXCEPT ![req[r].id] = req[r].terms]
          /\ made' = made \cup {req[r].id}
          /\ rows' = [rows EXCEPT ![req[r].id] = Rewritten(r)]
  /\ UNCHANGED raced

-----------------------------------------------------------------------------
(* One promotion is there already, and the others are still to be created. *)
Stored(d) == [v \in Variants |->
  IF v \in d.variants THEN [by |-> NoRequest, active |-> d.active, from |-> d.from, to |-> d.to] ELSE NoRow]

Init ==
  /\ \E d \in {x \in Drafts : ValidDraft(x)} : LET p == CHOOSE q \in Ids : TRUE IN
       /\ promo = [q \in Ids |-> IF q = p THEN TermsOf(d) ELSE NoTerms]
       /\ made = {p}
       /\ rows = [q \in Ids |-> IF q = p THEN Stored(d) ELSE [v \in Variants |-> NoRow]]
  /\ lock = [v \in Variants |-> NoRequest]
  /\ req = [r \in Requests |-> Idle]
  /\ raced = {}

Begin(r) ==
  \/ \E p \in Ids : \/ \E d \in Drafts : Create(r, p, d)
                   \/ \E v \in Variants : RemoveVariant(r, p, v)
                   \/ OpenForm(r, p)
  \/ \E e \in Edits : SaveForm(r, e)

Run(r) == \/ ReadExisting(r) \/ LockVariant(r) \/ CheckConflicts(r)
          \/ DeleteRows(r) \/ Write(r)

Next == \E r \in Requests : Begin(r) \/ Run(r)

Spec == Init /\ [][Next]_vars
(* A request the server has accepted runs on unless a lock keeps it back. *)
FairSpec == Spec /\ \A r \in Requests : WF_vars(Run(r))

-----------------------------------------------------------------------------
RequestRecords ==
  [step : Steps, id : Ids \cup {NoId}, edit : Names, terms : Terms,
   variants : SUBSET Variants, scope : SUBSET Variants,
   doomed : SUBSET (Variants \X (Requests \cup {NoRequest})), end : Ends]

TypeOK ==
  /\ promo \in [Ids -> Terms]
  /\ made \subseteq Ids
  /\ rows \in [Ids -> [Variants -> Snapshots \cup {NoRow}]]
  /\ lock \in [Variants -> Requests \cup {NoRequest}]
  /\ req \in [Requests -> RequestRecords]
  /\ raced \subseteq Ids

(* At no moment are two promotions in effect on one variant, so the price  *)
(* resolveActivePromotionsForVariants finds does not depend on the order   *)
(* the rows come in, as long as neither of them was changed by two         *)
(* requests at once.                                                       *)
InEffectOn(v, now) == {p \in made : v \in Applied(p) /\ InEffect(promo[p], now)}
OneEffectivePrice ==
  \A v \in Variants, now \in Moments, p, q \in Ids \ raced :
    {p, q} \subseteq InEffectOn(v, now) => p = q

(* The same without the exception: effective-price.ts takes it for granted *)
(* (lines 75-79), and the code breaks it (see the README).                 *)
NeverTwoInEffect ==
  \A v \in Variants, now \in Moments : Cardinality(InEffectOn(v, now)) <= 1

(* The snapshot in a promotion's rows is the promotion's own active flag   *)
(* and dates, so the constraint and the application mean the same by       *)
(* "overlapping", and the rows are those of one request.                   *)
SnapshotsAgree ==
  \A p \in Ids \ raced, v \in Variants : v \in Applied(p) =>
    /\ [active |-> rows[p][v].active, from |-> rows[p][v].from, to |-> rows[p][v].to] = promo[p]
    /\ \A w \in Applied(p) : rows[p][w].by = rows[p][v].by

(* The constraint is a second line only: with the locks held and the check *)
(* passed, no request fails on it, unless promotions were changed by two   *)
(* requests at once.                                                       *)
ConstraintNeverNeeded ==
  \A r \in Requests : req[r].end \in {"excluded", "failed"} => raced # {}

(* Whatever parts of the dates two requests change, a stored promotion     *)
(* ends after it starts.                                                   *)
DatesInOrder == \A p \in made : promo[p].from < promo[p].to

(* Whatever the requests hold and wait for, one of those the server works  *)
(* on can take its next step: pg_advisory_xact_lock is called in the order *)
(* of the ids (promotions.service.ts, "sort"), so that the request that    *)
(* waits for the greatest of all waits for one that does not wait.         *)
Waits(r) == req[r].step = "lock" /\ Wanted(r) # {} /\ ~Free(NextToLock(r))
NoCircle == (\E r \in Requests : Waits(r)) => \E q \in Requests : Serving(q) /\ ~Waits(q)

(* Every request comes to its answer: the sorted locks cannot wait in a    *)
(* circle, and a request that fails gives its locks back.                  *)
RequestsEnd == \A r \in Requests : Serving(r) ~> ~Serving(r)
=============================================================================
