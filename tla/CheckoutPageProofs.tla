------------------------- MODULE CheckoutPageProofs -------------------------
(***************************************************************************)
(* What the checkout page shows and submits, for any methods, places and   *)
(* number of edits, submissions, polls and lost answers.                   *)
(***************************************************************************)
EXTENDS CheckoutPage, TLAPS

(* A lookup that is not cancelled asks for what the form says; while one   *)
(* for pickup points is under way, no point can be chosen.                 *)
LookupsAreCurrent ==
  /\ "methods" \in timers => form.place \in Places
  /\ \A l \in lookups :
       /\ l.place = form.place
       /\ l.kind = "points" => l.method = form.method /\ form.point = NoPoint /\ loading /\ "points" \notin timers
FormRight == SelectionIsShown /\ SettledFormIsRight /\ LookupsAreCurrent

(* The last submission, if it came alone, meets no other on its way.       *)
Last == budget.submits
LastIsAlone ==
  Last \in Submissions /\ ~request[Last].overlaps =>
    /\ \A j \in Submissions \ {Last} : ~InHand(j)
    /\ request[Last].at = "checked" => idempotencyKey = NoBody
    /\ request[Last].reply = "order" => idempotencyKey = request[Last].body
SendRight ==
  /\ waiting # 0 => waiting = Last
  /\ phase # "form" => Last \in Submissions /\ request[Last].reply = "order"
  /\ order = "NONE" <=> idempotencyKey = NoBody
  /\ \A i \in Submissions :
       /\ request[i].at # "none" => i <= Last /\ request[i].body \in Bodies
       /\ request[i].reply = "order" => idempotencyKey # NoBody
       /\ InHand(i) => request[i].reply = "none"
  /\ LastIsAlone

(* What an order that had this status may have become.                     *)
Still(status) ==
  /\ status = "CONFIRMED" => paid /\ order \in {"CONFIRMED", "READY_TO_SHIP", "REFUNDED"}
  /\ status = "PAYMENT_SUCCEEDED_STOCK_LOST" => paid /\ order \in {"PAYMENT_SUCCEEDED_STOCK_LOST", "REFUNDED"}
  /\ status = "CANCELED" => order \in {"CANCELED", "PAYMENT_SUCCEEDED_STOCK_LOST", "REFUNDED"}
OrderRight ==
  /\ order \notin {"NONE", "PENDING_PAYMENT", "CANCELED"} => paid
  /\ Still(poll.status) /\ OutcomeIsTrue

IInv == TypeOK /\ FormRight /\ SendRight /\ OrderRight

-----------------------------------------------------------------------------
(* Records *)
LEMMA BudgetType ==
  ASSUME TypeOK
  PROVE  /\ budget.edits < MaxEdits => Count("edits") \in Budgets /\ Count("edits").submits = Last
         /\ MayLose => Count("losses") \in Budgets /\ Count("losses").submits = Last
         /\ budget.submits < MaxSubmits => Count("submits") \in Budgets /\ Count("submits").submits = Last + 1
         /\ Polled \in Budgets /\ Polled.submits = Last
         /\ Last \in 0..MaxSubmits
<1>1. budget \in Budgets
  BY DEF TypeOK
<1> QED BY <1>1, BoundsAssumption DEF Budgets, Count, Polled, Last, MayLose

LEMMA ReplyFields ==
  ASSUME TypeOK, NEW i \in Submissions, NEW what \in {"order", "error"}, Reply(i, what)
  PROVE  /\ request' \in [Submissions -> Requests]
         /\ request'[i].at = "replied" /\ request'[i].reply = what
         /\ request'[i].body = request[i].body /\ request'[i].overlaps = request[i].overlaps
         /\ \A j \in Submissions \ {i} : request'[j] = request[j]
<1>1. request' = [request EXCEPT ![i] = [request[i] EXCEPT !.at = "replied", !.reply = what]]
  BY DEF Reply, TypeOK, Requests
<1>2. request[i] \in Requests /\ request \in [Submissions -> Requests]
  BY DEF TypeOK
<1>3. [request[i] EXCEPT !.at = "replied", !.reply = what] \in Requests
  BY <1>2 DEF Requests
<1> QED BY <1>1, <1>2, <1>3 DEF Requests

LEMMA PhaseFields ==
  ASSUME TypeOK, NEW i \in Submissions, NEW at \in {"checked", "over"}, request' = [request EXCEPT ![i].at = at]
  PROVE  /\ request' \in [Submissions -> Requests]
         /\ request'[i].at = at /\ request'[i].reply = request[i].reply
         /\ request'[i].body = request[i].body /\ request'[i].overlaps = request[i].overlaps
         /\ \A j \in Submissions \ {i} : request'[j] = request[j]
<1>1. request' = [request EXCEPT ![i] = [request[i] EXCEPT !.at = at]]
  BY DEF TypeOK, Requests
<1>2. request[i] \in Requests /\ request \in [Submissions -> Requests]
  BY DEF TypeOK
<1>3. [request[i] EXCEPT !.at = at] \in Requests
  BY <1>2 DEF Requests
<1> QED BY <1>1, <1>2, <1>3 DEF Requests

LEMMA FormFields ==
  ASSUME TypeOK, NEW m \in Methods \cup {NoMethod}, NEW x \in Points \cup {NoPoint}, NEW p \in Places \cup {NoPlace}
  PROVE  /\ [form EXCEPT !.method = m] \in Bodies /\ [form EXCEPT !.point = x] \in Bodies
         /\ [form EXCEPT !.place = p] \in Bodies /\ [form EXCEPT !.method = m, !.point = x] \in Bodies
         /\ [form EXCEPT !.method = m].method = m /\ [form EXCEPT !.method = m].point = form.point
         /\ [form EXCEPT !.method = m].place = form.place
         /\ [form EXCEPT !.point = x].method = form.method /\ [form EXCEPT !.point = x].point = x
         /\ [form EXCEPT !.point = x].place = form.place
         /\ [form EXCEPT !.place = p].method = form.method /\ [form EXCEPT !.place = p].point = form.point
         /\ [form EXCEPT !.place = p].place = p
         /\ [form EXCEPT !.method = m, !.point = x].method = m /\ [form EXCEPT !.method = m, !.point = x].point = x
         /\ [form EXCEPT !.method = m, !.point = x].place = form.place
<1>1. form \in Bodies
  BY DEF TypeOK
<1> QED BY <1>1 DEF Bodies

-----------------------------------------------------------------------------
(* Type correctness, one group of actions at a time *)
LEMMA EditType ==
  ASSUME TypeOK, Edit
  PROVE  TypeOK'
<1>1. ASSUME NEW p \in Places \cup {NoPlace}, EnterPlace(p)
      PROVE  TypeOK'
  BY <1>1, BudgetType, FormFields DEF EnterPlace, Cancelled, EffectsOf, Kinds, TypeOK, sendVars, pollVars
<1>2. ASSUME NEW m \in Methods, ChooseMethod(m)
      PROVE  TypeOK'
  BY <1>2, BudgetType, FormFields DEF ChooseMethod, Cancelled, Kinds, TypeOK, sendVars, pollVars
<1>3. ASSUME NEW x \in Points, ChoosePoint(x)
      PROVE  TypeOK'
  BY <1>3, BudgetType, FormFields DEF ChoosePoint, TypeOK, sendVars, pollVars
<1> QED BY <1>1, <1>2, <1>3 DEF Edit

LEMMA LookupType ==
  ASSUME TypeOK, FormRight, Lookup
  PROVE  TypeOK'
<1>1. CASE AskMethods
  <2>1. [kind |-> "methods", method |-> NoMethod, place |-> form.place] \in LookupRecords
    BY <1>1 DEF AskMethods, FormRight, LookupsAreCurrent, LookupRecords, Kinds
  <2> QED BY <1>1, <2>1 DEF AskMethods, TypeOK, sendVars, pollVars
<1>2. CASE ClearPoints
  BY <1>2 DEF ClearPoints, TypeOK, sendVars, pollVars
<1>3. CASE AskPoints
  <2>1. [kind |-> "points", method |-> form.method, place |-> form.place] \in LookupRecords
    BY <1>3 DEF AskPoints, LookupRecords, Kinds, TypeOK, Bodies
  <2> QED BY <1>3, <2>1, FormFields DEF AskPoints, TypeOK, sendVars, pollVars
<1>4. ASSUME NEW l \in lookups, AnswerMethods(l)
      PROVE  TypeOK'
  <2>1. MethodsAt[l.place] \subseteq Methods
    BY MethodsAssumption DEF TypeOK, LookupRecords
  <2>2. PICK f \in SelectionAfter(MethodsAt[l.place]) :
          /\ form' = f
          /\ IF f.method = form.method
               THEN lookups' = lookups \ {l} /\ UNCHANGED timers
               ELSE /\ lookups' = Cancelled({"points"}) \ {l}
                    /\ timers' = timers \cup {"points"}
    BY <1>4 DEF AnswerMethods
  <2>3. f \in Bodies
    <3>1. f = form \/ \E m \in Methods \cup {NoMethod} : f = [form EXCEPT !.method = m, !.point = NoPoint]
      BY <2>1 DEF SelectionAfter
    <3> QED BY <3>1, FormFields DEF TypeOK
  <2> QED BY <1>4, <2>1, <2>2, <2>3 DEF AnswerMethods, Cancelled, Kinds, TypeOK, sendVars, pollVars
<1>5. ASSUME NEW l \in lookups, AnswerPoints(l)
      PROVE  TypeOK'
  <2>1. PointsAt(l.method, l.place) \subseteq Points
    BY MethodsAssumption DEF PointsAt, Points
  <2> QED BY <1>5, <2>1 DEF AnswerPoints, TypeOK, sendVars, pollVars
<1> QED BY <1>1, <1>2, <1>3, <1>4, <1>5 DEF Lookup

LEMMA LeaveFormType ==
  ASSUME TypeOK, LeaveForm
  PROVE  /\ form' \in Bodies /\ offered' \subseteq Methods /\ points' \subseteq Points /\ loading' \in BOOLEAN
         /\ timers' \subseteq Kinds /\ failed' \subseteq Kinds /\ lookups' \subseteq LookupRecords
BY DEF LeaveForm, Bodies

LEMMA SubmissionType ==
  ASSUME TypeOK, NEW i \in Submissions, Submit(i) \/ Checkout(i)
  PROVE  TypeOK'
<1>1. CASE Submit(i)
  <2> DEFINE new == [at |-> "sent", body |-> form, reply |-> "none", overlaps |-> \E j \in Submissions : InHand(j)]
  <2>1. request' = [request EXCEPT ![i] = new] /\ new \in Requests
    BY <1>1 DEF Submit, Requests, TypeOK
  <2> HIDE DEF new
  <2>2. Last + 1 \in 1..MaxSubmits
    BY <1>1 DEF Submit, Submissions, Last
  <2>3. budget.submits < MaxSubmits
    BY <2>2, BudgetType, BoundsAssumption DEF Last
  <2>4. waiting' \in 0..MaxSubmits
    BY <1>1 DEF Submit, Submissions
  <2> QED BY <1>1, <2>1, <2>3, <2>4, BudgetType DEF Submit, TypeOK, formVars, pollVars
<1>2. CASE CheckKey(i)
  <2>1. ReplayOrConflict(request[i].body) \in {"order", "error"}
    BY DEF ReplayOrConflict
  <2>2. request' \in [Submissions -> Requests]
    BY <1>2, <2>1, ReplyFields, PhaseFields DEF CheckKey
  <2> QED BY <1>2, <2>2 DEF CheckKey, TypeOK, formVars, pollVars
<1>3. CASE PlaceOrder(i)
  <2>1. request' \in [Submissions -> Requests] /\ request[i].body \in {NoBody} \cup Bodies
    BY <1>3, ReplyFields DEF PlaceOrder, TypeOK, Requests
  <2> QED BY <1>3, <2>1 DEF PlaceOrder, TypeOK, Statuses, formVars, pollVars
<1>4. CASE RefuseOrder(i)
  <2>1. request' \in [Submissions -> Requests]
    BY <1>4, ReplyFields DEF RefuseOrder
  <2> QED BY <1>4, <2>1 DEF RefuseOrder, TypeOK, formVars, pollVars
<1>5. CASE LoseKeyRace(i)
  <2>1. request' \in [Submissions -> Requests]
    BY <1>5, ReplyFields DEF LoseKeyRace
  <2> QED BY <1>5, <2>1 DEF LoseKeyRace, TypeOK, formVars, pollVars
<1>6. CASE AcceptAnswer(i)
  <2>1. request' \in [Submissions -> Requests]
    BY <1>6, PhaseFields DEF AcceptAnswer
  <2>2. PICK next \in {"payment", "polling"} :
          phase' = next /\ poll' = [poll EXCEPT !.at = IF next = "polling" THEN "due" ELSE "idle"]
    BY <1>6 DEF AcceptAnswer
  <2>3. poll' \in Polls
    BY <2>2 DEF Polls, TypeOK
  <2>4. waiting' \in 0..MaxSubmits
    BY <1>6, BoundsAssumption DEF AcceptAnswer
  <2> QED BY <1>6, <2>1, <2>2, <2>3, <2>4, LeaveFormType DEF AcceptAnswer, SaveCheckoutOrder, TypeOK
<1>7. CASE RefusedAnswer(i)
  <2>1. request' \in [Submissions -> Requests]
    BY <1>7, PhaseFields DEF RefusedAnswer
  <2>2. waiting' \in 0..MaxSubmits
    BY <1>7, BoundsAssumption DEF RefusedAnswer
  <2> QED BY <1>7, <2>1, <2>2 DEF RefusedAnswer, TypeOK, formVars, pollVars
<1> QED BY <1>1, <1>2, <1>3, <1>4, <1>5, <1>6, <1>7 DEF Checkout

LEMMA LoseType ==
  ASSUME TypeOK, Lose
  PROVE  TypeOK'
<1>1. ASSUME NEW l \in lookups, LoseLookup(l)
      PROVE  TypeOK'
  BY <1>1, BudgetType DEF LoseLookup, TypeOK, LookupRecords, sendVars, pollVars
<1>2. ASSUME NEW i \in Submissions, LoseAnswer(i)
      PROVE  TypeOK'
  <2>1. 0 \in 0..MaxSubmits
    BY BoundsAssumption
  <2> QED BY <1>2, <2>1, BudgetType DEF LoseAnswer, TypeOK, formVars, pollVars
<1>3. CASE LosePoll
  BY <1>3, BudgetType DEF LosePoll, Polls, TypeOK, formVars, sendVars
<1> QED BY <1>1, <1>2, <1>3 DEF Lose

LEMMA PayAndPollType ==
  ASSUME TypeOK, ConfirmInline \/ ComeBack \/ Polling
  PROVE  TypeOK'
<1>1. CASE ConfirmInline
  BY <1>1 DEF ConfirmInline, StartPolling, Polls, TypeOK, formVars, sendVars
<1>2. CASE ComeBack
  <2>1. paid' \in BOOLEAN
    BY <1>2 DEF ComeBack, TypeOK
  <2>2. phase' \in {"polling", "unknown"} /\ (poll' = [at |-> "due", status |-> "none"] \/ poll' = poll)
    BY <1>2 DEF ComeBack, StartPolling
  <2>3. poll' \in Polls
    BY <2>2 DEF Polls, TypeOK
  <2> QED BY <1>2, <2>1, <2>2, <2>3 DEF ComeBack, TypeOK, formVars, sendVars
<1>3. CASE AskStatus
  BY <1>3, BudgetType DEF AskStatus, Polls, TypeOK, formVars, sendVars
<1>4. CASE ReadStatus
  <2>1. OutcomeOf(poll.status) \in {"polling", "confirmed", "stockLost", "canceled", "timeout"}
    BY DEF OutcomeOf
  <2> QED BY <1>4, <2>1 DEF ReadStatus, Polls, TypeOK, formVars, sendVars
<1>5. CASE GiveUp
  <2>1. [poll EXCEPT !.at = "over"] \in Polls
    BY DEF Polls, TypeOK
  <2> QED BY <1>5, <2>1 DEF GiveUp, TypeOK, formVars, sendVars
<1> QED BY <1>1, <1>2, <1>3, <1>4, <1>5 DEF Polling

OrderMovesOn == Cancel \/ ConfirmPaid \/ FlagStockLost \/ Fulfil \/ Refund

LEMMA OrderMovesType ==
  ASSUME TypeOK, OrderMovesOn
  PROVE  TypeOK' /\ UNCHANGED <<formVars, phase, sendVars, paid, pollVars, stored, budget>>
<1>1. order' \in Statuses /\ UNCHANGED <<formVars, phase, sendVars, paid, pollVars, stored, budget>>
  BY DEF OrderMovesOn, Cancel, ConfirmPaid, FlagStockLost, Fulfil, Refund, OrderMoves, Statuses
<1> QED BY <1>1 DEF TypeOK, formVars, sendVars, pollVars

-----------------------------------------------------------------------------
(* The form *)
LEMMA FormVarsKeep ==
  ASSUME FormRight, UNCHANGED formVars
  PROVE  FormRight'
BY DEF FormRight, SelectionIsShown, SettledFormIsRight, Settled, LookupsAreCurrent, formVars

LEMMA EditKeepsForm ==
  ASSUME TypeOK, FormRight, Edit
  PROVE  FormRight'
<1> USE DEF FormRight, SelectionIsShown, SettledFormIsRight, Settled, LookupsAreCurrent
<1>1. ASSUME NEW p \in Places \cup {NoPlace}, EnterPlace(p)
      PROVE  FormRight'
  <2>1. /\ form'.place = p /\ form'.method = form.method /\ form'.point = form.point
        /\ lookups' = {} /\ timers' = EffectsOf(p) /\ UNCHANGED <<offered, points, loading, failed>>
    <3>1. \A l \in lookups : l.kind \in Kinds
      BY DEF TypeOK, LookupRecords
    <3>2. NoMethod \in Methods \cup {NoMethod} /\ NoPoint \in Points \cup {NoPoint}
      OBVIOUS
    <3>3. form' = [form EXCEPT !.place = p] /\ lookups' = Cancelled(Kinds) /\ timers' = EffectsOf(p)
          /\ UNCHANGED <<offered, points, loading, failed>>
      BY <1>1 DEF EnterPlace
    <3> QED BY <3>1, <3>2, <3>3, FormFields DEF Cancelled
  <2>2. "points" \in timers' /\ ("methods" \in timers' <=> p \in Places)
    BY <2>1 DEF EffectsOf
  <2> QED BY <2>1, <2>2
<1>2. ASSUME NEW m \in Methods, ChooseMethod(m)
      PROVE  FormRight'
  <2>1. /\ form'.place = form.place /\ form'.method = m /\ m \in offered
        /\ lookups' = {l \in lookups : l.kind # "points"} /\ timers' = timers \cup {"points"}
        /\ UNCHANGED <<offered, points, loading, failed>>
    BY <1>2, FormFields DEF ChooseMethod, Cancelled
  <2>2. SelectionIsShown' /\ LookupsAreCurrent'
    BY <2>1
  <2>3. SettledFormIsRight'
    BY <2>1
  <2> QED BY <2>2, <2>3
<1>3. ASSUME NEW x \in Points, ChoosePoint(x)
      PROVE  FormRight'
  <2>1. /\ form'.place = form.place /\ form'.method = form.method /\ form'.point = x /\ x \in points /\ ~loading
        /\ UNCHANGED <<offered, points, loading, timers, lookups, failed>>
    BY <1>3, FormFields DEF ChoosePoint
  <2>2. SelectionIsShown' /\ LookupsAreCurrent'
    BY <2>1
  <2>3. SettledFormIsRight'
    BY <2>1
  <2> QED BY <2>2, <2>3
<1> QED BY <1>1, <1>2, <1>3 DEF Edit

LEMMA LookupKeepsForm ==
  ASSUME TypeOK, FormRight, Lookup
  PROVE  FormRight'
<1> USE DEF FormRight, SelectionIsShown, SettledFormIsRight, Settled, LookupsAreCurrent
<1>1. CASE AskMethods
  <2> DEFINE asked == [kind |-> "methods", method |-> NoMethod, place |-> form.place]
  <2>1. /\ timers' = timers \ {"methods"} /\ lookups' = lookups \cup {asked}
        /\ UNCHANGED <<form, offered, points, loading, failed>>
    BY <1>1 DEF AskMethods
  <2>2. asked.kind = "methods" /\ asked.place = form.place
    OBVIOUS
  <2> HIDE DEF asked
  <2>3. SelectionIsShown' /\ LookupsAreCurrent'
    BY <2>1, <2>2
  <2>4. SettledFormIsRight'
    BY <2>1, <2>2
  <2> QED BY <2>3, <2>4
<1>2. CASE ClearPoints
  <2>1. /\ ~(Required(form.method) /\ form.place \in Places)
        /\ timers' = timers \ {"points"} /\ UNCHANGED <<form, offered, loading, lookups, failed>>
        /\ "points" \in timers
    BY <1>2 DEF ClearPoints
  <2> QED BY <2>1
<1>3. CASE AskPoints
  <2> DEFINE asked == [kind |-> "points", method |-> form.method, place |-> form.place]
  <2>1. /\ timers' = timers \ {"points"} /\ lookups' = lookups \cup {asked} /\ loading' = TRUE
        /\ "points" \in timers /\ UNCHANGED <<offered, points, failed>>
        /\ form'.method = form.method /\ form'.place = form.place /\ form'.point = NoPoint
    BY <1>3, FormFields DEF AskPoints
  <2>2. asked.kind = "points" /\ asked.place = form.place /\ asked.method = form.method
    OBVIOUS
  <2> HIDE DEF asked
  <2>3. SelectionIsShown' /\ LookupsAreCurrent'
    BY <2>1, <2>2
  <2>4. SettledFormIsRight'
    BY <2>1, <2>2
  <2> QED BY <2>3, <2>4
<1>4. ASSUME NEW l \in lookups, AnswerMethods(l)
      PROVE  FormRight'
  <2>1. l.kind = "methods" /\ l.place = form.place /\ offered' = MethodsAt[form.place]
    BY <1>4 DEF AnswerMethods
  <2>2. PICK f \in SelectionAfter(MethodsAt[form.place]) :
          /\ form' = f
          /\ IF f.method = form.method
               THEN lookups' = lookups \ {l} /\ UNCHANGED timers
               ELSE /\ lookups' = Cancelled({"points"}) \ {l}
                    /\ timers' = timers \cup {"points"}
    BY <1>4, <2>1 DEF AnswerMethods
  <2>3. failed' = failed \ {"methods"} /\ UNCHANGED <<points, loading>>
    BY <1>4 DEF AnswerMethods
  <2>4. form.place \in Places /\ MethodsAt[form.place] \subseteq Methods
    BY <2>1, MethodsAssumption DEF TypeOK, LookupRecords
  <2>5. CASE f = form /\ form.method \in MethodsAt[form.place]
    <3>1. lookups' = lookups \ {l} /\ UNCHANGED <<timers, form>>
      BY <2>2, <2>5
    <3>2. SelectionIsShown' /\ LookupsAreCurrent'
      BY <2>1, <2>3, <2>5, <3>1
    <3>3. SettledFormIsRight'
      BY <2>1, <2>3, <3>1
    <3> QED BY <3>2, <3>3
  <2>6. CASE form.method \notin MethodsAt[form.place]
    <3>1. PICK m \in IF MethodsAt[form.place] = {} THEN {NoMethod} ELSE MethodsAt[form.place] :
            f = [form EXCEPT !.method = m, !.point = NoPoint]
      BY <2>2, <2>6 DEF SelectionAfter
    <3>2. form'.method = m /\ form'.point = NoPoint /\ form'.place = form.place
      <4>1. form' = [form EXCEPT !.method = m, !.point = NoPoint]
        BY <2>2, <3>1
      <4>2. form \in Bodies
        BY DEF TypeOK
      <4> QED BY <4>1, <4>2 DEF Bodies
    <3>3. SelectionIsShown'
      BY <2>1, <3>1, <3>2
    <3>4. CASE m = form.method
      <4>1. lookups' = lookups \ {l} /\ UNCHANGED timers
        BY <2>2, <3>2, <3>4
      <4>2. LookupsAreCurrent'
        BY <2>3, <3>2, <3>4, <4>1
      <4>3. SettledFormIsRight'
        BY <2>1, <2>3, <3>2, <3>4, <4>1
      <4> QED BY <3>3, <4>2, <4>3
    <3>5. CASE m # form.method
      <4>1. lookups' = {k \in lookups : k.kind # "points"} \ {l} /\ timers' = timers \cup {"points"}
        BY <2>2, <3>2, <3>5 DEF Cancelled
      <4>2. LookupsAreCurrent'
        BY <2>3, <2>4, <3>2, <4>1
      <4>3. SettledFormIsRight'
        BY <2>1, <3>2, <4>1
      <4> QED BY <3>3, <4>2, <4>3
    <3> QED BY <3>4, <3>5
  <2> QED BY <2>2, <2>5, <2>6 DEF SelectionAfter
<1>5. ASSUME NEW l \in lookups, AnswerPoints(l)
      PROVE  FormRight'
  <2>1. /\ l.kind = "points" /\ l.method = form.method /\ l.place = form.place /\ form.point = NoPoint
        /\ points' \subseteq PointsAt(form.method, form.place) /\ lookups' = lookups \ {l}
        /\ failed' = failed \ {"points"} /\ UNCHANGED <<form, offered, timers>>
    BY <1>5 DEF AnswerPoints
  <2>2. \A k \in lookups : k.kind = "points" => k = l
    <3> SUFFICES ASSUME NEW k \in lookups, k.kind = "points"
                 PROVE  k = l
      OBVIOUS
    <3>1. k \in LookupRecords /\ l \in LookupRecords /\ k.method = l.method /\ k.place = l.place
      BY <2>1 DEF TypeOK
    <3> QED BY <2>1, <3>1 DEF LookupRecords
  <2>3. SelectionIsShown' /\ LookupsAreCurrent'
    BY <2>1, <2>2
  <2>4. SettledFormIsRight'
    BY <2>1
  <2> QED BY <2>3, <2>4
<1> QED BY <1>1, <1>2, <1>3, <1>4, <1>5 DEF Lookup

LEMMA LoseLookupKeepsForm ==
  ASSUME TypeOK, FormRight, NEW l \in lookups, LoseLookup(l)
  PROVE  FormRight'
<1> USE DEF FormRight, SelectionIsShown, SettledFormIsRight, Settled, LookupsAreCurrent
<1>1. /\ lookups' = lookups \ {l} /\ failed' = failed \cup {l.kind} /\ loading' = (loading /\ l.kind # "points")
      /\ UNCHANGED <<form, offered, points, timers>>
  BY DEF LoseLookup
<1>2. \A k \in lookups : k.kind = "points" /\ l.kind = "points" => k = l
  <2> SUFFICES ASSUME NEW k \in lookups, k.kind = "points", l.kind = "points"
               PROVE  k = l
    OBVIOUS
  <2>1. k \in LookupRecords /\ l \in LookupRecords /\ k.method = l.method /\ k.place = l.place
    BY DEF TypeOK
  <2> QED BY <2>1 DEF LookupRecords
<1>3. SelectionIsShown' /\ LookupsAreCurrent'
  BY <1>1, <1>2
<1>4. SettledFormIsRight'
  BY <1>1
<1> QED BY <1>3, <1>4

LEMMA LeavingKeepsForm ==
  ASSUME LeaveForm
  PROVE  FormRight'
BY NothingIsFresh DEF LeaveForm, FormRight, SelectionIsShown, SettledFormIsRight, LookupsAreCurrent

-----------------------------------------------------------------------------
(* Submissions and the key *)
LEMMA SendVarsKeep ==
  ASSUME SendRight, UNCHANGED <<sendVars, order>>, Last' = Last, phase' = phase \/ phase # "form"
  PROVE  SendRight'
<1>1. UNCHANGED <<waiting, request, idempotencyKey, order>>
  BY DEF sendVars
<1>2. LastIsAlone'
  BY <1>1 DEF SendRight, LastIsAlone, InHand
<1> QED BY <1>1, <1>2 DEF SendRight, InHand

LEMMA SubmitKeepsSend ==
  ASSUME TypeOK, SendRight, NEW i \in Submissions, Submit(i)
  PROVE  SendRight'
<1> DEFINE new == [at |-> "sent", body |-> form, reply |-> "none", overlaps |-> \E j \in Submissions : InHand(j)]
<1>1. /\ i = Last + 1 /\ waiting' = i /\ request' = [request EXCEPT ![i] = new] /\ phase = "form"
      /\ UNCHANGED <<phase, idempotencyKey, order>>
  BY DEF Submit, InForm, Last
<1>2. /\ new.at = "sent" /\ new.body \in Bodies /\ new.reply = "none"
      /\ ~new.overlaps => \A j \in Submissions : ~InHand(j)
  BY DEF TypeOK
<1> HIDE DEF new
<1>3. request'[i] = new /\ \A j \in Submissions \ {i} : request'[j] = request[j]
  BY <1>1 DEF TypeOK
<1>4. Last' = i /\ Last \in Nat /\ i \in Nat
  <2>1. budget' = Count("submits") /\ budget.submits < MaxSubmits
    BY <1>1, BudgetType, BoundsAssumption DEF Submit, Submissions, Last
  <2>2. Last \in Nat /\ i \in Nat
    BY BudgetType DEF Submissions
  <2> QED BY <1>1, <2>1, <2>2, BudgetType DEF Last
<1>5. LastIsAlone'
  BY <1>2, <1>3, <1>4 DEF LastIsAlone, InHand
<1>6. \A j \in Submissions :
        /\ request'[j].at # "none" => j <= i /\ request'[j].body \in Bodies
        /\ request'[j].reply = "order" => idempotencyKey # NoBody
        /\ InHand(j)' => request'[j].reply = "none"
  <2> TAKE j \in Submissions
  <2>1. CASE j = i
    BY <1>2, <1>3, <1>4, <2>1
  <2>2. CASE j # i
    <3>1. j \in Nat /\ request'[j] = request[j]
      BY <1>3, <2>2 DEF Submissions
    <3> QED BY <1>1, <1>4, <3>1 DEF SendRight, InHand
  <2> QED BY <2>1, <2>2
<1> QED BY <1>1, <1>4, <1>5, <1>6 DEF SendRight

(* A step of one request that leaves the key as it is. *)
LEMMA AnswerKeepsSend ==
  ASSUME TypeOK, SendRight, NEW i \in Submissions, UNCHANGED <<idempotencyKey, order, budget>>,
         request[i].at # "none",
         \A j \in Submissions \ {i} : request'[j] = request[j],
         request'[i].body = request[i].body, request'[i].overlaps = request[i].overlaps,
         waiting' \in {0, waiting},
         phase' # "form" => phase # "form" \/ (i = Last /\ request[i].reply = "order"),
         phase' # "form" => request'[i].reply = request[i].reply \/ i # Last,
         request'[i].reply = "order" => idempotencyKey # NoBody,
         InHand(i)' => InHand(i) /\ request'[i].reply = "none",
         i = Last /\ ~request[i].overlaps =>
           /\ request'[i].at = "checked" => idempotencyKey = NoBody
           /\ request'[i].reply = "order" => idempotencyKey = request[i].body
  PROVE  SendRight'
<1>1. Last' = Last
  BY DEF Last
<1>2. \A j \in Submissions : InHand(j)' => InHand(j)
  BY DEF InHand
<1>3. LastIsAlone'
  <2> SUFFICES ASSUME Last \in Submissions, ~request[Last].overlaps
               PROVE  /\ \A j \in Submissions \ {Last} : ~InHand(j)'
                      /\ request'[Last].at = "checked" => idempotencyKey = NoBody
                      /\ request'[Last].reply = "order" => idempotencyKey = request'[Last].body
    BY <1>1 DEF LastIsAlone
  <2>1. CASE i = Last
    BY <1>2, <2>1 DEF SendRight, LastIsAlone
  <2>2. CASE i # Last
    BY <1>2, <2>2 DEF SendRight, LastIsAlone
  <2> QED BY <2>1, <2>2
<1>4. waiting' # 0 => waiting' = Last'
  BY <1>1 DEF SendRight
<1>5. phase' # "form" => Last \in Submissions /\ request'[Last].reply = "order"
  BY DEF SendRight
<1>6. \A j \in Submissions :
        /\ request'[j].at # "none" => j <= Last /\ request'[j].body \in Bodies
        /\ request'[j].reply = "order" => idempotencyKey # NoBody
        /\ InHand(j)' => request'[j].reply = "none"
  BY DEF SendRight, InHand
<1> QED BY <1>1, <1>3, <1>4, <1>5, <1>6 DEF SendRight

LEMMA PlaceOrderKeepsSend ==
  ASSUME TypeOK, SendRight, NEW i \in Submissions, PlaceOrder(i)
  PROVE  SendRight'
<1>1. /\ request[i].at = "checked" /\ idempotencyKey = NoBody /\ idempotencyKey' = request[i].body
      /\ order' = "PENDING_PAYMENT" /\ Reply(i, "order") /\ UNCHANGED <<phase, waiting, budget>>
  BY DEF PlaceOrder
<1>2. /\ request'[i].at = "replied" /\ request'[i].body = request[i].body
      /\ request'[i].overlaps = request[i].overlaps
      /\ \A j \in Submissions \ {i} : request'[j] = request[j]
  BY <1>1, ReplyFields
<1>3. idempotencyKey' # NoBody /\ i <= Last
  BY <1>1, NothingIsFresh DEF SendRight
<1>4. phase = "form" /\ Last' = Last
  BY <1>1 DEF SendRight, Last
<1>5. LastIsAlone'
  <2> SUFFICES ASSUME Last \in Submissions, ~request[Last].overlaps
               PROVE  /\ \A j \in Submissions \ {Last} : ~InHand(j)'
                      /\ request'[Last].at = "checked" => idempotencyKey' = NoBody
                      /\ request'[Last].reply = "order" => idempotencyKey' = request'[Last].body
    BY <1>2, <1>4 DEF LastIsAlone
  <2>1. i = Last
    BY <1>1 DEF SendRight, LastIsAlone, InHand
  <2> QED BY <1>1, <1>2, <2>1 DEF SendRight, LastIsAlone, InHand
<1>6. \A j \in Submissions :
        /\ request'[j].at # "none" => j <= Last /\ request'[j].body \in Bodies
        /\ InHand(j)' => request'[j].reply = "none"
  BY <1>1, <1>2 DEF SendRight, InHand
<1> QED BY <1>1, <1>3, <1>4, <1>5, <1>6 DEF SendRight

LEMMA CheckoutKeepsSend ==
  ASSUME TypeOK, SendRight, NEW i \in Submissions, Checkout(i)
  PROVE  SendRight'
<1>1. CASE CheckKey(i)
  <2>1. request[i].at = "sent" /\ UNCHANGED <<idempotencyKey, order, budget, waiting, phase>>
    BY <1>1 DEF CheckKey
  <2>2. CASE idempotencyKey = NoBody
    <3>1. request' = [request EXCEPT ![i].at = "checked"]
      BY <1>1, <2>2 DEF CheckKey
    <3>2. /\ request'[i].at = "checked" /\ request'[i].reply = request[i].reply
          /\ request'[i].body = request[i].body /\ request'[i].overlaps = request[i].overlaps
          /\ \A j \in Submissions \ {i} : request'[j] = request[j]
      BY <3>1, PhaseFields
    <3>3. request[i].reply = "none"
      BY <2>1 DEF SendRight, InHand
    <3> QED BY <2>1, <2>2, <3>2, <3>3, AnswerKeepsSend DEF InHand
  <2>3. CASE idempotencyKey # NoBody
    <3> DEFINE what == ReplayOrConflict(request[i].body)
    <3>1. Reply(i, what) /\ what \in {"order", "error"} /\ (what = "order" => idempotencyKey = request[i].body)
      BY <1>1, <2>3 DEF CheckKey, ReplayOrConflict
    <3> HIDE DEF what
    <3>2. /\ request'[i].at = "replied" /\ request'[i].reply = what
          /\ request'[i].body = request[i].body /\ request'[i].overlaps = request[i].overlaps
          /\ \A j \in Submissions \ {i} : request'[j] = request[j]
      BY <3>1, ReplyFields
    <3>3. phase # "form" => i # Last
      BY <2>1 DEF SendRight, InHand
    <3> QED BY <2>1, <2>3, <3>1, <3>2, <3>3, AnswerKeepsSend DEF InHand
  <2> QED BY <2>2, <2>3
<1>2. CASE RefuseOrder(i)
  <2>1. /\ request[i].at \in {"sent", "checked"} /\ UNCHANGED <<idempotencyKey, order, budget, waiting, phase>>
        /\ Reply(i, "error")
    BY <1>2 DEF RefuseOrder
  <2>2. /\ request'[i].at = "replied" /\ request'[i].reply = "error"
        /\ request'[i].body = request[i].body /\ request'[i].overlaps = request[i].overlaps
        /\ \A j \in Submissions \ {i} : request'[j] = request[j]
    BY <2>1, ReplyFields
  <2>3. phase # "form" => i # Last
    BY <2>1 DEF SendRight, InHand
  <2> QED BY <2>1, <2>2, <2>3, AnswerKeepsSend DEF InHand
<1>3. CASE LoseKeyRace(i)
  <2>1. PICK what \in {"order", "error"} : Reply(i, what)
    BY <1>3 DEF LoseKeyRace
  <2>2. /\ request[i].at = "checked" /\ idempotencyKey # NoBody
        /\ UNCHANGED <<idempotencyKey, order, budget, waiting, phase>>
    BY <1>3 DEF LoseKeyRace
  <2>3. /\ request'[i].at = "replied" /\ request'[i].reply = what
        /\ request'[i].body = request[i].body /\ request'[i].overlaps = request[i].overlaps
        /\ \A j \in Submissions \ {i} : request'[j] = request[j]
    BY <2>1, ReplyFields
  <2>4. i = Last => request[i].overlaps /\ phase = "form"
    BY <2>2 DEF SendRight, LastIsAlone, InHand
  <2> QED BY <2>2, <2>3, <2>4, AnswerKeepsSend DEF InHand
<1>4. CASE AcceptAnswer(i) \/ RefusedAnswer(i)
  <2>1. /\ waiting = i /\ request[i].at = "replied" /\ request' = [request EXCEPT ![i].at = "over"]
        /\ waiting' = 0 /\ UNCHANGED <<idempotencyKey, order, budget>>
        /\ request[i].reply = "order" \/ phase' = phase
    BY <1>4 DEF AcceptAnswer, RefusedAnswer
  <2>2. /\ request'[i].at = "over" /\ request'[i].reply = request[i].reply
        /\ request'[i].body = request[i].body /\ request'[i].overlaps = request[i].overlaps
        /\ \A j \in Submissions \ {i} : request'[j] = request[j]
    BY <2>1, PhaseFields
  <2>3. i = Last /\ (request[i].reply = "order" => idempotencyKey # NoBody)
    BY <2>1 DEF SendRight, Submissions
  <2>4. ~request[i].overlaps /\ request[i].reply = "order" => idempotencyKey = request[i].body
    BY <2>3 DEF SendRight, LastIsAlone
  <2> QED BY <2>1, <2>2, <2>3, <2>4, AnswerKeepsSend DEF InHand
<1> QED BY <1>1, <1>2, <1>3, <1>4, PlaceOrderKeepsSend DEF Checkout

LEMMA OrderMovesKeepSend ==
  ASSUME SendRight, OrderMovesOn
  PROVE  SendRight'
<1>1. /\ order # "NONE" /\ order' # "NONE" /\ UNCHANGED <<phase, sendVars, budget>>
  BY DEF OrderMovesOn, Cancel, ConfirmPaid, FlagStockLost, Fulfil, Refund, OrderMoves
<1>2. UNCHANGED <<waiting, request, idempotencyKey, phase>> /\ Last' = Last
  BY <1>1 DEF sendVars, Last
<1>3. LastIsAlone'
  BY <1>2 DEF SendRight, LastIsAlone, InHand
<1> QED BY <1>1, <1>2, <1>3 DEF SendRight, InHand

-----------------------------------------------------------------------------
(* The order and what the page says of it *)
LEMMA OrderVarsKeep ==
  ASSUME OrderRight, UNCHANGED <<order, outcome>>, paid' = paid \/ paid' = TRUE, poll'.status \in {poll.status, "none"}
  PROVE  OrderRight'
BY DEF OrderRight, Still, OutcomeIsTrue

LEMMA OrderMovesKeepOrder ==
  ASSUME OrderRight, OrderMovesOn
  PROVE  OrderRight'
<1>1. UNCHANGED <<paid, poll, outcome>>
  BY DEF OrderMovesOn, Cancel, ConfirmPaid, FlagStockLost, Fulfil, Refund, OrderMoves, pollVars
<1>2. order' = "CANCELED" \/ paid
  BY DEF OrderMovesOn, Cancel, ConfirmPaid, FlagStockLost, Fulfil, Refund, OrderMoves, OrderRight
<1>3. ASSUME NEW status, Still(status)
      PROVE  Still(status)'
  BY <1>1, <1>2, <1>3 DEF OrderMovesOn, Cancel, ConfirmPaid, FlagStockLost, Fulfil, Refund, OrderMoves, Still
<1>4. OutcomeIsTrue'
  BY <1>1, <1>2 DEF OrderRight, OrderMovesOn, Cancel, ConfirmPaid, FlagStockLost, Fulfil, Refund, OrderMoves, OutcomeIsTrue
<1>5. Still(poll.status)'
  BY <1>1, <1>3 DEF OrderRight, Still
<1> QED BY <1>1, <1>2, <1>4, <1>5 DEF OrderRight

LEMMA PollingKeepsOrder ==
  ASSUME TypeOK, OrderRight, Polling
  PROVE  OrderRight'
<1>1. CASE AskStatus
  <2>1. PICK seen \in {order, "refused"} : poll' = [at |-> "answered", status |-> seen]
    BY <1>1 DEF AskStatus
  <2>2. poll'.status = seen /\ UNCHANGED <<order, paid, outcome>>
    BY <1>1, <2>1 DEF AskStatus
  <2>3. Still(seen)
    BY DEF OrderRight, Still
  <2> QED BY <2>2, <2>3 DEF OrderRight, Still, OutcomeIsTrue
<1>2. CASE ReadStatus
  <2>1. outcome' = OutcomeOf(poll.status) /\ poll'.status = "none" /\ UNCHANGED <<order, paid>>
    BY <1>2 DEF ReadStatus
  <2>2. OutcomeIsTrue'
    BY <2>1 DEF OutcomeOf, OutcomeIsTrue, OrderRight, Still
  <2> QED BY <2>1, <2>2 DEF OrderRight, Still
<1>3. CASE GiveUp
  <2>1. outcome' = "timeout" /\ poll'.status = poll.status /\ UNCHANGED <<order, paid>>
    BY <1>3 DEF GiveUp, TypeOK, Polls
  <2> QED BY <2>1 DEF OrderRight, Still, OutcomeIsTrue
<1> QED BY <1>1, <1>2, <1>3 DEF Polling

LEMMA PlaceOrderKeepsOrder ==
  ASSUME SendRight, OrderRight, NEW i \in Submissions, PlaceOrder(i)
  PROVE  OrderRight'
<1>1. order = "NONE" /\ order' = "PENDING_PAYMENT" /\ UNCHANGED <<paid, poll, outcome>>
  BY DEF PlaceOrder, SendRight, pollVars
<1> QED BY <1>1 DEF OrderRight, Still, OutcomeIsTrue

LEMMA CheckoutKeepsOrder ==
  ASSUME TypeOK, SendRight, OrderRight, NEW i \in Submissions, Checkout(i)
  PROVE  OrderRight'
<1>1. CASE CheckKey(i) \/ RefuseOrder(i) \/ LoseKeyRace(i) \/ RefusedAnswer(i)
  <2>1. UNCHANGED <<order, paid, poll, outcome>>
    BY <1>1 DEF CheckKey, RefuseOrder, LoseKeyRace, RefusedAnswer, pollVars
  <2> QED BY <2>1, OrderVarsKeep
<1>2. CASE AcceptAnswer(i)
  <2>1. PICK next \in {"payment", "polling"} : poll' = [poll EXCEPT !.at = IF next = "polling" THEN "due" ELSE "idle"]
    BY <1>2 DEF AcceptAnswer
  <2>2. poll'.status = poll.status /\ UNCHANGED <<order, paid, outcome>>
    BY <1>2, <2>1 DEF AcceptAnswer, TypeOK, Polls
  <2> QED BY <2>2, OrderVarsKeep
<1> QED BY <1>1, <1>2, PlaceOrderKeepsOrder DEF Checkout

-----------------------------------------------------------------------------
(* The invariant *)
LEMMA Initially ==
  ASSUME Init
  PROVE  IInv
<1>1. PICK m \in Methods \cup {NoMethod}, p \in Places \cup {NoPlace} :
        /\ m \in IF offered = {} THEN {NoMethod} ELSE offered
        /\ form = [method |-> m, point |-> NoPoint, place |-> p] /\ timers = EffectsOf(p)
  <2>1. MethodsAt[NoPlace] \subseteq Methods
    BY MethodsAssumption
  <2> QED BY <2>1 DEF Init
<1>2. DEFINE idle == [at |-> "none", body |-> NoBody, reply |-> "none", overlaps |-> FALSE]
<1>3. idle \in Requests /\ idle.at = "none" /\ idle.reply = "none"
  BY DEF Requests
<1>4. request = [i \in Submissions |-> idle]
  BY DEF Init
<1> HIDE DEF idle
<1>5. TypeOK
  <2>1. form \in Bodies /\ timers \subseteq Kinds
    BY <1>1 DEF Bodies, EffectsOf, Kinds
  <2>2. poll \in Polls /\ budget \in Budgets /\ 0 \in 0..MaxSubmits
    BY BoundsAssumption DEF Init, Polls, Budgets
  <2>3. offered \subseteq Methods
    BY MethodsAssumption DEF Init
  <2> QED BY <1>3, <1>4, <2>1, <2>2, <2>3 DEF Init, TypeOK, Statuses
<1>6. FormRight
  <2>1. form.method = m /\ form.place = p /\ form.point = NoPoint
    BY <1>1
  <2>2. "points" \in timers /\ ("methods" \in timers <=> p \in Places)
    BY <1>1 DEF EffectsOf
  <2>3. lookups = {}
    BY DEF Init
  <2> QED BY <1>1, <2>1, <2>2, <2>3 DEF FormRight, SelectionIsShown, SettledFormIsRight, Settled, LookupsAreCurrent
<1>7. SendRight
  <2>1. Last = 0 /\ Last \notin Submissions
    BY DEF Init, Last, Submissions
  <2> QED BY <1>3, <1>4, <2>1 DEF Init, SendRight, LastIsAlone, InHand
<1>8. OrderRight
  BY DEF Init, OrderRight, Still, OutcomeIsTrue
<1> QED BY <1>5, <1>6, <1>7, <1>8 DEF IInv

LEMMA Inductive ==
  ASSUME IInv, [Next]_vars
  PROVE  IInv'
<1> USE DEF IInv
<1>1. CASE Edit
  <2>1. UNCHANGED <<phase, sendVars, order, paid, pollVars>> /\ Last' = Last
    BY <1>1, BudgetType DEF Edit, EnterPlace, ChooseMethod, ChoosePoint, Last
  <2> QED BY <1>1, <2>1, EditType, EditKeepsForm, SendVarsKeep, OrderVarsKeep DEF sendVars, pollVars
<1>2. CASE Lookup
  <2>1. UNCHANGED <<phase, sendVars, order, paid, pollVars, budget>>
    BY <1>2 DEF Lookup, AskMethods, ClearPoints, AskPoints, AnswerMethods, AnswerPoints
  <2> QED BY <1>2, <2>1, LookupType, LookupKeepsForm, SendVarsKeep, OrderVarsKeep DEF sendVars, pollVars, Last
<1>3. CASE Lose
  <2>1. TypeOK'
    BY <1>3, LoseType
  <2>2. ASSUME NEW l \in lookups, LoseLookup(l)
        PROVE  IInv'
    <3>1. UNCHANGED <<phase, sendVars, order, paid, pollVars>> /\ Last' = Last
      BY <2>2, BudgetType DEF LoseLookup, Last
    <3> QED BY <2>1, <2>2, <3>1, LoseLookupKeepsForm, SendVarsKeep, OrderVarsKeep DEF sendVars, pollVars
  <2>3. ASSUME NEW i \in Submissions, LoseAnswer(i)
        PROVE  IInv'
    <3>1. /\ UNCHANGED <<formVars, phase, request, idempotencyKey, order, paid, pollVars>> /\ Last' = Last
          /\ waiting' = 0
      BY <2>3, BudgetType DEF LoseAnswer, Last
    <3>2. SendRight'
      <4>1. LastIsAlone'
        BY <3>1 DEF SendRight, LastIsAlone, InHand
      <4> QED BY <3>1, <4>1 DEF SendRight, InHand
    <3> QED BY <2>1, <3>1, <3>2, FormVarsKeep, OrderVarsKeep DEF pollVars
  <2>4. CASE LosePoll
    <3>1. /\ UNCHANGED <<formVars, phase, sendVars, order, paid, outcome>> /\ Last' = Last /\ poll'.status = "none"
      BY <2>4, BudgetType DEF LosePoll, Last
    <3> QED BY <2>1, <3>1, FormVarsKeep, SendVarsKeep, OrderVarsKeep DEF sendVars
  <2> QED BY <1>3, <2>2, <2>3, <2>4 DEF Lose
<1>4. ASSUME NEW i \in Submissions, Submit(i) \/ Checkout(i)
      PROVE  IInv'
  <2>1. TypeOK'
    BY <1>4, SubmissionType
  <2>2. FormRight'
    <3>1. CASE AcceptAnswer(i)
      BY <3>1, LeavingKeepsForm DEF AcceptAnswer
    <3>2. CASE ~AcceptAnswer(i)
      <4>1. UNCHANGED formVars
        BY <1>4, <3>2 DEF Submit, Checkout, CheckKey, PlaceOrder, RefuseOrder, LoseKeyRace, RefusedAnswer
      <4> QED BY <4>1, FormVarsKeep
    <3> QED BY <3>1, <3>2
  <2>3. SendRight'
    BY <1>4, SubmitKeepsSend, CheckoutKeepsSend
  <2>4. OrderRight'
    <3>1. CASE Submit(i)
      <4>1. UNCHANGED <<order, paid, poll, outcome>>
        BY <3>1 DEF Submit, pollVars
      <4> QED BY <4>1, OrderVarsKeep
    <3> QED BY <1>4, <3>1, CheckoutKeepsOrder
  <2> QED BY <2>1, <2>2, <2>3, <2>4
<1>5. CASE ConfirmInline \/ ComeBack
  <2>1. /\ UNCHANGED <<formVars, sendVars, order, outcome, budget>> /\ phase # "form"
        /\ (paid' = paid \/ paid' = TRUE) /\ (poll' = poll \/ poll' = [at |-> "due", status |-> "none"])
    BY <1>5 DEF ConfirmInline, ComeBack, StartPolling
  <2>2. TypeOK' /\ FormRight'
    BY <1>5, <2>1, PayAndPollType, FormVarsKeep
  <2>3. SendRight'
    BY <2>1, SendVarsKeep DEF Last
  <2>4. poll'.status \in {poll.status, "none"}
    BY <2>1
  <2>5. OrderRight'
    BY <2>1, <2>4, OrderVarsKeep
  <2> QED BY <2>2, <2>3, <2>5
<1>6. CASE Polling
  <2>1. UNCHANGED <<formVars, phase, sendVars, order, paid>> /\ Last' = Last
    BY <1>6, BudgetType DEF Polling, AskStatus, ReadStatus, GiveUp, Last
  <2> QED BY <1>6, <2>1, PayAndPollType, FormVarsKeep, SendVarsKeep, PollingKeepsOrder DEF sendVars
<1>7. CASE OrderMovesOn
  BY <1>7, OrderMovesType, FormVarsKeep, OrderMovesKeepSend, OrderMovesKeepOrder
<1>8. CASE UNCHANGED vars
  <2>1. UNCHANGED <<formVars, phase, sendVars, order, paid, pollVars, stored, budget>>
    BY <1>8 DEF vars
  <2>2. TypeOK'
    BY <2>1 DEF TypeOK, formVars, sendVars, pollVars
  <2> QED BY <2>1, <2>2, FormVarsKeep, SendVarsKeep, OrderVarsKeep DEF sendVars, pollVars, Last
<1> QED BY <1>1, <1>2, <1>3, <1>4, <1>5, <1>6, <1>7, <1>8 DEF Next, OrderMovesOn

LEMMA Invariance == Spec => []IInv
BY Initially, Inductive, PTL DEF Spec

(* Every variable keeps its type.                                          *)
THEOREM TypeCorrect == Spec => []TypeOK
<1>1. IInv => TypeOK
  BY DEF IInv
<1> QED BY <1>1, Invariance, PTL

(* The form never shows a list of methods without its selection.           *)
THEOREM FormShowsSelection == Spec => []SelectionIsShown
<1>1. IInv => SelectionIsShown
  BY DEF IInv, FormRight
<1> QED BY <1>1, Invariance, PTL

(* However the lookups of CheckoutForm are timed, cancelled and answered,  *)
(* the form they leave behind is the one for the address that is in it.    *)
THEOREM SettledFormIsCurrent == Spec => []SettledFormIsRight
<1>1. IInv => SettledFormIsRight
  BY DEF IInv, FormRight
<1> QED BY <1>1, Invariance, PTL

(* The order the tab pays for is the one its last submission described,    *)
(* unless that was sent while an earlier one was in the API's hands.       *)
THEOREM OrderPaidIsOrderSent == Spec => []PaysForWhatWasSent
<1>1. IInv => PaysForWhatWasSent
  BY NothingIsFresh DEF IInv, SendRight, LastIsAlone, PaysForWhatWasSent, Last
<1> QED BY <1>1, Invariance, PTL

(* What the poller tells the customer is true of the order.                *)
THEOREM ToldOutcomeIsTrue == Spec => []OutcomeIsTrue
<1>1. IInv => OutcomeIsTrue
  BY DEF IInv, OrderRight
<1> QED BY <1>1, Invariance, PTL
-----------------------------------------------------------------------------
(* What the page waits for is on its way.                                  *)
LoadingHasReason ==
  loading /\ Required(form.method) /\ form.place \in Places =>
    "points" \in timers \/ \E l \in lookups : l.kind = "points"
SendingHasReason ==
  waiting # 0 =>
    /\ InForm /\ request[waiting].at \in {"sent", "checked", "replied"}
    /\ request[waiting].at = "replied" => request[waiting].reply # "none"
PollingHasReason == phase = "polling" => poll.at # "idle"

LEMMA LoadingGoesOn ==
  ASSUME TypeOK, FormRight, LoadingHasReason, [Next]_vars
  PROVE  LoadingHasReason'
<1>1. CASE Edit
  <2>1. ASSUME NEW p \in Places \cup {NoPlace}, EnterPlace(p)
        PROVE  "points" \in timers'
    BY <2>1 DEF EnterPlace, EffectsOf
  <2>2. ASSUME NEW m \in Methods, ChooseMethod(m)
        PROVE  "points" \in timers'
    BY <2>2 DEF ChooseMethod
  <2>3. ASSUME NEW x \in Points, ChoosePoint(x)
        PROVE  ~loading'
    BY <2>3 DEF ChoosePoint
  <2> QED BY <1>1, <2>1, <2>2, <2>3 DEF Edit, LoadingHasReason
<1>2. CASE Lookup
  <2>1. CASE AskMethods
    BY <2>1 DEF AskMethods, LoadingHasReason
  <2>2. CASE ClearPoints
    BY <2>2 DEF ClearPoints, LoadingHasReason
  <2>3. CASE AskPoints
    <3>1. [kind |-> "points", method |-> form.method, place |-> form.place] \in lookups'
      BY <2>3 DEF AskPoints
    <3> QED BY <3>1 DEF LoadingHasReason
  <2>4. ASSUME NEW l \in lookups, AnswerMethods(l)
        PROVE  LoadingHasReason'
    <3>1. /\ l.kind = "methods" /\ loading' = loading
          /\ \/ form'.method = form.method /\ lookups' = lookups \ {l} /\ timers' = timers
             \/ "points" \in timers'
      BY <2>4 DEF AnswerMethods
    <3>2. form'.place = form.place
      <4>1. form' = form \/ \E m : form' = [form EXCEPT !.method = m, !.point = NoPoint]
        BY <2>4 DEF AnswerMethods, SelectionAfter
      <4>2. form \in Bodies
        BY DEF TypeOK
      <4> QED BY <4>1, <4>2 DEF Bodies
    <3> QED BY <3>1, <3>2 DEF LoadingHasReason
  <2>5. ASSUME NEW l \in lookups, AnswerPoints(l)
        PROVE  ~loading'
    BY <2>5 DEF AnswerPoints
  <2> QED BY <1>2, <2>1, <2>2, <2>3, <2>4, <2>5 DEF Lookup, LoadingHasReason
<1>3. CASE Lose
  <2>1. ASSUME NEW l \in lookups, LoseLookup(l)
        PROVE  LoadingHasReason'
    BY <2>1 DEF LoseLookup, LoadingHasReason
  <2>2. (\E i \in Submissions : LoseAnswer(i)) \/ LosePoll => UNCHANGED formVars
    BY DEF LoseAnswer, LosePoll
  <2> QED BY <1>3, <2>1, <2>2 DEF Lose, LoadingHasReason, formVars
<1>4. ASSUME NEW i \in Submissions, Submit(i) \/ Checkout(i)
      PROVE  LoadingHasReason'
  <2>1. ~loading' \/ UNCHANGED formVars
    BY <1>4 DEF Submit, Checkout, CheckKey, PlaceOrder, RefuseOrder, LoseKeyRace, AcceptAnswer, LeaveForm, RefusedAnswer
  <2> QED BY <2>1 DEF LoadingHasReason, formVars
<1>5. CASE ConfirmInline \/ ComeBack \/ Polling \/ OrderMovesOn \/ UNCHANGED vars
  <2>1. UNCHANGED formVars
    BY <1>5, Zenon DEF ConfirmInline, ComeBack, Polling, AskStatus, ReadStatus, GiveUp, OrderMovesOn, Cancel,
       ConfirmPaid, FlagStockLost, Fulfil, Refund, OrderMoves, vars
  <2> QED BY <2>1 DEF LoadingHasReason, formVars
<1> QED BY <1>1, <1>2, <1>3, <1>4, <1>5 DEF Next, OrderMovesOn

LEMMA SendingKept ==
  ASSUME SendingHasReason, PollingHasReason, UNCHANGED <<phase, waiting, request, poll>>
  PROVE  SendingHasReason' /\ PollingHasReason'
BY DEF SendingHasReason, PollingHasReason, InForm

LEMMA SendingGoesOn ==
  ASSUME TypeOK, SendRight, SendingHasReason, PollingHasReason, [Next]_vars
  PROVE  SendingHasReason' /\ PollingHasReason'
<1>1. CASE Edit \/ Lookup \/ OrderMovesOn \/ UNCHANGED vars \/ \E l \in lookups : LoseLookup(l)
  <2>1. UNCHANGED <<phase, sendVars, pollVars>>
    BY <1>1, Zenon DEF Edit, EnterPlace, ChooseMethod, ChoosePoint, Lookup, AskMethods, ClearPoints, AskPoints,
       AnswerMethods, AnswerPoints, LoseLookup, OrderMovesOn, Cancel, ConfirmPaid, FlagStockLost, Fulfil, Refund,
       OrderMoves, vars
  <2> QED BY <2>1, SendingKept DEF sendVars, pollVars
<1>2. ASSUME NEW i \in Submissions, LoseAnswer(i)
      PROVE  SendingHasReason' /\ PollingHasReason'
  BY <1>2 DEF LoseAnswer, SendingHasReason, PollingHasReason, pollVars
<1>3. ASSUME NEW i \in Submissions, Submit(i) \/ Checkout(i)
      PROVE  SendingHasReason' /\ PollingHasReason'
  <2>1. CASE Submit(i)
    <3>1. InForm /\ waiting' = i /\ request'[i].at = "sent" /\ UNCHANGED <<phase, poll>>
      BY <2>1 DEF Submit, pollVars, TypeOK
    <3> QED BY <3>1 DEF SendingHasReason, PollingHasReason, InForm
  <2>2. CASE CheckKey(i) \/ PlaceOrder(i) \/ RefuseOrder(i) \/ LoseKeyRace(i)
    <3>1. UNCHANGED <<phase, waiting, poll>>
      BY <2>2 DEF CheckKey, PlaceOrder, RefuseOrder, LoseKeyRace, pollVars
    <3>2. \/ request' = [request EXCEPT ![i].at = "checked"]
          \/ \E what \in {"order", "error"} : Reply(i, what)
      BY <2>2 DEF CheckKey, ReplayOrConflict, PlaceOrder, RefuseOrder, LoseKeyRace
    <3>3. /\ request'[i].at \in {"checked", "replied"}
          /\ request'[i].at = "replied" => request'[i].reply # "none"
          /\ \A j \in Submissions \ {i} : request'[j] = request[j]
      BY <3>2, ReplyFields, PhaseFields
    <3>4. waiting # 0 => waiting \in Submissions
      BY DEF TypeOK, Submissions
    <3> QED BY <3>1, <3>3, <3>4 DEF SendingHasReason, PollingHasReason, InForm
  <2>3. CASE AcceptAnswer(i)
    <3>1. PICK next \in {"payment", "polling"} :
            phase' = next /\ poll' = [poll EXCEPT !.at = IF next = "polling" THEN "due" ELSE "idle"]
      BY <2>3 DEF AcceptAnswer
    <3>2. waiting' = 0 /\ (phase' = "polling" => poll'.at = "due")
      BY <2>3, <3>1 DEF AcceptAnswer, TypeOK, Polls
    <3> QED BY <3>2 DEF SendingHasReason, PollingHasReason
  <2>4. CASE RefusedAnswer(i)
    BY <2>4 DEF RefusedAnswer, SendingHasReason, PollingHasReason, pollVars
  <2> QED BY <1>3, <2>1, <2>2, <2>3, <2>4 DEF Checkout
<1>4. CASE ConfirmInline \/ ComeBack
  <2>1. /\ phase # "form" /\ UNCHANGED <<waiting, request>>
        /\ phase' = "unknown" \/ poll' = [at |-> "due", status |-> "none"]
    BY <1>4 DEF ConfirmInline, ComeBack, StartPolling, sendVars
  <2>2. waiting = 0
    BY <2>1 DEF SendingHasReason, InForm
  <2> QED BY <2>1, <2>2 DEF SendingHasReason, PollingHasReason
<1>5. CASE Polling \/ LosePoll
  <2>1. UNCHANGED <<phase, sendVars>> /\ phase = "polling"
    BY <1>5 DEF Polling, AskStatus, ReadStatus, GiveUp, LosePoll
  <2>2. poll'.at \in {"answered", "due", "over", "broken"}
    BY <1>5 DEF Polling, AskStatus, ReadStatus, GiveUp, LosePoll, TypeOK, Polls
  <2> QED BY <2>1, <2>2 DEF SendingHasReason, PollingHasReason, InForm, sendVars
<1> QED BY <1>1, <1>2, <1>3, <1>4, <1>5 DEF Next, Lose, OrderMovesOn

(* The submit button and the two spinners of the page never wait for       *)
(* something that was cancelled, answered or never asked for.              *)
THEOREM NothingWaitsForNothing == Spec => []SpinsForSomething
<1> DEFINE Reasons == LoadingHasReason /\ SendingHasReason /\ PollingHasReason
<1>1. Init => Reasons
  BY DEF Init, LoadingHasReason, SendingHasReason, PollingHasReason
<1>2. IInv /\ Reasons /\ [Next]_vars => Reasons'
  BY LoadingGoesOn, SendingGoesOn DEF IInv
<1>3. Reasons => SpinsForSomething
  BY DEF LoadingHasReason, SendingHasReason, PollingHasReason, SpinsForSomething
<1> HIDE DEF Reasons
<1> QED BY <1>1, <1>2, <1>3, Invariance, PTL DEF Spec
=============================================================================
