----------------------------- MODULE StaffProofs -----------------------------
(***************************************************************************)
(* What staff work with.  First the task board: what the sweep of          *)
(* TaskAutomationService never does to it, for any rows, any number of     *)
(* instances sweeping at once, admins and failures.  Then their access:    *)
(* staff can always be administered, and rights are handed on but never    *)
(* made, for any users, roles and number of requests.                      *)
(***************************************************************************)
EXTENDS TaskBoard, StaffAccess, TLAPS

(* What a closing step waits for is over and cannot come back.             *)
Past(about) ==
  LET type == about[1]  x == about[2] IN
  \/ type \in Checklist \cup {"FOLLOW_UP_DELAYED_ORDER"} /\ order[x] # "IN_PRODUCTION"
  \/ type = "SHIP_ORDER" /\ order[x] \in {"SHIPPED", "REFUNDED"}
  \/ type = "FOLLOW_UP_PENDING_REFUND" /\ refund[x] \in {"SUCCEEDED", "FAILED"}

(* A refund that was never asked for has no follow-up.                     *)
Asked(about) == about[1] = "FOLLOW_UP_PENDING_REFUND" => refund[about[2]] # "NONE"

(* However old what a sweep has read is, it is still good for its step.    *)
ReadingHolds(s) ==
  \A about \in sweep[s].seen :
    /\ sweep[s].at > 0 /\ about[1] \in Step(s).types /\ Asked(about)
    /\ sweep[s].phase = "write" /\ Step(s).does # "open" /\ about[1] # "RESTOCK" => Past(about)
ReadingsHold == \A s \in Sweepers : ReadingHolds(s)

SweptIsPast == \A t \in swept : TypeOf(t) # "RESTOCK" => Past(t[1])
TasksAreAskedFor == \A about \in Subjects : task[Automated(about)] # "NONE" => Asked(about)

IInv == TypeOK /\ ReadingsHold /\ SweptIsPast /\ TasksAreAskedFor

-----------------------------------------------------------------------------
(* The plan and the rows *)
Listed == {"FOLLOW_UP_DELAYED_ORDER", "RESTOCK", "FOLLOW_UP_PENDING_REFUND"}

Fits(step) ==
  /\ step.does \in {"open", "close where", "close listed"}
  /\ step.does = "close where" => step.types \subseteq Checklist \cup {"SHIP_ORDER"}
  /\ step.does = "close listed" => step.types \subseteq Listed

LEMMA PlanSteps == Len(Plan) = 12 /\ \A i \in 1..12 : Fits(Plan[i])
<1>1. /\ Len(Plan) = 12
      /\ Plan[1] = Opens(Checklist) /\ Plan[2] = ClosesWhere(Checklist)
      /\ Plan[3] = Opens({"SHIP_ORDER"}) /\ Plan[4] = ClosesWhere({"SHIP_ORDER"})
      /\ Plan[5] = Opens({"FOLLOW_UP_DELAYED_ORDER"}) /\ Plan[6] = ClosesListed({"FOLLOW_UP_DELAYED_ORDER"})
      /\ Plan[7] = Opens({"RESTOCK"}) /\ Plan[8] = ClosesListed({"RESTOCK"})
      /\ Plan[9] = Opens({"CUSTOMER_FOLLOW_UP"})
      /\ Plan[10] = Opens({"FOLLOW_UP_PENDING_REFUND"}) /\ Plan[11] = ClosesListed({"FOLLOW_UP_PENDING_REFUND"})
      /\ Plan[12] = Opens({"FOLLOW_UP_FAILED_REFUND"})
  BY DEF Plan
<1>2. ASSUME NEW types
      PROVE  /\ Fits(Opens(types))
             /\ types \subseteq Checklist \cup {"SHIP_ORDER"} => Fits(ClosesWhere(types))
             /\ types \subseteq Listed => Fits(ClosesListed(types))
  BY DEF Fits, Opens, ClosesWhere, ClosesListed
<1>3. /\ Fits(Plan[1]) /\ Fits(Plan[2]) /\ Fits(Plan[3]) /\ Fits(Plan[4]) /\ Fits(Plan[5])
      /\ Fits(Plan[6]) /\ Fits(Plan[7]) /\ Fits(Plan[8]) /\ Fits(Plan[9]) /\ Fits(Plan[10])
      /\ Fits(Plan[11]) /\ Fits(Plan[12])
  BY <1>1, <1>2 DEF Listed
<1>4. \A i \in 1..12 : i = 1 \/ i = 2 \/ i = 3 \/ i = 4 \/ i = 5 \/ i = 6 \/ i = 7 \/ i = 8 \/ i = 9
                        \/ i = 10 \/ i = 11 \/ i = 12
  OBVIOUS
<1> QED BY <1>1, <1>3, <1>4

LEMMA SubjectRows ==
  ASSUME NEW about \in Subjects
  PROVE  /\ about[1] \in OrderTypes => about[2] \in Orders
         /\ about[1] \in RefundTypes => about[2] \in Refunds
         /\ Automated(about) \in Tasks /\ Automated(about)[1] = about /\ Automated(about)[2] = "AUTOMATED"
BY ChecklistIsApart DEF Subjects, OrderTypes, RefundTypes, Automated, Tasks, Sources

LEMMA SweepType ==
  ASSUME TypeOK, NEW s \in Sweepers
  PROVE  /\ sweep[s] \in [at : 0..12, phase : {"read", "compare", "write"}, seen : SUBSET Subjects]
         /\ sweep[s].at \in 0..12 /\ sweep[s].seen \subseteq Subjects
BY PlanSteps DEF TypeOK

LEMMA PastIsOver ==
  ASSUME NEW about \in Subjects, Past(about)
  PROVE  ~Due(about) /\ ~StillHolds(about)
BY ChecklistIsApart DEF Past, Due, StillHolds

LEMMA OverIsPast ==
  ASSUME NEW about \in Subjects, OverForOrder(about)
  PROVE  Past(about)
BY DEF OverForOrder, Past

LEMMA NotHoldingIsPast ==
  ASSUME TypeOK, NEW about \in Subjects, about[1] \in Listed, Asked(about), ~StillHolds(about), about[1] # "RESTOCK"
  PROVE  Past(about)
BY SubjectRows DEF StillHolds, Past, Asked, Listed, TypeOK, RefundTypes

(* Rows only ever move away from what the sweep looks for. *)
LEMMA RowsMoveOn ==
  ASSUME TypeOK, RowsMove
  PROVE  /\ TypeOK'
         /\ UNCHANGED <<task, sweep, swept>>
         /\ \A about \in Subjects : (Past(about) => Past(about)') /\ (Asked(about) => Asked(about)')
<1> USE BoundsAreNumbers
<1>1. CASE \E o \in Orders : RunLate(o)
  BY <1>1 DEF RowsMove, RunLate, stockVars, refundVars, TypeOK, Past, Asked
<1>2. CASE \E o \in Orders, to \in {"READY_TO_SHIP", "SHIPPED", "REFUNDED"} : MoveOrder(o, to)
  <2>1. PICK o \in Orders, to \in {"READY_TO_SHIP", "SHIPPED", "REFUNDED"} : MoveOrder(o, to)
    BY <1>2
  <2>2. order' = [order EXCEPT ![o] = to] /\ UNCHANGED <<late, stockVars, refundVars>>
    BY <2>1 DEF MoveOrder
  <2>3. order[o] \in {"SHIPPED", "REFUNDED"} => to = "REFUNDED"
    BY <2>1 DEF MoveOrder, OrderEdges
  <2>4. TypeOK' /\ UNCHANGED <<task, sweep, swept>>
    BY <2>2 DEF RowsMove, stockVars, refundVars, TypeOK
  <2>5. \A about \in Subjects : Past(about) => Past(about)'
    <3> SUFFICES ASSUME NEW about \in Subjects, Past(about)
                 PROVE  Past(about)'
      OBVIOUS
    <3>1. about[1] \in OrderTypes => about[2] \in Orders
      BY SubjectRows
    <3> QED BY <2>2, <2>3, <3>1 DEF TypeOK, Past, OrderTypes, refundVars
  <2> QED BY <2>2, <2>4, <2>5 DEF Asked, refundVars
<1>3. CASE \E v \in Variants : MoveStock(v)
  <2>1. low' \subseteq Variants /\ page' \subseteq low' /\ UNCHANGED <<order, late, refundVars>>
    BY <1>3 DEF MoveStock, Pages, TypeOK
  <2> QED BY <2>1 DEF RowsMove, refundVars, TypeOK, Past, Asked
<1>4. CASE \E r \in Refunds : Age(r)
  BY <1>4 DEF RowsMove, Age, stockVars, refundVars, TypeOK, Past, Asked
<1>5. CASE \E r \in Refunds, to \in {"PENDING", "SUCCEEDED", "FAILED"} : MoveRefund(r, to)
  <2>1. PICK r \in Refunds, to \in {"PENDING", "SUCCEEDED", "FAILED"} : MoveRefund(r, to)
    BY <1>5
  <2>2. /\ refund' = [refund EXCEPT ![r] = to] /\ UNCHANGED <<order, late, stockVars, aged>>
        /\ old' \subseteq old
    BY <2>1 DEF MoveRefund
  <2>3. refund[r] \notin {"SUCCEEDED", "FAILED"}
    BY <2>1 DEF MoveRefund, RefundEdges
  <2>4. TypeOK' /\ UNCHANGED <<task, sweep, swept>>
    BY <2>2 DEF RowsMove, stockVars, TypeOK
  <2>5. \A about \in Subjects : (Past(about) => Past(about)') /\ (Asked(about) => Asked(about)')
    BY <2>2, <2>3 DEF TypeOK, Past, Asked
  <2> QED BY <2>4, <2>5
<1>6. CASE \E r \in Refunds : FallBehind(r)
  BY <1>6 DEF RowsMove, FallBehind, stockVars, refundVars, TypeOK, Past, Asked
<1> QED BY <1>1, <1>2, <1>3, <1>4, <1>5, <1>6 DEF RowsMove

-----------------------------------------------------------------------------
(* The sweep *)
LEMMA StepFits ==
  ASSUME TypeOK, NEW s \in Sweepers, sweep[s].at > 0
  PROVE  sweep[s].at \in 1..12 /\ Fits(Step(s))
<1>1. sweep[s].at \in 1..12
  BY SweepType
<1> QED BY <1>1, PlanSteps DEF Step

LEMMA AfterType ==
  ASSUME TypeOK, NEW s \in Sweepers, sweep[s].at > 0
  PROVE  After(s) \in [at : 0..12, phase : {"read", "compare", "write"}, seen : SUBSET Subjects] /\ After(s).seen = {}
<1>1. sweep[s].at \in 1..12
  BY SweepType
<1>2. After(s) = [Waiting EXCEPT !.at = IF sweep[s].at = 12 THEN 0 ELSE sweep[s].at + 1]
  BY PlanSteps DEF After
<1>3. (IF sweep[s].at = 12 THEN 0 ELSE sweep[s].at + 1) \in 0..12
  BY <1>1
<1> QED BY <1>2, <1>3 DEF Waiting

LEMMA OthersKeepReading ==
  ASSUME IInv, NEW s \in Sweepers, \A q \in Sweepers \ {s} : sweep'[q] = sweep[q],
         UNCHANGED <<order, refund>>, ReadingHolds(s)'
  PROVE  ReadingsHold'
BY DEF IInv, ReadingsHold, ReadingHolds, Step, Past, Asked

(* A step that reads leaves with what it found, or goes on to the next. *)
LEMMA FoundKeeps ==
  ASSUME IInv, NEW s \in Sweepers, NEW phase \in {"write", "compare"}, NEW seen \in SUBSET Subjects,
         sweep[s].at > 0, Found(s, phase, seen), UNCHANGED <<rowVars, task, swept, clicks, failures>>,
         \A about \in seen :
           /\ about[1] \in Step(s).types /\ Asked(about)
           /\ phase = "write" /\ Step(s).does # "open" /\ about[1] # "RESTOCK" => Past(about)
  PROVE  IInv'
<1> DEFINE new == IF seen = {} THEN After(s) ELSE [sweep[s] EXCEPT !.phase = phase, !.seen = seen]
<1>1. sweep' = [sweep EXCEPT ![s] = new]
  BY DEF Found
<1>2. /\ new \in [at : 0..12, phase : {"read", "compare", "write"}, seen : SUBSET Subjects]
      /\ new.seen = {} \/ (new.seen = seen /\ new.phase = phase /\ new.at = sweep[s].at)
  BY AfterType, SweepType DEF IInv
<1> HIDE DEF new
<1>3. sweep'[s] = new /\ \A q \in Sweepers \ {s} : sweep'[q] = sweep[q]
  BY <1>1 DEF IInv, TypeOK
<1>4. TypeOK'
  BY <1>1, <1>2, PlanSteps DEF IInv, TypeOK, rowVars, stockVars, refundVars
<1>5. ReadingHolds(s)'
  BY <1>2, <1>3 DEF ReadingHolds, Step, Past, Asked, rowVars, stockVars, refundVars
<1>6. SweptIsPast' /\ TasksAreAskedFor'
  BY DEF IInv, SweptIsPast, TasksAreAskedFor, Past, Asked, rowVars, stockVars, refundVars
<1> QED BY <1>3, <1>4, <1>5, <1>6, OthersKeepReading DEF IInv, rowVars, stockVars, refundVars

LEMMA ReadDueKeeps ==
  ASSUME IInv, NEW s \in Sweepers, ReadDue(s)
  PROVE  IInv'
<1> DEFINE seen == {about \in OfTypes(s) : Due(about)}
<1>1. seen \in SUBSET Subjects /\ sweep[s].at > 0 /\ Step(s).does = "open" /\ Found(s, "write", seen)
  BY DEF ReadDue, Doing, OfTypes
<1>2. \A about \in seen : about[1] \in Step(s).types /\ Asked(about)
  BY ChecklistIsApart DEF OfTypes, Due, Asked
<1> HIDE DEF seen
<1> QED BY <1>1, <1>2, FoundKeeps DEF ReadDue

LEMMA ReadOverKeeps ==
  ASSUME IInv, NEW s \in Sweepers, ReadOver(s)
  PROVE  IInv'
<1> DEFINE seen == {about \in OfTypes(s) : OverForOrder(about)}
<1>1. seen \in SUBSET Subjects /\ sweep[s].at > 0 /\ Found(s, "write", seen)
  BY DEF ReadOver, Doing, OfTypes
<1>2. \A about \in seen : about[1] \in Step(s).types /\ Asked(about) /\ Past(about)
  BY OverIsPast, ChecklistIsApart DEF OfTypes, OverForOrder, Asked
<1> HIDE DEF seen
<1> QED BY <1>1, <1>2, FoundKeeps DEF ReadOver

LEMMA ReadOpenKeeps ==
  ASSUME IInv, NEW s \in Sweepers, ReadOpen(s)
  PROVE  IInv'
<1> DEFINE seen == {about \in OfTypes(s) : task[Automated(about)] = "OPEN"}
<1>1. seen \in SUBSET Subjects /\ sweep[s].at > 0 /\ Found(s, "compare", seen)
  BY DEF ReadOpen, Doing, OfTypes
<1>2. \A about \in seen : about[1] \in Step(s).types /\ Asked(about)
  BY DEF OfTypes, IInv, TasksAreAskedFor
<1> HIDE DEF seen
<1> QED BY <1>1, <1>2, FoundKeeps DEF ReadOpen

LEMMA CompareKeeps ==
  ASSUME IInv, NEW s \in Sweepers, Compare(s)
  PROVE  IInv'
<1> DEFINE seen == {about \in sweep[s].seen : ~StillHolds(about)}
<1>1. sweep[s].at > 0 /\ Step(s).does = "close listed" /\ Found(s, "write", seen)
  BY DEF Compare, Doing
<1>2. seen \in SUBSET Subjects /\ Step(s).types \subseteq Listed
  BY <1>1, SweepType, StepFits DEF IInv, Fits
<1>3. \A about \in seen : about[1] \in Step(s).types /\ Asked(about) /\ (about[1] # "RESTOCK" => Past(about))
  BY <1>1, <1>2, NotHoldingIsPast DEF IInv, ReadingsHold, ReadingHolds
<1> HIDE DEF seen
<1> QED BY <1>1, <1>2, <1>3, FoundKeeps DEF Compare

LEMMA CreateManyKeeps ==
  ASSUME IInv, NEW s \in Sweepers, CreateMany(s)
  PROVE  IInv'
<1>1. /\ sweep[s].at > 0 /\ sweep' = [sweep EXCEPT ![s] = After(s)]
      /\ UNCHANGED <<rowVars, swept, clicks, failures>>
  BY DEF CreateMany, Doing
<1>2. sweep'[s].seen = {} /\ \A q \in Sweepers \ {s} : sweep'[q] = sweep[q]
  BY <1>1, AfterType DEF IInv, TypeOK
<1>3. TypeOK'
  BY <1>1, AfterType, PlanSteps DEF CreateMany, IInv, TypeOK, rowVars, stockVars, refundVars
<1>4. ReadingHolds(s)'
  BY <1>2 DEF ReadingHolds
<1>5. TasksAreAskedFor'
  <2> SUFFICES ASSUME NEW about \in Subjects, task'[Automated(about)] # "NONE"
               PROVE  Asked(about)
    BY <1>1 DEF TasksAreAskedFor, Asked, rowVars, stockVars, refundVars
  <2>1. task[Automated(about)] # "NONE" \/ about \in sweep[s].seen
    BY SubjectRows DEF CreateMany
  <2> QED BY <2>1 DEF IInv, TasksAreAskedFor, ReadingsHold, ReadingHolds
<1>6. SweptIsPast'
  BY <1>1 DEF IInv, SweptIsPast, Past, rowVars, stockVars, refundVars
<1> QED BY <1>1, <1>2, <1>3, <1>4, <1>5, <1>6, OthersKeepReading DEF IInv, rowVars, stockVars, refundVars

(* Both ways of closing close what is past, and what was there. *)
LEMMA CloseKeeps ==
  ASSUME IInv, NEW s \in Sweepers, sweep[s].at > 0, NEW closed \in SUBSET Tasks, Close(s, closed),
         \A t \in closed : /\ t[1] \in Subjects /\ t[2] = "AUTOMATED" /\ Asked(t[1])
                           /\ TypeOf(t) # "RESTOCK" => Past(t[1])
  PROVE  IInv'
<1>1. /\ task' = [t \in Tasks |-> IF t \in closed THEN "DONE" ELSE task[t]] /\ swept' = swept \cup closed
      /\ sweep' = [sweep EXCEPT ![s] = After(s)] /\ UNCHANGED <<rowVars, clicks, failures>>
  BY DEF Close
<1>2. sweep'[s].seen = {} /\ \A q \in Sweepers \ {s} : sweep'[q] = sweep[q]
  BY <1>1, AfterType DEF IInv, TypeOK
<1>3. TypeOK'
  BY <1>1, AfterType, PlanSteps DEF IInv, TypeOK, rowVars, stockVars, refundVars
<1>4. ReadingHolds(s)'
  BY <1>2 DEF ReadingHolds
<1>5. TasksAreAskedFor'
  <2> SUFFICES ASSUME NEW about \in Subjects, task'[Automated(about)] # "NONE"
               PROVE  Asked(about)
    BY <1>1 DEF TasksAreAskedFor, Asked, rowVars, stockVars, refundVars
  <2>1. task[Automated(about)] # "NONE" \/ Automated(about) \in closed
    BY <1>1, SubjectRows
  <2>2. Automated(about)[1] = about
    BY SubjectRows
  <2> QED BY <2>1, <2>2 DEF IInv, TasksAreAskedFor
<1>6. SweptIsPast'
  BY <1>1 DEF IInv, SweptIsPast, Past, rowVars, stockVars, refundVars, TypeOf
<1> QED BY <1>1, <1>2, <1>3, <1>4, <1>5, <1>6, OthersKeepReading DEF IInv, rowVars, stockVars, refundVars

LEMMA ClosedWhere ==
  ASSUME IInv, NEW s \in Sweepers, CloseWhere(s)
  PROVE  \E closed \in SUBSET Tasks :
           /\ Close(s, closed) /\ sweep[s].at > 0
           /\ \A t \in closed : /\ t[1] \in sweep[s].seen /\ t[1] \in Subjects /\ t[2] = "AUTOMATED"
                                /\ task[t] = "OPEN" /\ (TypeOf(t) # "RESTOCK" => Past(t[1]))
<1>1. sweep[s].at > 0 /\ Step(s).does = "close where" /\ sweep[s].phase = "write"
  BY DEF CloseWhere, Doing
<1>2. \A about \in sweep[s].seen : about \in Subjects /\ (about[1] # "RESTOCK" => Past(about))
  BY <1>1, SweepType DEF IInv, ReadingsHold, ReadingHolds
<1> DEFINE closed == {t \in Tasks : t[1] \in sweep[s].seen /\ Closable(t)}
<1>3. closed \in SUBSET Tasks /\ Close(s, closed)
  BY DEF CloseWhere
<1>4. \A t \in closed : /\ t[1] \in sweep[s].seen /\ t[1] \in Subjects /\ t[2] = "AUTOMATED"
                        /\ task[t] = "OPEN" /\ (TypeOf(t) # "RESTOCK" => Past(t[1]))
  BY <1>2 DEF Closable, TypeOf
<1> HIDE DEF closed
<1> QED BY <1>1, <1>3, <1>4

LEMMA ClosedListed ==
  ASSUME IInv, NEW s \in Sweepers, CloseListed(s)
  PROVE  \E closed \in SUBSET Tasks :
           /\ Close(s, closed) /\ sweep[s].at > 0
           /\ \A t \in closed : /\ t[1] \in sweep[s].seen /\ t[1] \in Subjects /\ t[2] = "AUTOMATED"
                                /\ TypeOf(t) \in Listed /\ (TypeOf(t) # "RESTOCK" => Past(t[1]))
<1> DEFINE closed == {Automated(about) : about \in sweep[s].seen}
<1>1. sweep[s].at > 0 /\ Step(s).does = "close listed" /\ sweep[s].phase = "write"
  BY DEF CloseListed, Doing
<1>2. Step(s).types \subseteq Listed
  BY <1>1, StepFits DEF IInv, Fits
<1>3. \A about \in sweep[s].seen :
        about \in Subjects /\ about[1] \in Listed /\ (about[1] # "RESTOCK" => Past(about))
  BY <1>1, <1>2, SweepType DEF IInv, ReadingsHold, ReadingHolds
<1>4. ASSUME NEW t \in closed
      PROVE  /\ t \in Tasks /\ t[1] \in sweep[s].seen /\ t[1] \in Subjects /\ t[2] = "AUTOMATED"
             /\ TypeOf(t) \in Listed /\ (TypeOf(t) # "RESTOCK" => Past(t[1]))
  <2>1. PICK about \in sweep[s].seen : t = Automated(about)
    OBVIOUS
  <2>2. t \in Tasks /\ t[1] = about /\ t[2] = "AUTOMATED"
    BY <1>3, <2>1, SubjectRows
  <2> QED BY <1>3, <2>2 DEF TypeOf
<1>5. Close(s, closed)
  BY DEF CloseListed
<1>6. closed \in SUBSET Tasks
  BY <1>4
<1> HIDE DEF closed
<1> QED BY <1>1, <1>4, <1>5, <1>6

-----------------------------------------------------------------------------
(* Admins, and sweeps that start or fail *)
LEMMA TransitionKeeps ==
  ASSUME IInv, NEW t \in Tasks, NEW from, NEW to \in {"OPEN", "DONE", "CANCELED"}, Transition(t, from, to),
         t[2] = "MANUAL" \/ "NONE" \notin from
  PROVE  IInv'
<1>1. /\ task' = [task EXCEPT ![t] = to] /\ swept' = swept \ {t} /\ UNCHANGED <<rowVars, sweep, failures>>
      /\ clicks < MaxClicks /\ clicks' = clicks + 1 /\ task[t] \in from
  BY DEF Transition
<1>2. TypeOK'
  BY <1>1, BoundsAreNumbers DEF IInv, TypeOK, rowVars, stockVars, refundVars
<1>3. ReadingsHold' /\ SweptIsPast'
  BY <1>1 DEF IInv, ReadingsHold, ReadingHolds, SweptIsPast, Step, Past, Asked, rowVars, stockVars, refundVars
<1>4. TasksAreAskedFor'
  <2> SUFFICES ASSUME NEW about \in Subjects, task'[Automated(about)] # "NONE"
               PROVE  Asked(about)
    BY <1>1 DEF TasksAreAskedFor, Asked, rowVars, stockVars, refundVars
  <2>1. Automated(about) \in Tasks /\ Automated(about)[2] = "AUTOMATED"
    BY SubjectRows
  <2>2. task[Automated(about)] # "NONE"
    BY <1>1, <2>1 DEF IInv, TypeOK
  <2> QED BY <2>2 DEF IInv, TasksAreAskedFor
<1> QED BY <1>2, <1>3, <1>4 DEF IInv

LEMMA ClickKeeps ==
  ASSUME IInv, Click
  PROVE  IInv'
<1>1. PICK t \in Tasks : CreateTaskDialog(t) \/ Complete(t) \/ Cancel(t) \/ Reopen(t)
  BY DEF Click
<1>2. CASE CreateTaskDialog(t)
  BY <1>2, TransitionKeeps DEF CreateTaskDialog, CreateTask
<1>3. CASE Complete(t)
  BY <1>3, TransitionKeeps DEF Complete
<1>4. CASE Cancel(t)
  BY <1>4, TransitionKeeps DEF Cancel
<1>5. CASE Reopen(t)
  BY <1>5, TransitionKeeps DEF Reopen
<1> QED BY <1>1, <1>2, <1>3, <1>4, <1>5

LEMMA RowsMoveKeeps ==
  ASSUME IInv, RowsMove
  PROVE  IInv'
<1>1. /\ TypeOK' /\ UNCHANGED <<task, sweep, swept>>
      /\ \A about \in Subjects : (Past(about) => Past(about)') /\ (Asked(about) => Asked(about)')
  BY RowsMoveOn DEF IInv
<1>2. ReadingsHold'
  <2> SUFFICES ASSUME NEW s \in Sweepers, NEW about \in sweep[s].seen
               PROVE  /\ sweep[s].at > 0 /\ about[1] \in Step(s).types /\ Asked(about)'
                      /\ (sweep[s].phase = "write" /\ Step(s).does # "open" /\ about[1] # "RESTOCK" => Past(about)')
    BY <1>1 DEF ReadingsHold, ReadingHolds, Step
  <2>1. about \in Subjects
    BY SweepType DEF IInv
  <2> QED BY <1>1, <2>1 DEF IInv, ReadingsHold, ReadingHolds
<1>3. SweptIsPast'
  <2>1. \A t \in swept : t[1] \in Subjects
    BY DEF IInv, TypeOK, Tasks
  <2> QED BY <1>1, <2>1 DEF IInv, SweptIsPast
<1>4. TasksAreAskedFor'
  BY <1>1 DEF IInv, TasksAreAskedFor
<1> QED BY <1>1, <1>2, <1>3, <1>4 DEF IInv

LEMMA TickKeeps ==
  ASSUME IInv, NEW s \in Sweepers, Tick(s)
  PROVE  IInv'
<1> DEFINE new == [sweep[s] EXCEPT !.at = 1]
<1>1. sweep[s].at = 0 /\ sweep' = [sweep EXCEPT ![s] = new] /\ UNCHANGED <<rowVars, task, swept, clicks, failures>>
  BY DEF Tick
<1>2. new \in [at : 0..12, phase : {"read", "compare", "write"}, seen : SUBSET Subjects] /\ new.seen = sweep[s].seen
  BY SweepType DEF IInv
<1>3. sweep[s].seen = {}
  BY <1>1 DEF IInv, ReadingsHold, ReadingHolds
<1> HIDE DEF new
<1>4. sweep'[s] = new /\ \A q \in Sweepers \ {s} : sweep'[q] = sweep[q]
  BY <1>1 DEF IInv, TypeOK
<1>5. TypeOK'
  BY <1>1, <1>2, PlanSteps DEF IInv, TypeOK, rowVars, stockVars, refundVars
<1>6. ReadingHolds(s)' /\ SweptIsPast' /\ TasksAreAskedFor'
  BY <1>1, <1>2, <1>3, <1>4 DEF IInv, ReadingHolds, SweptIsPast, TasksAreAskedFor, Past, Asked, rowVars, stockVars, refundVars
<1> QED BY <1>1, <1>4, <1>5, <1>6, OthersKeepReading DEF IInv, rowVars, stockVars, refundVars

LEMMA FailKeeps ==
  ASSUME IInv, NEW s \in Sweepers, Fail(s)
  PROVE  IInv'
<1> DEFINE new == [Waiting EXCEPT !.at = 0]
<1>1. /\ failures < MaxFailures /\ failures' = failures + 1
      /\ sweep' = [sweep EXCEPT ![s] = new] /\ UNCHANGED <<rowVars, task, swept, clicks>>
  BY DEF Fail, NextTick
<1>2. new \in [at : 0..12, phase : {"read", "compare", "write"}, seen : SUBSET Subjects] /\ new.seen = {}
  BY DEF Waiting
<1> HIDE DEF new
<1>3. sweep'[s] = new /\ \A q \in Sweepers \ {s} : sweep'[q] = sweep[q]
  BY <1>1 DEF IInv, TypeOK
<1>4. TypeOK'
  BY <1>1, <1>2, PlanSteps, BoundsAreNumbers DEF IInv, TypeOK, rowVars, stockVars, refundVars
<1>5. ReadingHolds(s)' /\ SweptIsPast' /\ TasksAreAskedFor'
  BY <1>1, <1>2, <1>3 DEF IInv, ReadingHolds, SweptIsPast, TasksAreAskedFor, Past, Asked, rowVars, stockVars, refundVars
<1> QED BY <1>1, <1>3, <1>4, <1>5, OthersKeepReading DEF IInv, rowVars, stockVars, refundVars

-----------------------------------------------------------------------------
(* The invariant *)
LEMMA Initially ==
  ASSUME Init
  PROVE  IInv
<1>1. Waiting.seen = {} /\ Waiting \in [at : 0..12, phase : {"read", "compare", "write"}, seen : SUBSET Subjects]
  BY DEF Waiting
<1>2. TypeOK
  <2>1. order \in [Orders -> {"CONFIRMED", "IN_PRODUCTION", "READY_TO_SHIP", "SHIPPED", "REFUNDED"}]
    BY DEF Init
  <2> QED BY <1>1, <2>1, PlanSteps, BoundsAreNumbers DEF Init, TypeOK
<1>3. ReadingsHold /\ SweptIsPast /\ TasksAreAskedFor
  BY <1>1, SubjectRows DEF Init, ReadingsHold, ReadingHolds, SweptIsPast, TasksAreAskedFor
<1> QED BY <1>2, <1>3 DEF IInv

LEMMA Inductive ==
  ASSUME IInv, [Next]_vars
  PROVE  IInv'
<1>1. ASSUME NEW s \in Sweepers, Sweep(s) \/ Fail(s)
      PROVE  IInv'
  <2>1. CASE CloseWhere(s)
    BY <2>1, ClosedWhere, CloseKeeps DEF IInv, ReadingsHold, ReadingHolds
  <2>2. CASE CloseListed(s)
    BY <2>2, ClosedListed, CloseKeeps DEF IInv, ReadingsHold, ReadingHolds
  <2> QED BY <1>1, <2>1, <2>2, TickKeeps, FailKeeps, ReadDueKeeps, CreateManyKeeps, ReadOverKeeps, ReadOpenKeeps,
             CompareKeeps DEF Sweep, Run
<1>2. CASE UNCHANGED vars
  BY <1>2 DEF vars, rowVars, stockVars, refundVars, IInv, TypeOK, ReadingsHold, ReadingHolds, SweptIsPast, TasksAreAskedFor, Step, Past, Asked
<1> QED BY <1>1, <1>2, ClickKeeps, RowsMoveKeeps DEF Next

LEMMA Invariance == Spec => []IInv
BY Initially, Inductive, PTL DEF Spec

(* Every variable keeps its type.                                          *)
THEOREM TypeCorrect == Spec => []TypeOK
<1>1. IInv => TypeOK
  BY DEF IInv
<1> QED BY <1>1, Invariance, PTL

(* What a sweep closes is over for good, however long ago it read of it:   *)
(* no order, refund or delay comes back to what the closed task was about. *)
THEOREM ClosedForGood == Spec => []ClosedMeansOver
<1>1. IInv => ClosedMeansOver
  <2> SUFFICES ASSUME IInv, NEW t \in swept, TypeOf(t) # "RESTOCK"
               PROVE  ~Due(t[1]) /\ ~StillHolds(t[1])
    BY DEF ClosedMeansOver
  <2>1. t[1] \in Subjects /\ Past(t[1])
    BY DEF IInv, TypeOK, Tasks, SweptIsPast
  <2> QED BY <2>1, PastIsOver
<1> QED BY <1>1, Invariance, PTL

(* No sweep overrules an admin on a production or shipping task, or        *)
(* touches a task made by hand.                                            *)
THEOREM SweepRespectsDecisions == Spec => DecisionsStand
<1> DEFINE Stands == (\E s \in Sweepers : sweep'[s] # sweep[s]) =>
       \A t \in Tasks : /\ t[2] = "MANUAL" => task'[t] = task[t]
                        /\ TypeOf(t) \in Checklist \cup {"SHIP_ORDER"} /\ task[t] \in {"DONE", "CANCELED"}
                             => task'[t] = task[t]
<1>1. ASSUME IInv, [Next]_vars
      PROVE  Stands
  <2>1. CASE Click \/ RowsMove \/ UNCHANGED vars
    BY <2>1 DEF Click, CreateTaskDialog, CreateTask, Complete, Cancel, Reopen, Transition, RowsMove, vars
  <2>2. ASSUME NEW s \in Sweepers, CreateMany(s)
        PROVE  Stands
    BY <2>2 DEF CreateMany, Insertable
  <2>3. ASSUME NEW s \in Sweepers, CloseWhere(s)
        PROVE  Stands
    BY <1>1, <2>3, ClosedWhere DEF Close
  <2>4. ASSUME NEW s \in Sweepers, CloseListed(s)
        PROVE  Stands
    BY <1>1, <2>4, ClosedListed, ChecklistIsApart DEF Close, Listed
  <2>5. ASSUME NEW s \in Sweepers, Tick(s) \/ Fail(s) \/ ReadDue(s) \/ ReadOver(s) \/ ReadOpen(s) \/ Compare(s)
        PROVE  Stands
    BY <2>5 DEF Tick, Fail, ReadDue, ReadOver, ReadOpen, Compare
  <2> HIDE DEF Stands
  <2> QED BY <1>1, <2>1, <2>2, <2>3, <2>4, <2>5 DEF Next, Sweep, Run
<1> QED BY <1>1, Invariance, PTL DEF Spec, DecisionsStand
-----------------------------------------------------------------------------
(***************************************************************************)
(* Access                                                                  *)
(***************************************************************************)
(* u is a role manager through role r. *)
Through(u, r) == status[u] = "ACTIVE" /\ r \in roles[u] /\ Gate \in Grants[r]

(* What holds after q has written whatever it is about to write. *)
SafeWithout(q) ==
  \E m \in Users, r \in Roles :
    /\ Through(m, r)
    /\ m = request[q].target => request[q].op = "remove" /\ r # request[q].role

InTransaction == {"locked", "counting", "writing"}
LockIsKept ==
  /\ \A q \in Requests : request[q].at \in InTransaction => q \in lock
  /\ \A p, q \in lock : p = q
Managed == \E u \in Users, r \in Roles : Through(u, r)
DecidedIsSafe == \A q \in Requests : request[q].at = "writing" => SafeWithout(q)
GivesWhatItCarries ==
  \A q \in Requests : request[q].at # "idle" /\ request[q].op \in Granting =>
                        Grants[request[q].role] \subseteq request[q].carries
StaffIInv == StaffTypeOK /\ LockIsKept /\ Managed /\ DecidedIsSafe /\ GivesWhatItCarries

LEMMA ManagedIsProperty ==
  ASSUME StaffTypeOK
  PROVE  Managed <=> AlwaysARoleManager
BY DEF StaffTypeOK, Managed, AlwaysARoleManager, Through, RoleManager, HoldsGate, PermissionsOf

LEMMA IdleType == Idle \in RequestRecords /\ Idle.at = "idle"
BY FounderManages DEF Idle, RequestRecords, Phases, Ops

LEMMA StaffInitially ==
  ASSUME StaffInit
  PROVE  StaffIInv
<1>1. StaffTypeOK
  BY IdleType, FounderManages DEF StaffInit, StaffTypeOK
<1>2. LockIsKept
  BY IdleType DEF StaffInit, LockIsKept, InTransaction
<1>3. Managed
  <2>1. Through(Founder.user, Founder.role)
    BY FounderManages DEF StaffInit, Through
  <2> QED BY <2>1, FounderManages DEF Managed
<1>4. DecidedIsSafe
  BY IdleType DEF StaffInit, DecidedIsSafe
<1>5. GivesWhatItCarries
  BY IdleType DEF StaffInit, GivesWhatItCarries
<1> QED BY <1>1, <1>2, <1>3, <1>4, <1>5 DEF StaffIInv

-----------------------------------------------------------------------------
(* Type correctness *)
LEMMA StaffTypeNext ==
  ASSUME StaffTypeOK, [StaffNext]_staffVars
  PROVE  StaffTypeOK'
<1> USE IdleType
<1>1. ASSUME NEW q \in Requests, Start(q)
      PROVE  StaffTypeOK'
  <2>1. PICK actor \in Users, target \in Users, op \in Ops, role \in Roles : Begin(q, actor, op, target, role)
    BY <1>1 DEF Start
  <2>2. PermissionsOf(actor) \subseteq Permissions
    BY RolesGrantPermissions DEF StaffTypeOK, PermissionsOf
  <2>3. [at |-> "begun", op |-> op, target |-> target, role |-> role,
         carries |-> IF op \in Granting THEN PermissionsOf(actor) ELSE {}] \in RequestRecords
    BY <2>2 DEF RequestRecords, Phases
  <2> QED BY <2>1, <2>3 DEF Begin, StaffTypeOK
<1>2. ASSUME NEW q \in Requests, CreateUser(q)
      PROVE  StaffTypeOK'
  <2>1. request[q].target \in Users /\ request[q].role \in Roles
    BY DEF StaffTypeOK, RequestRecords
  <2> QED BY <1>2, <2>1 DEF CreateUser, Answer, StaffTypeOK
<1>3. ASSUME NEW q \in Requests, Activate(q)
      PROVE  StaffTypeOK'
  BY <1>3 DEF Activate, Answer, StaffTypeOK
<1>4. ASSUME NEW q \in Requests, AssignRole(q)
      PROVE  StaffTypeOK'
  <2>1. request[q].target \in Users /\ request[q].role \in Roles
    BY DEF StaffTypeOK, RequestRecords
  <2> QED BY <1>4, <2>1 DEF AssignRole, Answer, StaffTypeOK
<1>5. ASSUME NEW q \in Requests, NEW at \in Phases, At(q, at)
      PROVE  request' \in [Requests -> RequestRecords]
  <2>1. [request[q] EXCEPT !.at = at] \in RequestRecords
    BY <1>5 DEF StaffTypeOK, RequestRecords
  <2> QED BY <1>5, <2>1 DEF At, StaffTypeOK
<1>6. ASSUME NEW q \in Requests, LockRoleManagementGate(q)
      PROVE  StaffTypeOK'
  BY <1>5, <1>6 DEF LockRoleManagementGate, Phases, StaffTypeOK
<1>7. ASSUME NEW q \in Requests, Rollback(q)
      PROVE  StaffTypeOK'
  BY <1>7 DEF Rollback, Answer, StaffTypeOK
<1>8. ASSUME NEW q \in Requests, ReadTarget(q)
      PROVE  StaffTypeOK'
  BY <1>5, <1>7, <1>8 DEF ReadTarget, Phases, StaffTypeOK
<1>9. ASSUME NEW q \in Requests, CountOtherActiveRoleManagers(q)
      PROVE  StaffTypeOK'
  BY <1>5, <1>7, <1>9 DEF CountOtherActiveRoleManagers, Phases, StaffTypeOK
<1>10. ASSUME NEW q \in Requests, Deactivate(q)
       PROVE  StaffTypeOK'
  BY <1>10 DEF Deactivate, Commit, Answer, StaffTypeOK
<1>11. ASSUME NEW q \in Requests, RemoveRole(q)
       PROVE  StaffTypeOK'
  BY <1>11 DEF RemoveRole, Commit, Answer, StaffTypeOK
<1>12. ASSUME NEW q \in Requests, Dies(q)
       PROVE  StaffTypeOK'
  BY <1>12 DEF Dies, Answer, StaffTypeOK
<1>13. ASSUME NEW u \in Users, Register(u)
       PROVE  StaffTypeOK'
  BY <1>13 DEF Register, StaffTypeOK
<1>14. CASE UNCHANGED staffVars
  BY <1>14 DEF staffVars, StaffTypeOK
<1> QED
  BY <1>1, <1>2, <1>3, <1>4, <1>6, <1>8, <1>9, <1>10, <1>11, <1>12, <1>13, <1>14 DEF StaffNext, Work

-----------------------------------------------------------------------------
(* The lock *)
LEMMA LockNext ==
  ASSUME StaffTypeOK, LockIsKept, [StaffNext]_staffVars
  PROVE  LockIsKept'
<1> USE IdleType DEF LockIsKept, InTransaction
<1>1. ASSUME NEW q \in Requests, Start(q)
      PROVE  LockIsKept'
  BY <1>1 DEF Start, Begin, StaffTypeOK
<1>2. ASSUME NEW q \in Requests, CreateUser(q) \/ Activate(q) \/ AssignRole(q)
      PROVE  LockIsKept'
  BY <1>2 DEF CreateUser, Activate, AssignRole, Answer, StaffTypeOK
<1>3. ASSUME NEW q \in Requests, LockRoleManagementGate(q)
      PROVE  LockIsKept'
  BY <1>3 DEF LockRoleManagementGate, LockIsFree, At, StaffTypeOK
<1>4. ASSUME NEW q \in Requests, Answer(q), lock' = lock \ {q}
      PROVE  LockIsKept'
  BY <1>4 DEF Answer, StaffTypeOK
<1>5. ASSUME NEW q \in Requests, request[q].at \in InTransaction, UNCHANGED lock,
             At(q, "counting") \/ At(q, "writing")
      PROVE  LockIsKept'
  BY <1>5 DEF At, StaffTypeOK
<1>6. ASSUME NEW q \in Requests, ReadTarget(q) \/ CountOtherActiveRoleManagers(q)
      PROVE  LockIsKept'
  BY <1>4, <1>5, <1>6 DEF ReadTarget, CountOtherActiveRoleManagers, Rollback
<1>7. ASSUME NEW q \in Requests, Deactivate(q) \/ RemoveRole(q) \/ Dies(q)
      PROVE  LockIsKept'
  BY <1>4, <1>7 DEF Deactivate, RemoveRole, Commit, Dies
<1>8. ASSUME NEW u \in Users, Register(u)
      PROVE  LockIsKept'
  BY <1>8 DEF Register
<1>9. CASE UNCHANGED staffVars
  BY <1>9 DEF staffVars
<1> QED
  BY <1>1, <1>2, <1>3, <1>6, <1>7, <1>8, <1>9 DEF StaffNext, Work

-----------------------------------------------------------------------------
(* The last role manager *)

(* A step that takes nobody's rights, and decides nothing, keeps all. *)
LEMMA GivingIsSafe ==
  ASSUME Managed, DecidedIsSafe,
         \A u \in Users, r \in Roles : Through(u, r) => Through(u, r)',
         \A q \in Requests : (request[q].at = "writing")' =>
                               request[q].at = "writing" /\ UNCHANGED request[q]
  PROVE  Managed' /\ DecidedIsSafe'
<1>1. Managed'
  BY DEF Managed
<1>2. ASSUME NEW q \in Requests, (request[q].at = "writing")'
      PROVE  SafeWithout(q)'
  BY <1>2 DEF DecidedIsSafe, SafeWithout
<1> QED BY <1>1, <1>2 DEF DecidedIsSafe

(* A step that changes no user's rights, and lets q decide. *)
LEMMA DecidingIsSafe ==
  ASSUME StaffTypeOK, Managed, DecidedIsSafe, NEW q \in Requests, At(q, "writing"),
         UNCHANGED <<status, roles>>, SafeWithout(q)
  PROVE  Managed' /\ DecidedIsSafe'
<1>1. \A u \in Users, r \in Roles : Through(u, r) => Through(u, r)'
  BY DEF Through
<1>2. Managed'
  BY <1>1 DEF Managed
<1>3. ASSUME NEW p \in Requests, (request[p].at = "writing")'
      PROVE  SafeWithout(p)'
  <2>1. SafeWithout(p)
    BY <1>3 DEF At, StaffTypeOK, DecidedIsSafe
  <2>2. UNCHANGED <<request[p].target, request[p].op, request[p].role>>
    BY DEF At, StaffTypeOK, RequestRecords
  <2> QED BY <1>1, <2>1, <2>2 DEF SafeWithout
<1> QED BY <1>2, <1>3 DEF DecidedIsSafe

(* A step that takes rights, by the only request in a transaction. *)
LEMMA TakingIsSafe ==
  ASSUME StaffTypeOK, LockIsKept, NEW q \in Requests, request[q].at = "writing", Answer(q), Managed'
  PROVE  DecidedIsSafe'
BY IdleType DEF LockIsKept, InTransaction, Answer, StaffTypeOK, DecidedIsSafe

LEMMA ManagersNext ==
  ASSUME StaffTypeOK, LockIsKept, Managed, DecidedIsSafe, [StaffNext]_staffVars
  PROVE  Managed' /\ DecidedIsSafe'
<1> DEFINE Gives == \A u \in Users, r \in Roles : Through(u, r) => Through(u, r)'
           Waits == \A q \in Requests : (request[q].at = "writing")' =>
                                          request[q].at = "writing" /\ UNCHANGED request[q]
<1>1. ASSUME Gives, Waits
      PROVE  Managed' /\ DecidedIsSafe'
  BY <1>1, GivingIsSafe
<1>2. ASSUME NEW q \in Requests, Answer(q)
      PROVE  Waits
  BY <1>2, IdleType DEF Answer, StaffTypeOK
<1>3. ASSUME NEW q \in Requests, NEW at \in {"locked", "counting"}, At(q, at)
      PROVE  Waits
  BY <1>3 DEF At, StaffTypeOK
<1>4. ASSUME UNCHANGED <<status, roles>>
      PROVE  Gives
  BY <1>4 DEF Through
<1> HIDE DEF Gives, Waits
<1>5. ASSUME NEW q \in Requests, Start(q)
      PROVE  Managed' /\ DecidedIsSafe'
  <2>1. Waits
    BY <1>5 DEF Start, Begin, StaffTypeOK, Waits
  <2>2. UNCHANGED <<status, roles>>
    BY <1>5 DEF Start, Begin
  <2> QED BY <1>1, <1>4, <2>1, <2>2
<1>6. ASSUME NEW q \in Requests, CreateUser(q)
      PROVE  Managed' /\ DecidedIsSafe'
  <2>1. Gives
    BY <1>6 DEF CreateUser, Exists, StaffTypeOK, Through, Gives
  <2> QED BY <1>1, <1>2, <1>6, <2>1 DEF CreateUser
<1>7. ASSUME NEW q \in Requests, Activate(q)
      PROVE  Managed' /\ DecidedIsSafe'
  <2>1. Gives
    BY <1>7 DEF Activate, StaffTypeOK, Through, Gives
  <2> QED BY <1>1, <1>2, <1>7, <2>1 DEF Activate
<1>8. ASSUME NEW q \in Requests, AssignRole(q)
      PROVE  Managed' /\ DecidedIsSafe'
  <2>1. Gives
    BY <1>8 DEF AssignRole, StaffTypeOK, Through, Gives
  <2> QED BY <1>1, <1>2, <1>8, <2>1 DEF AssignRole
<1>9. ASSUME NEW q \in Requests, LockRoleManagementGate(q)
      PROVE  Managed' /\ DecidedIsSafe'
  BY <1>1, <1>3, <1>4, <1>9 DEF LockRoleManagementGate
<1>10. ASSUME NEW q \in Requests, Rollback(q) \/ Dies(q)
       PROVE  Managed' /\ DecidedIsSafe'
  BY <1>1, <1>2, <1>4, <1>10 DEF Rollback, Dies
<1>11. ASSUME NEW q \in Requests, ReadTarget(q)
       PROVE  Managed' /\ DecidedIsSafe'
  <2>1. CASE Rollback(q)
    BY <1>10, <2>1
  <2>2. CASE At(q, "counting") /\ UNCHANGED <<status, roles>>
    BY <1>1, <1>3, <1>4, <2>2
  <2>3. CASE ~Protects(q) /\ At(q, "writing") /\ UNCHANGED <<status, roles>>
    <3>1. PICK m \in Users, r \in Roles : Through(m, r)
      BY DEF Managed
    <3>2. request[q].op \in Locked
      BY <1>11 DEF ReadTarget
    <3>3. ASSUME m # request[q].target
          PROVE  SafeWithout(q)
      BY <3>1, <3>3 DEF SafeWithout
    <3>4. ASSUME m = request[q].target
          PROVE  SafeWithout(q)
      <4>1. HoldsGate(m)
        BY <3>1 DEF Through, HoldsGate, PermissionsOf
      <4>2. request[q].op = "remove"
        BY <2>3, <3>1, <3>2, <3>4, <4>1 DEF Protects, Locked, Through
      <4>3. Gate \notin Grants[request[q].role] \/ HoldsGateWithout(m, request[q].role)
        BY <2>3, <3>1, <3>4, <4>2 DEF Protects, Through
      <4>4. PICK s \in Roles : Through(m, s) /\ s # request[q].role
        BY <3>1, <4>3 DEF Through, HoldsGateWithout, StaffTypeOK
      <4> QED BY <3>4, <4>2, <4>4 DEF SafeWithout
    <3>5. SafeWithout(q)
      BY <3>3, <3>4
    <3> QED BY <2>3, <3>5, DecidingIsSafe
  <2> QED BY <1>11, <2>1, <2>2, <2>3 DEF ReadTarget
<1>12. ASSUME NEW q \in Requests, CountOtherActiveRoleManagers(q)
       PROVE  Managed' /\ DecidedIsSafe'
  <2>1. CASE Rollback(q)
    BY <1>10, <2>1
  <2>2. ASSUME NEW m \in Users \ {request[q].target}, RoleManager(m),
               At(q, "writing"), UNCHANGED <<status, roles>>
        PROVE  Managed' /\ DecidedIsSafe'
    <3>1. PICK r \in Roles : Through(m, r)
      BY <2>2 DEF RoleManager, HoldsGate, PermissionsOf, Through, StaffTypeOK
    <3>2. SafeWithout(q)
      BY <3>1 DEF SafeWithout
    <3> QED BY <2>2, <3>2, DecidingIsSafe
  <2> QED BY <1>12, <2>1, <2>2 DEF CountOtherActiveRoleManagers
<1>13. ASSUME NEW q \in Requests, Deactivate(q)
       PROVE  Managed' /\ DecidedIsSafe'
  <2>1. request[q].at = "writing" /\ request[q].op = "deactivate" /\ Answer(q)
    BY <1>13 DEF Deactivate, Handling, Commit
  <2>2. PICK m \in Users, r \in Roles : Through(m, r) /\ m # request[q].target
    BY <2>1 DEF DecidedIsSafe, SafeWithout
  <2>3. Through(m, r)'
    BY <1>13, <2>2 DEF Deactivate, Through, StaffTypeOK
  <2>4. Managed'
    BY <2>3 DEF Managed
  <2> QED BY <2>1, <2>4, TakingIsSafe
<1>14. ASSUME NEW q \in Requests, RemoveRole(q)
       PROVE  Managed' /\ DecidedIsSafe'
  <2>1. request[q].at = "writing" /\ Answer(q)
    BY <1>14 DEF RemoveRole, Handling, Commit
  <2>2. PICK m \in Users, r \in Roles :
          Through(m, r) /\ (m = request[q].target => r # request[q].role)
    BY <2>1 DEF DecidedIsSafe, SafeWithout
  <2>3. Through(m, r)'
    BY <1>14, <2>2 DEF RemoveRole, Through, StaffTypeOK
  <2>4. Managed'
    BY <2>3 DEF Managed
  <2> QED BY <2>1, <2>4, TakingIsSafe
<1>15. ASSUME NEW u \in Users, Register(u)
       PROVE  Managed' /\ DecidedIsSafe'
  <2>1. Gives
    BY <1>15 DEF Register, Exists, StaffTypeOK, Through, Gives
  <2>2. Waits
    BY <1>15 DEF Register, Waits
  <2> QED BY <1>1, <2>1, <2>2
<1>16. CASE UNCHANGED staffVars
  BY <1>1, <1>4, <1>16 DEF staffVars, Waits
<1> QED
  BY <1>5, <1>6, <1>7, <1>8, <1>9, <1>10, <1>11, <1>12, <1>13, <1>14, <1>15, <1>16 DEF StaffNext, Work

-----------------------------------------------------------------------------
(* What requests give *)
LEMMA GivesNext ==
  ASSUME StaffTypeOK, GivesWhatItCarries, [StaffNext]_staffVars
  PROVE  GivesWhatItCarries'
<1> USE IdleType DEF GivesWhatItCarries
<1>1. ASSUME NEW q \in Requests, Start(q)
      PROVE  GivesWhatItCarries'
  BY <1>1 DEF Start, Begin, PermissionsAreSubsetOfActor, StaffTypeOK
<1>2. ASSUME NEW q \in Requests, Answer(q)
      PROVE  GivesWhatItCarries'
  BY <1>2 DEF Answer, StaffTypeOK
<1>3. ASSUME NEW q \in Requests, NEW at \in Phases, request[q].at # "idle", At(q, at)
      PROVE  GivesWhatItCarries'
  BY <1>3 DEF At, StaffTypeOK, RequestRecords
<1>4. ASSUME NEW q \in Requests, Work(q) \/ Dies(q)
      PROVE  GivesWhatItCarries'
  BY <1>2, <1>3, <1>4
     DEF Work, Dies, CreateUser, Activate, AssignRole, LockRoleManagementGate, ReadTarget,
         CountOtherActiveRoleManagers, Rollback, Deactivate, RemoveRole, Commit, Phases
<1>5. ASSUME NEW u \in Users, Register(u)
      PROVE  GivesWhatItCarries'
  BY <1>5 DEF Register
<1>6. CASE UNCHANGED staffVars
  BY <1>6 DEF staffVars
<1> QED BY <1>1, <1>4, <1>5, <1>6 DEF StaffNext

(* Somebody has permission p, or a request carries it. *)
KnownBy(p) == \/ \E u \in Users, r \in Roles : r \in roles[u] /\ p \in Grants[r]
              \/ \E q \in Requests : request[q].at # "idle" /\ p \in request[q].carries

LEMMA KnownByIsKnown ==
  ASSUME StaffTypeOK, NEW p \in Permissions, KnownBy(p)
  PROVE  p \in Known
BY DEF Known, KnownBy, PermissionsOf, StaffTypeOK

LEMMA KnownNext ==
  ASSUME StaffTypeOK, GivesWhatItCarries, [StaffNext]_staffVars, NEW p, KnownBy(p)'
  PROVE  KnownBy(p)
<1> DEFINE Holds == \E u \in Users, r \in Roles : r \in roles[u] /\ p \in Grants[r]
           Carried == \E q \in Requests : request[q].at # "idle" /\ p \in request[q].carries
<1> USE IdleType
<1>1. ASSUME NEW q \in Requests, Answer(q)
      PROVE  Carried' => Carried
  BY <1>1 DEF Answer, StaffTypeOK
<1>2. ASSUME NEW q \in Requests, NEW at \in Phases, request[q].at # "idle", At(q, at)
      PROVE  Carried' => Carried
  BY <1>2 DEF At, StaffTypeOK, RequestRecords
<1>3. ASSUME NEW q \in Requests, Start(q)
      PROVE  KnownBy(p)
  <2>1. PICK actor \in Users, target \in Users, op \in Ops, role \in Roles : Begin(q, actor, op, target, role)
    BY <1>3 DEF Start
  <2>2. Holds' => Holds
    BY <2>1 DEF Begin
  <2>3. Carried' => Carried \/ p \in PermissionsOf(actor)
    BY <2>1 DEF Begin, StaffTypeOK
  <2>4. p \in PermissionsOf(actor) => Holds
    BY DEF PermissionsOf, StaffTypeOK
  <2> QED BY <2>2, <2>3, <2>4 DEF KnownBy
<1>4. ASSUME NEW q \in Requests, CreateUser(q) \/ AssignRole(q)
      PROVE  KnownBy(p)
  <2>1. request[q].at # "idle" /\ request[q].op \in Granting /\ Answer(q)
    BY <1>4 DEF CreateUser, AssignRole, Handling, Granting
  <2>2. p \in Grants[request[q].role] => Carried
    BY <2>1 DEF GivesWhatItCarries
  <2>3. request[q].target \in Users
    BY DEF StaffTypeOK, RequestRecords
  <2>4. \A u \in Users : roles'[u] \subseteq roles[u] \cup {request[q].role}
    BY <1>4, <2>3 DEF CreateUser, AssignRole, StaffTypeOK
  <2>5. Holds' => Holds \/ p \in Grants[request[q].role]
    BY <2>4
  <2> QED BY <1>1, <2>1, <2>2, <2>5 DEF KnownBy
<1>5. ASSUME \A u \in Users : roles'[u] \subseteq roles[u], Carried' => Carried
      PROVE  KnownBy(p)
  <2>1. Holds' => Holds
    BY <1>5
  <2> QED BY <1>5, <2>1 DEF KnownBy
<1>6. ASSUME NEW q \in Requests, RemoveRole(q)
      PROVE  KnownBy(p)
  <2>1. \A u \in Users : roles'[u] \subseteq roles[u]
    BY <1>6 DEF RemoveRole, StaffTypeOK
  <2> QED BY <1>1, <1>5, <1>6, <2>1 DEF RemoveRole, Commit
<1>7. ASSUME NEW q \in Requests, UNCHANGED roles, Answer(q)
      PROVE  KnownBy(p)
  BY <1>1, <1>5, <1>7
<1>8. ASSUME NEW q \in Requests, UNCHANGED roles, NEW at \in Phases, request[q].at # "idle", At(q, at)
      PROVE  KnownBy(p)
  BY <1>2, <1>5, <1>8
<1>9. ASSUME NEW q \in Requests,
             \/ Activate(q) \/ LockRoleManagementGate(q) \/ ReadTarget(q)
             \/ CountOtherActiveRoleManagers(q) \/ Deactivate(q) \/ Dies(q)
      PROVE  KnownBy(p)
  BY <1>7, <1>8, <1>9
     DEF Activate, LockRoleManagementGate, ReadTarget, CountOtherActiveRoleManagers, Rollback,
         Deactivate, Commit, Dies, Phases
<1>10. ASSUME UNCHANGED <<roles, request>>
       PROVE  KnownBy(p)
  BY <1>5, <1>10
<1> QED
  BY <1>3, <1>4, <1>6, <1>9, <1>10 DEF StaffNext, Work, Register, staffVars

-----------------------------------------------------------------------------
LEMMA StaffInvariance == StaffSpec => []StaffIInv
<1>1. StaffInit => StaffIInv
  BY StaffInitially
<1>2. StaffIInv /\ [StaffNext]_staffVars => StaffIInv'
  BY StaffTypeNext, LockNext, ManagersNext, GivesNext DEF StaffIInv
<1> QED BY <1>1, <1>2, PTL DEF StaffSpec

(* Users, roles and requests always have the types the schema gives them. *)
THEOREM StaffTypesHold == StaffSpec => []StaffTypeOK
BY StaffInvariance, PTL DEF StaffIInv

(* deactivate and removeRole never leave the shop without an active user   *)
(* who can manage roles, whatever else happens between their statements.   *)
THEOREM StaffCanBeManaged == StaffSpec => []AlwaysARoleManager
<1>1. StaffIInv => AlwaysARoleManager
  BY ManagedIsProperty DEF StaffIInv
<1> QED BY <1>1, StaffInvariance, PTL

(* createUser and assignRole hand on permissions that somebody holds, or   *)
(* held when the request was let in, and no others.                        *)
THEOREM RightsAreHandedOn == StaffSpec => NoNewPermission
<1>1. StaffIInv /\ StaffIInv' /\ [StaffNext]_staffVars => [Known' \subseteq Known]_staffVars
  <2> SUFFICES ASSUME StaffIInv, StaffIInv', [StaffNext]_staffVars
               PROVE  Known' \subseteq Known
    OBVIOUS
  <2>1. ASSUME NEW p \in Known'
        PROVE  p \in Known
    <3>1. p \in Permissions
      BY DEF Known
    <3>2. KnownBy(p)'
      BY DEF StaffIInv, Known, KnownBy, PermissionsOf, StaffTypeOK
    <3> QED BY <3>1, <3>2, KnownNext, KnownByIsKnown DEF StaffIInv
  <2> QED BY <2>1
<1> QED BY <1>1, StaffInvariance, PTL DEF StaffSpec, NoNewPermission
=============================================================================
