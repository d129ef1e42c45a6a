------------------------------ MODULE TaskBoard ------------------------------
(***************************************************************************)
(* Staff tasks: the periodic sweep of TaskAutomationService, which opens   *)
(* and closes AUTOMATED tasks after what it reads of orders, stock and     *)
(* refunds, and the admins who complete, cancel and reopen any task        *)
(* (apps/api/src/tasks).                                                   *)
(*                                                                         *)
(* A sweep is a fixed list of steps.  Each reads in statements of its own, *)
(* writes in another, and nothing is locked in between, so orders move and *)
(* admins and other instances' sweeps act on the same tasks meanwhile.     *)
(*                                                                         *)
(* A task is named by what its dedupeKey is made of: its type and the row  *)
(* it is about.  SHIPPED stands for SHIPPED, DELIVERED and COMPLETED, and  *)
(* REFUNDED for PARTIALLY_REFUNDED too.  Disputes are left out: no code    *)
(* sets the payment status their steps look for.                           *)
(***************************************************************************)
EXTENDS Integers, Sequences, FiniteSets

CONSTANTS
  Orders, Variants, Refunds,   \* the rows tasks are about
  Checklist,     \* the task types opened together for production
  ManualTypes,   \* types an admin creates tasks of by hand
  Sweepers,      \* instances of the API, each with a timer
  PageSize,      \* how many variants listLowStock lists for a sweep
  MaxClicks,     \* bound: decisions of admins
  MaxMoves,      \* bound: changes of the rows the sweep reads
  MaxFailures    \* bound: sweeps that end in an exception

ASSUME BoundsAreNumbers == {PageSize, MaxClicks, MaxMoves, MaxFailures} \subseteq Nat
ASSUME ChecklistIsApart ==
  Checklist \cap {"SHIP_ORDER", "FOLLOW_UP_DELAYED_ORDER", "RESTOCK", "CUSTOMER_FOLLOW_UP",
                  "FOLLOW_UP_PENDING_REFUND", "FOLLOW_UP_FAILED_REFUND"} = {}

VARIABLES
  order,     \* Order.status
  late,      \* orders past their production time and the days of grace
  low,       \* variants below their threshold
  page,      \* the most urgent of them, as listLowStock lists them
  refund,    \* Refund.status
  aged,      \* refunds pending for longer than the follow-up hours
  old,       \* refunds that fell out of the 30-day lookback
  task,      \* Task.status by type, row and source
  sweep,     \* where each instance's sweep is, and what it has read
  swept,     \* tasks whose last change was a sweep closing them (history)
  clicks, moves, failures

stockVars == <<low, page>>
refundVars == <<refund, aged, old>>
rowVars == <<order, late, stockVars, refundVars, moves>>
vars == <<rowVars, task, sweep, swept, clicks, failures>>

OrderTypes == Checklist \cup {"SHIP_ORDER", "FOLLOW_UP_DELAYED_ORDER"}
RefundTypes == {"CUSTOMER_FOLLOW_UP", "FOLLOW_UP_PENDING_REFUND", "FOLLOW_UP_FAILED_REFUND"}
Subjects == (OrderTypes \X Orders) \cup ({"RESTOCK"} \X Variants) \cup (RefundTypes \X Refunds)
Sources == {"AUTOMATED", "MANUAL"}
Tasks == Subjects \X Sources
Automated(about) == <<about, "AUTOMATED">>
TypeOf(t) == t[1][1]

(***************************************************************************)
(* What the steps look for                                                 *)
(***************************************************************************)
Due(about) ==
  LET type == about[1]  x == about[2] IN
  \/ type \in Checklist /\ order[x] = "IN_PRODUCTION"
  \/ type = "SHIP_ORDER" /\ order[x] = "READY_TO_SHIP"
  \/ type = "FOLLOW_UP_DELAYED_ORDER" /\ order[x] = "IN_PRODUCTION" /\ x \in late
  \/ type = "RESTOCK" /\ x \in page
  \/ type = "CUSTOMER_FOLLOW_UP" /\ refund[x] = "SUCCEEDED" /\ x \notin old
  \/ type = "FOLLOW_UP_PENDING_REFUND" /\ refund[x] = "PENDING" /\ x \in aged
  \/ type = "FOLLOW_UP_FAILED_REFUND" /\ refund[x] = "FAILED" /\ x \notin old

\* Bug: the ship task counts as done once the order is ready.
OverWhenReady(about) ==
  /\ about[1] \in Checklist \cup {"SHIP_ORDER"}
  /\ order[about[2]] \in {"READY_TO_SHIP", "SHIPPED"}

(* Types whose tasks are closed in one guarded update over their orders... *)
OverForOrder(about) ==
  LET type == about[1]  x == about[2] IN
  \/ type \in Checklist /\ order[x] \in {"READY_TO_SHIP", "SHIPPED"}
  \/ type = "SHIP_ORDER" /\ order[x] = "SHIPPED"

(* ...and types whose open tasks are read first and compared one by one.   *)
StillHolds(about) ==
  LET type == about[1]  x == about[2] IN
  \/ type = "FOLLOW_UP_DELAYED_ORDER" /\ order[x] = "IN_PRODUCTION"
  \/ type = "RESTOCK" /\ x \in page
  \/ type = "FOLLOW_UP_PENDING_REFUND" /\ refund[x] = "PENDING"

Opens(types) == [does |-> "open", types |-> types]
ClosesWhere(types) == [does |-> "close where", types |-> types]
ClosesListed(types) == [does |-> "close listed", types |-> types]

Plan == <<
  Opens(Checklist), ClosesWhere(Checklist),
  Opens({"SHIP_ORDER"}), ClosesWhere({"SHIP_ORDER"}),
  Opens({"FOLLOW_UP_DELAYED_ORDER"}), ClosesListed({"FOLLOW_UP_DELAYED_ORDER"}),
  Opens({"RESTOCK"}), ClosesListed({"RESTOCK"}),
  Opens({"CUSTOMER_FOLLOW_UP"}),
  Opens({"FOLLOW_UP_PENDING_REFUND"}), ClosesListed({"FOLLOW_UP_PENDING_REFUND"}),
  Opens({"FOLLOW_UP_FAILED_REFUND"}) >>

(***************************************************************************)
(* The sweep                                                               *)
(***************************************************************************)
Waiting == [at |-> 0, phase |-> "read", seen |-> {}]
Step(s) == Plan[sweep[s].at]
Doing(s, what, phase) == sweep[s].at > 0 /\ Step(s).does = what /\ sweep[s].phase = phase
After(s) == [Waiting EXCEPT !.at = IF sweep[s].at = Len(Plan) THEN 0 ELSE sweep[s].at + 1]

\* Bug: a step that finds nothing ends the sweep.
FoundOrEnd(s, phase, seen) ==
  sweep' = [sweep EXCEPT ![s] = IF seen = {} THEN Waiting ELSE [@ EXCEPT !.phase = phase, !.seen = seen]]

(* A step that finds nothing returns before it writes. *)
Found(s, phase, seen) ==
  sweep' = [sweep EXCEPT ![s] = IF seen = {} THEN After(s)
                                ELSE [@ EXCEPT !.phase = phase, !.seen = seen]]

Tick(s) ==
  /\ sweep[s].at = 0
  /\ sweep' = [sweep EXCEPT ![s].at = 1]
  /\ UNCHANGED <<rowVars, task, swept, clicks, failures>>

OfTypes(s) == {about \in Subjects : about[1] \in Step(s).types}

ReadDue(s) ==
  /\ Doing(s, "open", "read")
  /\ Found(s, "write", {about \in OfTypes(s) : Due(about)})
  /\ UNCHANGED <<rowVars, task, swept, clicks, failures>>

(* createMany with skipDuplicates on the unique dedupeKey *)
Insertable(t) == task[t] = "NONE"
CreateMany(s) ==
  /\ Doing(s, "open", "write")
  /\ task' = [t \in Tasks |-> IF t[2] = "AUTOMATED" /\ t[1] \in sweep[s].seen /\ Insertable(t)
                              THEN "OPEN" ELSE task[t]]
  /\ sweep' = [sweep EXCEPT ![s] = After(s)]
  /\ UNCHANGED <<rowVars, swept, clicks, failures>>

ReadOver(s) ==
  /\ Doing(s, "close where", "read")
  /\ Found(s, "write", {about \in OfTypes(s) : OverForOrder(about)})
  /\ UNCHANGED <<rowVars, task, swept, clicks, failures>>

Close(s, closed) ==
  /\ task' = [t \in Tasks |-> IF t \in closed THEN "DONE" ELSE task[t]]
  /\ swept' = swept \cup closed
  /\ sweep' = [sweep EXCEPT ![s] = After(s)]
  /\ UNCHANGED <<rowVars, clicks, failures>>

\* Bug: the status is not part of the WHERE.
ClosableAnyStatus(t) == task[t] # "NONE" /\ t[2] = "AUTOMATED"

(* updateMany where status OPEN and source AUTOMATED *)
Closable(t) == task[t] = "OPEN" /\ t[2] = "AUTOMATED"
CloseWhere(s) ==
  /\ Doing(s, "close where", "write")
  /\ Close(s, {t \in Tasks : t[1] \in sweep[s].seen /\ Closable(t)})

ReadOpen(s) ==
  /\ Doing(s, "close listed", "read")
  /\ Found(s, "compare", {about \in OfTypes(s) : task[Automated(about)] = "OPEN"})
  /\ UNCHANGED <<rowVars, task, swept, clicks, failures>>

Compare(s) ==
  /\ Doing(s, "close listed", "compare")
  /\ Found(s, "write", {about \in sweep[s].seen : ~StillHolds(about)})
  /\ UNCHANGED <<rowVars, task, swept, clicks, failures>>

(* updateMany where id is listed, whatever the status is by now *)
CloseListed(s) ==
  /\ Doing(s, "close listed", "write")
  /\ Close(s, {Automated(about) : about \in sweep[s].seen})

(* The scheduler logs the error; the next tick starts again at step one. *)
NextTick(s) == 0
Fail(s) ==
  /\ sweep[s].at > 0 /\ failures < MaxFailures
  /\ failures' = failures + 1
  /\ sweep' = [sweep EXCEPT ![s] = [Waiting EXCEPT !.at = NextTick(s)]]
  /\ UNCHANGED <<rowVars, task, swept, clicks>>

Run(s) == \/ ReadDue(s) \/ CreateMany(s) \/ ReadOver(s) \/ CloseWhere(s)
          \/ ReadOpen(s) \/ Compare(s) \/ CloseListed(s)

(***************************************************************************)
(* Admins: create, complete, cancel, reopen                                *)
(***************************************************************************)
Transition(t, from, to) ==
  /\ clicks < MaxClicks /\ task[t] \in from
  /\ clicks' = clicks + 1
  /\ task' = [task EXCEPT ![t] = to]
  /\ swept' = swept \ {t}
  /\ UNCHANGED <<rowVars, sweep, failures>>

CreateTask(t) == t[2] = "MANUAL" /\ Transition(t, {"NONE"}, "OPEN")
CreateTaskDialog(t) == TypeOf(t) \in ManualTypes /\ CreateTask(t)
Complete(t) == Transition(t, {"OPEN"}, "DONE")
Cancel(t) == Transition(t, {"OPEN"}, "CANCELED")
Reopen(t) == Transition(t, {"DONE", "CANCELED"}, "OPEN")

(***************************************************************************)
(* The rows the sweep reads, moved by fulfilment, refunds, sales and time  *)
(***************************************************************************)
OrderEdges == {<<"CONFIRMED", "READY_TO_SHIP">>, <<"IN_PRODUCTION", "READY_TO_SHIP">>,
               <<"READY_TO_SHIP", "SHIPPED">>}
              \cup ({"CONFIRMED", "IN_PRODUCTION", "READY_TO_SHIP", "SHIPPED"} \X {"REFUNDED"})
RefundEdges == {<<"NONE", "PENDING">>, <<"PENDING", "SUCCEEDED">>, <<"PENDING", "FAILED">>}

MoveOrder(o, to) ==
  /\ <<order[o], to>> \in OrderEdges
  /\ order' = [order EXCEPT ![o] = to]
  /\ UNCHANGED <<late, stockVars, refundVars>>
RunLate(o) ==
  /\ order[o] = "IN_PRODUCTION" /\ o \notin late
  /\ late' = late \cup {o}
  /\ UNCHANGED <<order, stockVars, refundVars>>

(* Which variants are the most urgent is decided by their quantities. *)
Pages(variants) == {p \in SUBSET variants : Cardinality(p) = PageSize \/ (p = variants /\ Cardinality(p) < PageSize)}
MoveStock(v) ==
  /\ low' \in {low \ {v}, low \cup {v}} /\ page' \in Pages(low')
  /\ <<low', page'>> # <<low, page>>
  /\ UNCHANGED <<order, late, refundVars>>

(* processedAt is the moment of success; a failed refund keeps createdAt.  *)
MoveRefund(r, to) ==
  /\ <<refund[r], to>> \in RefundEdges
  /\ refund' = [refund EXCEPT ![r] = to]
  /\ old' = IF to = "SUCCEEDED" THEN old \ {r} ELSE old
  /\ UNCHANGED <<order, late, stockVars, aged>>
Age(r) ==
  /\ refund[r] = "PENDING" /\ r \notin aged
  /\ aged' = aged \cup {r}
  /\ UNCHANGED <<order, late, stockVars, refund, old>>
FallBehind(r) ==
  /\ refund[r] # "NONE" /\ r \notin old
  /\ old' = old \cup {r}
  /\ UNCHANGED <<order, late, stockVars, refund, aged>>

RowsMove ==
  /\ moves < MaxMoves /\ moves' = moves + 1
  /\ \/ \E o \in Orders : RunLate(o) \/ \E to \in {"READY_TO_SHIP", "SHIPPED", "REFUNDED"} : MoveOrder(o, to)
     \/ \E v \in Variants : MoveStock(v)
     \/ \E r \in Refunds : Age(r) \/ FallBehind(r) \/ \E to \in {"PENDING", "SUCCEEDED", "FAILED"} : MoveRefund(r, to)
  /\ UNCHANGED <<task, sweep, swept, clicks, failures>>

-----------------------------------------------------------------------------
Init ==
  /\ order \in [Orders -> {"CONFIRMED", "IN_PRODUCTION"}]
  /\ refund = [r \in Refunds |-> "NONE"]
  /\ late = {} /\ low = {} /\ page = {} /\ aged = {} /\ old = {}
  /\ task = [t \in Tasks |-> "NONE"]
  /\ sweep = [s \in Sweepers |-> Waiting]
  /\ swept = {}
  /\ clicks = 0 /\ moves = 0 /\ failures = 0

Click == \E t \in Tasks : CreateTaskDialog(t) \/ Complete(t) \/ Cancel(t) \/ Reopen(t)
Sweep(s) == Tick(s) \/ Run(s)
Next == Click \/ RowsMove \/ \E s \in Sweepers : Sweep(s) \/ Fail(s)

Spec == Init /\ [][Next]_vars
(* Timers fire again and again, and a sweep's statements are answered. *)
FairSpec == Spec /\ \A s \in Sweepers : WF_vars(Sweep(s))

-----------------------------------------------------------------------------
TypeOK ==
  /\ order \in [Orders -> {"CONFIRMED", "IN_PRODUCTION", "READY_TO_SHIP", "SHIPPED", "REFUNDED"}]
  /\ refund \in [Refunds -> {"NONE", "PENDING", "SUCCEEDED", "FAILED"}]
  /\ late \subseteq Orders /\ low \subseteq Variants /\ page \subseteq low
  /\ aged \subseteq Refunds /\ old \subseteq Refunds
  /\ task \in [Tasks -> {"NONE", "OPEN", "DONE", "CANCELED"}]
  /\ sweep \in [Sweepers -> [at : 0..Len(Plan), phase : {"read", "compare", "write"},
                             seen : SUBSET Subjects]]
  /\ swept \subseteq Tasks
  /\ clicks \in 0..MaxClicks /\ moves \in 0..MaxMoves /\ failures \in 0..MaxFailures

(* A task a sweep has closed is about something that is over for good,     *)
(* however long ago the sweep read it: production, shipping, a delay or a  *)
(* pending refund does not come back.                                      *)
ClosedMeansOver ==
  \A t \in swept : TypeOf(t) # "RESTOCK" => ~Due(t[1]) /\ ~StillHolds(t[1])

(* What admins decide about production and shipping tasks, and every task  *)
(* they created by hand, the sweep leaves alone: these closing steps only  *)
(* ever close an open automated task.                                      *)
DecisionsStand ==
  [][(\E s \in Sweepers : sweep'[s] # sweep[s]) =>
       \A t \in Tasks : /\ t[2] = "MANUAL" => task'[t] = task[t]
                        /\ TypeOf(t) \in Checklist \cup {"SHIP_ORDER"} /\ task[t] \in {"DONE", "CANCELED"}
                             => task'[t] = task[t]]_vars

(* "Every close step is a guarded updateMany" (task-automation.scheduler.ts *)
(* lines 13-17): a sweep closes open tasks only.  Four of its closing      *)
(* steps break this: see the README.                                       *)
EveryCloseIsGuarded ==
  [][(\E s \in Sweepers : sweep'[s] # sweep[s]) =>
       \A t \in Tasks : task'[t] # task[t] => task[t] \in {"NONE", "OPEN"}]_vars

(* Once rows and admins come to rest the board is right, even if sweeps    *)
(* died half-way and a stale sweep opened a task late: whatever is due has *)
(* its task, and no automated task is open for a shipped order, a recovered *)
(* variant or a settled refund.                                            *)
BoardCatchesUp ==
  <>[](\A about \in Subjects : LET t == Automated(about) IN
         /\ Due(about) => task[t] # "NONE"
         /\ OverForOrder(about) => task[t] # "OPEN"
         /\ TypeOf(t) \in {"FOLLOW_UP_DELAYED_ORDER", "RESTOCK", "FOLLOW_UP_PENDING_REFUND"} /\ ~StillHolds(about)
              => task[t] # "OPEN")
=============================================================================
