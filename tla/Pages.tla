---- MODULE Pages ----
(***************************************************************************)
(* The pages that show records and change them: work orders, one work       *)
(* order, maintenance plans, assets; and alarms and energy, which only show *)
(* theirs.  A page reads its tables by calls under way together (Promise.   *)
(* all) and shows their answers when all have come; a change is a POST, and *)
(* the page is loaded again once that has succeeded.  Nothing is cancelled  *)
(* or awaited by the other buttons, so loads and changes overlap.  A page   *)
(* starts anew when it is opened, so each is modelled from there on.  One   *)
(* order, one plan and the names of the assets stand for the rows.          *)
(***************************************************************************)
EXTENDS Naturals, Sequences, FiniteSets

CONSTANTS
    Names,        \* names that equipment and tags may get
    MaxLoads,     \* bound: loads of a page
    MaxPosts,     \* bound: changes under way
    MaxChanges    \* bound: changes of a table, the one that filled it too

ASSUME PagesAssumption == MaxChanges \in Nat \ {0}

VARIABLES
    store,    \* the tables: a value, and the number of its last change
    view,     \* the page, what it shows, its role, and what is known about it
    loads,    \* the loads of the page in the order they began
    posts,    \* the page's changes under way
    own       \* history: the number of the page's last change of each table

pagesVars == <<store, view, loads, posts, own>>

Rules == INSTANCE WorkOrderRules WITH Users <- {}, RolesOf <- <<>>, TenantOf <- <<>>

NoRow == "none"

Tables == {"orders", "plans", "assets", "trail", "alarms", "meters"}

\* load() of WorkOrdersPage: the orders, and the equipment for the form.
OrdersReads == {"orders", "assets"}

\* load() of WorkOrderDetailPage: the order, its technicians, and its audit trail.
DetailReads == {"orders", "trail"}

\* load() of MaintenancePage.
PlansReads == {"plans", "assets"}

\* load() of AssetsPage; sites and units never change.
AssetsReads == {"assets"}

AlarmsReads == {"alarms"}

EnergyReads == {"meters"}

Reads == [orders |-> OrdersReads, detail |-> DetailReads, plans |-> PlansReads,
          assets |-> AssetsReads, alarms |-> AlarmsReads, energy |-> EnergyReads]

NotYet == [at |-> 0, value |-> NoRow]

Asked == [done |-> FALSE, after |-> "open", answers |-> [t \in {} |-> NotYet]]

Opened(p, edit) == [page |-> p, shown |-> [t \in Reads[p] |-> NotYet], canEdit |-> edit,
                    inOrder |-> FALSE, failed |-> FALSE]

PagesInit ==
    /\ store = [t \in Tables |-> [at |-> 1, value |-> IF t = "assets" THEN {} ELSE NoRow]]
    /\ \E p \in DOMAIN Reads, edit \in BOOLEAN :
         view = Opened(p, edit) /\ loads = <<Asked>>
    /\ posts = {}
    /\ own = [t \in Tables |-> 0]

----
\* The form of WorkOrdersPage.
OrdersButtons == IF view.canEdit THEN {[table |-> "orders", what |-> "CREATE"]} ELSE {}

\* The buttons of WorkOrderDetailPage: the events the server said the status allows.
DetailButtons ==
    {[table |-> "orders", what |-> e] :
        e \in {x \in Rules!Events : \E s \in Rules!Statuses :
                <<view.shown["orders"].value, x, s>> \in Rules!Edges}}

\* The scheduler's button is off from its click until the load after it has ended.
Scheduling == \/ \E p \in posts : p.what = "schedule"
              \/ \E i \in DOMAIN loads : loads[i].after = "schedule" /\ ~loads[i].done

\* The form and the buttons of MaintenancePage, by the status it shows.
PlansButtons ==
    IF ~view.canEdit THEN {}
    ELSE {[table |-> "plans", what |-> w] :
            w \in {"CREATE"} \cup {x \in {"schedule"} : ~Scheduling}
                  \cup (CASE view.shown["plans"].value = "draft" -> {"submitted"}
                          [] view.shown["plans"].value = "submitted" -> {"approved", "rejected"}
                          [] OTHER -> {})}

\* The two forms of AssetsPage: equipment, and a tag.
AssetsButtons == IF view.canEdit THEN {[table |-> "assets", what |-> n] : n \in Names} ELSE {}

Buttons == CASE view.page = "orders" -> OrdersButtons
             [] view.page = "detail" -> DetailButtons
             [] view.page = "plans" -> PlansButtons
             [] view.page = "assets" -> AssetsButtons
             [] OTHER -> {}

\* What a POST makes of the table's value; nothing, if the server refuses it.
Changed(p, value) ==
    IF p.table = "assets" THEN {value \cup {p.what}} \ {value}
    ELSE IF p.what = "CREATE" THEN {"draft"}
    ELSE IF p.table = "orders" THEN {s \in Rules!Statuses : <<value, p.what, s>> \in Rules!Edges}
    ELSE IF value = NoRow THEN {}
    ELSE IF p.what = "schedule" THEN {value} ELSE {p.what}

Stamp(t, value) == [at |-> store[t].at + 1, value |-> value]

----
\* A click: the POST is sent, with whatever else is under way.
Press(b) ==
    /\ b \in Buttons
    /\ Cardinality(posts) < MaxPosts
    /\ posts' = posts \cup {[table |-> b.table, what |-> b.what, phase |-> "sent", at |-> 0]}
    /\ view' = [view EXCEPT !.failed = FALSE]
    /\ UNCHANGED <<store, loads, own>>

To(p, phase, at) == posts' = (posts \ {p}) \cup {[p EXCEPT !.phase = phase, !.at = at]}

\* The service changes its row.
Perform(p) ==
    /\ p.phase = "sent" /\ store[p.table].at < MaxChanges
    /\ \E value \in Changed(p, store[p.table].value) :
         /\ store' = [store EXCEPT ![p.table] = Stamp(p.table, value)]
         /\ To(p, "performed", store[p.table].at + 1)
    /\ UNCHANGED <<view, loads, own>>

\* audit.record, then the answer.
RecordPost(p) ==
    /\ p.phase = "performed" /\ store["trail"].at < MaxChanges
    /\ store' = [store EXCEPT !["trail"] = Stamp("trail", NoRow)]
    /\ To(p, "recorded", p.at)
    /\ UNCHANGED <<view, loads, own>>

\* Variant with a defect: the page is loaded without waiting for the POST.
AnswerEarly(p) ==
    /\ p.phase = "sent" /\ Len(loads) < MaxLoads
    /\ posts' = posts \ {p}
    /\ loads' = Append(loads, [Asked EXCEPT !.after = p.what])
    /\ view' = [view EXCEPT !.inOrder = FALSE]
    /\ store' = [store EXCEPT ![p.table] = Stamp(p.table, @.value)]
    /\ own' = [own EXCEPT ![p.table] = store[p.table].at + 2]

\* The POST succeeded: await load().
Answer(p) ==
    /\ p.phase = "recorded" /\ Len(loads) < MaxLoads
    /\ posts' = posts \ {p}
    /\ loads' = Append(loads, [Asked EXCEPT !.after = p.what])
    /\ view' = [view EXCEPT !.inOrder = FALSE]
    /\ own' = [own EXCEPT ![p.table] = IF p.at > @ THEN p.at ELSE @]
    /\ UNCHANGED store

\* Refused, or failed on the way, perhaps after the row was changed: an error is
\* shown, and the page is not loaded.
Refuse(p) ==
    /\ posts' = posts \ {p}
    /\ view' = [view EXCEPT !.failed = TRUE]
    /\ UNCHANGED <<store, loads, own>>

----
\* One of the calls of a load reads its table.
ReadTable(i, t) ==
    /\ ~loads[i].done /\ t \in Reads[view.page] \ DOMAIN loads[i].answers
    /\ loads' = [loads EXCEPT ![i].answers =
         [x \in DOMAIN @ \cup {t} |-> IF x = t THEN store[t] ELSE @[x]]]
    /\ UNCHANGED <<store, view, posts, own>>

\* All answers are there: they are shown, over whatever is shown by now.
Show(i) ==
    /\ ~loads[i].done /\ DOMAIN loads[i].answers = Reads[view.page]
    /\ view' = [view EXCEPT !.shown = loads[i].answers, !.inOrder = i = Len(loads)]
    /\ loads' = [loads EXCEPT ![i] = [Asked EXCEPT !.done = TRUE]]
    /\ UNCHANGED <<store, posts, own>>

LoadFails(i) ==
    /\ ~loads[i].done
    /\ view' = [view EXCEPT !.failed = TRUE]
    /\ loads' = [loads EXCEPT ![i] = [Asked EXCEPT !.done = TRUE]]
    /\ UNCHANGED <<store, posts, own>>

\* Another user or a job changes a row.
OtherChange(t) ==
    /\ t \in Reads[view.page] /\ store[t].at < MaxChanges
    /\ \E value \in CASE t = "orders" -> {s \in Rules!Statuses : \E e \in Rules!Events :
                                           <<store[t].value, e, s>> \in Rules!Edges}
                                        \cup {"draft"}
                      [] t = "plans" -> {"draft", "submitted", "approved", "rejected"}
                      [] t = "assets" -> {store[t].value \cup {n} : n \in Names}
                      [] OTHER -> {NoRow} :
         store' = [store EXCEPT ![t] = Stamp(t, value)]
    /\ UNCHANGED <<view, loads, posts, own>>

PagesNext ==
    \/ \E b \in Buttons : Press(b)
    \/ \E p \in posts : Perform(p) \/ RecordPost(p) \/ Answer(p) \/ Refuse(p)
    \/ \E i \in DOMAIN loads : Show(i) \/ LoadFails(i) \/ \E t \in Tables : ReadTable(i, t)
    \/ \E t \in Tables : OtherChange(t)

PagesSpec == PagesInit /\ [][PagesNext]_pagesVars

----
PagesTypeOK ==
    /\ \A t \in Tables : store[t].at \in 1..MaxChanges /\ own[t] \in 0..MaxChanges
    /\ view.page \in DOMAIN Reads /\ DOMAIN view.shown = Reads[view.page]
    /\ \A i \in DOMAIN loads : DOMAIN loads[i].answers \subseteq Reads[view.page]
    /\ \A p \in posts : /\ p.table \in Tables /\ p.at \in 0..store[p.table].at
                        /\ p.phase \in {"sent", "performed", "recorded"}

\* When nothing is under way, the last load to be shown was the last one begun and
\* nothing failed, the page shows each of its tables at least as new as the user's
\* own last change to it, and everything there was when it was opened.
OwnChangeShown ==
    (\A i \in DOMAIN loads : loads[i].done) /\ posts = {} /\ view.inOrder /\ ~view.failed
    => \A t \in Reads[view.page] : view.shown[t].at >= 1 /\ view.shown[t].at >= own[t]
====
