----------------------------- MODULE StoreFlow -----------------------------
(***************************************************************************)
(* Users of a store work on its shipments from their devices: they pick,   *)
(* pack, hand over, sort by scanning, put on hold locations, print slips   *)
(* and wrap gifts.  Every device shows copies of what the server said; a   *)
(* request is served some time after it is sent, and its answer is handled *)
(* some time after that, on whatever page the user is then.                *)
(*                                                                         *)
(* What is computed of a shipment is in ShipmentTasks; this module is the  *)
(* pages, the requests and their answers.  The product's own pages (the    *)
(* wizards that pick, pack and hand over) and the server are modelled from *)
(* how the screens call them.  Shipments of a batch are left out: they are *)
(* refused with an error and a popup of their own.                         *)
(***************************************************************************)
EXTENDS ShipmentTasks, FiniteSets

CONSTANTS
  N,         \* the number of shipments, in the order the server lists them
  Openings,  \* what the shipments can be in the beginning, and what users may do then
  MaxCalls,  \* bound: requests and answers of a user under way
  MaxActs    \* bound: the most that users do

ASSUME BoundAssumption == N \in Nat /\ MaxCalls \in Nat /\ MaxActs \in Nat
ASSUME OpeningAssumption ==
  /\ Openings \subseteq [ship : [1..N -> Shipment], acts : 0..MaxActs]
  /\ \A opening \in Openings, s \in 1..N : Sensible(opening.ship[s])

VARIABLES
  ship,      \* the server's shipments
  hold,      \* their hold locations
  desk,      \* what each user's device shows
  list,      \* the locations in the list of the hold location screen
  entry,     \* whether its box for a location is open
  net,       \* requests and answers
  acts,      \* what the users may still do
  \* history variables, read by no guard of the program
  shared,    \* a scan was answered for a user who may sort the shipment beside another
  doubled    \* a location of several words was entered, or one beside one being deleted

server == <<ship, hold>>
device == <<desk, list, entry>>
history == <<shared, doubled>>
vars == <<server, device, net, acts, history>>

Page == {"home", "details", "asking", "wizard", "scan", "sort", "hold", "locate",
         "wrap", "summary"}
Choice == {"STARTOVER", "CONTINUE", "CLOSEPOPUP"}
Error == {"AssignedToUserIsDifferent", "context", None}

\* A page: the shipment it is about, the copy of it that it was made with, the
\* task of a wizard or popup, and whether the wizard may go on.
Desk == [page : Page, on : 1..N \cup {None}, copy : Shipment \cup {None},
         task : Task \cup {None}, way : Way \cup {None}, ready : BOOLEAN]
Home == [page |-> "home", on |-> None, copy |-> None, task |-> None, way |-> None,
         ready |-> FALSE]
PageOf(page, s) == [Home EXCEPT !.page = page, !.on = s]
Showing(page, s) == [PageOf(page, s) EXCEPT !.copy = ship[s]]
Wizard(s, task) == [PageOf("wizard", s) EXCEPT !.task = task]

At(u, pages) == desk[u].page \in pages
On(u) == desk[u].on
Turn(u, d) == desk' = [desk EXCEPT ![u] = d]

-----------------------------------------------------------------------------
(* Requests and answers *)

Line == [found : BOOLEAN, flagged : BOOLEAN, assigned : User \cup {None}]

Message ==
  [msg : {"validate"}, by : User, on : 1..N, task : Task, way : Way]
  \cup [msg : {"validated"}, by : User, on : 1..N, task : Task, way : Way,
        error : Error, copy : Shipment]
  \cup [msg : {"take"}, by : User, on : 1..N, task : Task, way : Way,
        choice : Choice, calls : SUBSET Call, saw : BOOLEAN]
  \cup [msg : {"taken"}, by : User, on : 1..N, task : Task, way : Way,
        calls : SUBSET Call, ok : BOOLEAN]
  \cup [msg : {"scan"}, by : User, how : {"enter", "blur"}]
  \cup [msg : {"scanned"}, by : User, how : {"enter", "blur"}, lines : [1..N -> Line]]
  \cup [msg : {"sort", "print", "printed"}, by : User, on : 1..N]
  \cup [msg : {"drop"}, by : User, on : 1..N, page : Page, tran : {"slip", "wrap"},
        base : Status]
  \cup [msg : {"dropped"}, by : User, on : 1..N, page : Page, ok : BOOLEAN]

\* Requests to store locations, and their answers, carry the locations.
Carries(m) == m.msg \in {"save", "saved"} /\ m.by \in User /\ m.on \in 1..N

Validate(u, s, task, way) ==
  [msg |-> "validate", by |-> u, on |-> s, task |-> task, way |-> way]
TakeCall(u, s, task, way, choice, calls) ==
  [msg |-> "take", by |-> u, on |-> s, task |-> task, way |-> way, choice |-> choice,
   calls |-> calls, saw |-> desk[u].copy.boxes]
ScanCall(u, how) == [msg |-> "scan", by |-> u, how |-> how]
SortCall(u, s) == [msg |-> "sort", by |-> u, on |-> s]
PrintCall(u, s) == [msg |-> "print", by |-> u, on |-> s]
SaveCall(u, s, places) == [msg |-> "save", by |-> u, on |-> s, hold |-> places]
DropCall(u, s, page, tran, base) ==
  [msg |-> "drop", by |-> u, on |-> s, page |-> page, tran |-> tran, base |-> base]

Outstanding(u) == {m \in net : m.by = u}
Send(m) == m \notin net /\ net' = net \cup {m}
Reply(m, answer) == net' = (net \ {m}) \cup {answer}
Drop(m) == net' = net \ {m}

UserActs(u) == /\ acts > 0 /\ acts' = acts - 1
               /\ Cardinality(Outstanding(u)) < MaxCalls

-----------------------------------------------------------------------------
(* Pages *)

Init ==
  /\ \E opening \in Openings : ship = opening.ship /\ acts = opening.acts
  /\ hold = [s \in 1..N |-> <<>>]
  /\ desk = [u \in User |-> Home]
  /\ list = [u \in User |-> <<>>] /\ entry = [u \in User |-> FALSE]
  /\ net = {} /\ shared = [s \in 1..N |-> FALSE] /\ doubled = FALSE

\* A search lists shipments as they are then; nothing lists them anew.
SST_search(u, s) == Turn(u, Showing("details", s))

OpenDetails(u, s) ==
  /\ UserActs(u) /\ At(u, {"home"}) /\ SST_search(u, s)
  /\ UNCHANGED <<server, list, entry, net, history>>

\* The summary of a picked shipment prints its slip by itself, as it is shown:
\* printButtonCheck and changePrintStatus.
PrintButtonCheck(u, s) ==
  IF ship[s].status = "picked"
  THEN net' = net \cup {DropCall(u, s, "summary", "slip", BaseDropStatus(ship[s].gifts))}
  ELSE net' = net

OpenPickDetails(u, s) ==
  /\ UserActs(u) /\ At(u, {"home"})
  /\ Turn(u, Showing("summary", s)) /\ PrintButtonCheck(u, s)
  /\ UNCHANGED <<server, list, entry, history>>

MoveToSort(u) ==
  /\ UserActs(u) /\ At(u, {"home"}) /\ Turn(u, [Home EXCEPT !.page = "scan"])
  /\ UNCHANGED <<server, list, entry, net, history>>

\* A page is left, a wizard closed.
Leave(u) ==
  /\ UserActs(u) /\ ~At(u, {"home", "asking"}) /\ Turn(u, Home)
  /\ list' = [list EXCEPT ![u] = <<>>] /\ entry' = [entry EXCEPT ![u] = FALSE]
  /\ UNCHANGED <<server, net, history>>

-----------------------------------------------------------------------------
(* Starting tasks *)

\* The tasks that a page offers for the copy it shows.
Offered(u) ==
  IF At(u, {"details"}) THEN {NextTask(u, desk[u].copy)} \ {None}
  ELSE IF At(u, {"summary"}) THEN RelatedTasks(u, desk[u].copy) \cap Task ELSE {}

\* handleStartPack_OnClick and its like: the server is asked first.
OnClick(u, task) ==
  /\ UserActs(u) /\ task \in Offered(u) /\ Send(Validate(u, On(u), task, "link"))
  /\ UNCHANGED <<server, device, history>>

OpenPickOrPackFlow(u, task) ==
  /\ UserActs(u) /\ At(u, {"details"}) /\ task \in Offered(u)
  /\ Send(Validate(u, On(u), task, "flow"))
  /\ UNCHANGED <<server, device, history>>

\* pickDefaultAction and packDefaultAction: the wizard is opened at once, and
\* asks the server itself.
DefaultAction(u, task) ==
  /\ UserActs(u) /\ At(u, {"details"}) /\ task \in Offered(u)
  /\ Turn(u, Wizard(On(u), task)) /\ Send(Validate(u, On(u), task, "wizard"))
  /\ UNCHANGED <<server, list, entry, history>>

\* The server names an error of the shipment, any of those that apply.
Errors(u, s, task) ==
  LET all == {e \in Error : \/ e = "AssignedToUserIsDifferent" /\ Another(u, ship[s])
                            \/ e = "context" /\ ~Valid(task, ship[s])} IN
  IF all = {} THEN {None} ELSE all

ServeValidate(m) ==
  /\ m.msg = "validate"
  /\ \E e \in Errors(m.by, m.on, m.task) :
       Reply(m, [msg |-> "validated", by |-> m.by, on |-> m.on, task |-> m.task,
                 way |-> m.way, error |-> e, copy |-> ship[m.on]])
  /\ UNCHANGED <<server, history>>

\* Every wizard asks the server when it is opened.
OpenWizard(m) ==
  Turn(m.by, Wizard(m.on, m.task)) /\ Reply(m, Validate(m.by, m.on, m.task, "wizard"))

\* Mutant of OpenPopup: the popup does not know of which task it is.
OpenBarePopup(m) ==
  Turn(m.by, [PageOf("asking", m.on) EXCEPT !.copy = m.copy, !.way = m.way]) /\ Drop(m)
\* The popup of a shipment that is another user's.
OpenPopup(m) ==
  /\ Turn(m.by, [PageOf("asking", m.on) EXCEPT !.copy = m.copy, !.task = m.task,
                                               !.way = m.way])
  /\ Drop(m)
\* A message, or nothing at all.
Tell(m) == Drop(m) /\ UNCHANGED desk

Answers(m, way) == m.msg = "validated" /\ m.way = way
AtOrigin(m) == At(m.by, {"details", "summary"}) /\ On(m.by) = m.on

HandleValidationOutput(m) ==
  /\ Answers(m, "link") /\ AtOrigin(m)
  /\ IF m.error = None THEN OpenWizard(m)
     ELSE IF m.error = "AssignedToUserIsDifferent" /\ m.task \in {"Pack", "BackroomPick"}
          THEN OpenPopup(m) ELSE Tell(m)

HandleGetshipmentDetailsAPICall(m) ==
  /\ Answers(m, "flow") /\ AtOrigin(m)
  /\ LET what == OpenPickOrPack(m.task, m.by, m.copy) IN
     IF what = "wizard" THEN OpenWizard(m)
     ELSE IF what = "popup" THEN OpenPopup(m) ELSE Tell(m)

HandleShipDetailsOutput(m) ==
  /\ Answers(m, "wizard") /\ At(m.by, {"wizard"}) /\ On(m.by) = m.on
  /\ IF m.error = None THEN Drop(m) /\ Turn(m.by, [desk[m.by] EXCEPT !.ready = TRUE])
     ELSE IF m.error = "AssignedToUserIsDifferent" /\ m.task \in {"Pack", "BackroomPick"}
          THEN OpenPopup(m) ELSE Tell(m)

-----------------------------------------------------------------------------
(* Taking over *)

\* What an answer to the popup calls.
TakeOver(d, choice) ==
  IF choice = "STARTOVER" THEN StartOver(d.task, d.copy)
  ELSE IF d.way = "wizard" THEN ContinueAndNext(d.task, d.copy) ELSE ContinueTask(d.task, d.copy)

\* abandonedCallbackHandler of each way that opens the popup.
AbandonedCallback(u, choice) ==
  /\ UserActs(u) /\ At(u, {"asking"})
  /\ LET d == desk[u]
         back == IF d.way = "wizard" THEN Wizard(d.on, d.task)
                 ELSE [PageOf("details", d.on) EXCEPT !.copy = d.copy]
         calls == TakeOver(d, choice) IN
     \/ /\ choice = "CLOSEPOPUP" /\ UNCHANGED net
        /\ Turn(u, IF d.way = "wizard" THEN Home ELSE back)
     \/ /\ choice # "CLOSEPOPUP" /\ d.way = "flow"
        /\ Turn(u, Wizard(d.on, d.task)) /\ Send(Validate(u, d.on, d.task, "wizard"))
     \/ /\ choice # "CLOSEPOPUP" /\ d.way # "flow" /\ Turn(u, back)
        /\ IF calls = {} THEN UNCHANGED net
           ELSE Send(TakeCall(u, d.on, d.task, d.way, choice, calls))
  /\ UNCHANGED <<server, list, entry, history>>

ServeTake(m) ==
  /\ m.msg = "take"
  /\ LET refused == Refused(ship[m.on], m.calls) IN
     /\ ship' = IF refused THEN ship
                ELSE [ship EXCEPT ![m.on] = Taken(@, m.by, m.calls)]
     /\ Reply(m, [msg |-> "taken", by |-> m.by, on |-> m.on, task |-> m.task, way |-> m.way,
                  calls |-> m.calls, ok |-> ~refused])
  /\ UNCHANGED <<hold, history>>

\* A pack wizard is opened because the change was called, refused or not.
OpenContainerPackWizard(m) ==
  /\ m.msg = "taken" /\ m.way = "link" /\ AtOrigin(m)
  /\ IF "change" \in m.calls \/ m.ok THEN OpenWizard(m) ELSE Tell(m)

\* The wizard goes to its first page.
CombinedAPICallOnNext(m) ==
  /\ m.msg = "taken" /\ m.way = "wizard" /\ At(m.by, {"wizard"}) /\ On(m.by) = m.on
  /\ Drop(m) /\ Turn(m.by, [desk[m.by] EXCEPT !.ready = m.ok])

\* What a step of each wizard can make of a shipment.
Worked(u, task, s) ==
  CASE task = "BackroomPick" ->
         {[s EXCEPT !.status = to, !.assigned = u] :
            to \in {"picking", IF s.method = "SHP" THEN "toPack" ELSE "picked"}}
    [] task = "Pack" ->
         {[s EXCEPT !.status = to, !.assigned = u, !.boxes = TRUE] : to \in {"packing", "packed"}}
    [] task = "UnPack" -> {[s EXCEPT !.status = "toPack", !.boxes = FALSE]}
    [] task = "CustomerPick" -> {[s EXCEPT !.status = "shipped"]}

Work(u) ==
  /\ UserActs(u) /\ At(u, {"wizard"}) /\ desk[u].ready
  /\ Valid(desk[u].task, ship[On(u)])
  /\ \E done \in Worked(u, desk[u].task, ship[On(u)]) :
       ship' = [ship EXCEPT ![On(u)] = done]
  /\ UNCHANGED <<hold, device, net, history>>

-----------------------------------------------------------------------------
(* Sorting *)

\* Enter sends a scan, and so does leaving the field.
ScanProduct(u, how) ==
  /\ UserActs(u) /\ At(u, {"scan"}) /\ Send(ScanCall(u, how))
  /\ UNCHANGED <<server, device, history>>

Lines == [s \in 1..N |-> [found |-> ship[s].status = "picked", flagged |-> ship[s].flagged,
                          assigned |-> ship[s].assigned]]

\* Another user is about to sort s: a scan of theirs was answered, or their page
\* asks for its flag.
Awaited(u, s) ==
  \E m \in net : /\ m.by # u
                 /\ \/ m.msg = "scanned" /\ s \in FirstToSort(m.lines, m.by)
                    \/ m = SortCall(m.by, s)
ServeScan(m) ==
  /\ m.msg = "scan"
  /\ Reply(m, [msg |-> "scanned", by |-> m.by, how |-> m.how, lines |-> Lines])
  /\ shared' = [s \in 1..N |->
        \/ shared[s]
        \/ /\ s \in FirstToSort(Lines, m.by)
           /\ Awaited(m.by, s) \/ (ship[s].flagged /\ ship[s].assigned = m.by)]
  /\ UNCHANGED <<server, doubled>>

\* Every answer opens a wizard, also when an earlier one has opened one; the page
\* flags its shipment when it is shown.  Without a shipment to sort the handler goes
\* home and throws.
HandleSort(m) ==
  /\ m.msg = "scanned" /\ At(m.by, {"scan", "sort"})
  /\ \/ FirstToSort(m.lines, m.by) = {} /\ Turn(m.by, Home) /\ Drop(m)
     \/ \E s \in FirstToSort(m.lines, m.by) :
          Turn(m.by, PageOf("sort", s)) /\ Reply(m, SortCall(m.by, s))

ChangeFlagForSort(m) ==
  /\ m.msg = "sort" /\ Drop(m)
  /\ ship' = [ship EXCEPT ![m.on].flagged = TRUE]
  /\ UNCHANGED <<hold, history>>

-----------------------------------------------------------------------------
(* Hold locations, slips and gift wrap *)

Shown(u, locations) == list' = [list EXCEPT ![u] = locations]

\* The locations are read when the screen opens, and its box is opened or closed.
ShowHold(u, page, s) ==
  /\ Turn(u, PageOf(page, s)) /\ Shown(u, HoldLocationList(hold[s]))
  /\ entry' = [entry EXCEPT ![u] = ~EntryDisabled(HoldLocationList(hold[s]))]

\* The sort wizard's Confirm asks for what is printed, and goes on with the answer.
MoveAhead(u) ==
  /\ UserActs(u) /\ At(u, {"sort"}) /\ Send(PrintCall(u, On(u)))
  /\ UNCHANGED <<server, device, history>>

GetPrintDetails(m) ==
  /\ m.msg = "print" /\ Reply(m, [msg |-> "printed", by |-> m.by, on |-> m.on])
  /\ UNCHANGED <<server, history>>

PrintDetails(m) ==
  /\ m.msg = "printed" /\ At(m.by, {"sort"}) /\ On(m.by) = m.on
  /\ ShowHold(m.by, "hold", m.on) /\ Drop(m)

AssignToHold(u) ==
  /\ UserActs(u) /\ At(u, {"summary"}) /\ "AssignToHold" \in RelatedTasks(u, desk[u].copy)
  /\ ShowHold(u, "locate", On(u))
  /\ UNCHANGED <<server, net, history>>

AddHoldLocation(u, name) ==
  /\ UserActs(u) /\ At(u, {"hold", "locate"}) /\ entry[u] /\ ~IsDuplicate(name, list[u])
  /\ LET places == HoldLocationUpdate(AppendLocation(list[u], name)) IN
     ValidateHoldLocation(places) /\ Send(SaveCall(u, On(u), places))
  /\ doubled' = (doubled \/ Len(name) > 1 \/ \E i \in DOMAIN list[u] : list[u][i].gone)
  /\ UNCHANGED <<server, device, shared>>

DeleteHoldLocation(u, i) ==
  /\ UserActs(u) /\ At(u, {"hold", "locate"}) /\ i \in DOMAIN list[u] /\ ~list[u][i].gone
  /\ Shown(u, [list[u] EXCEPT ![i].gone = TRUE])
  /\ entry' = [entry EXCEPT ![u] = ~EntryDisabled(list'[u])]
  /\ Send(SaveCall(u, On(u), HoldLocationUpdate(DeleteLocation(list'[u]))))
  /\ UNCHANGED <<server, desk, history>>

SaveHoldLocation(m) ==
  /\ m.msg = "save" /\ hold' = [hold EXCEPT ![m.on] = m.hold]
  /\ Reply(m, [msg |-> "saved", by |-> m.by, on |-> m.on, hold |-> m.hold])
  /\ UNCHANGED <<ship, history>>

\* The list is painted again; a box is closed, and never opened.
RepaintHoldLocationList(m) ==
  /\ m.msg = "saved" /\ At(m.by, {"hold", "locate"}) /\ On(m.by) = m.on
  /\ Shown(m.by, HoldLocationList(m.hold))
  /\ entry' = [entry EXCEPT ![m.by] = @ /\ m.hold = <<>>]
  /\ Drop(m) /\ UNCHANGED desk

\* The hold wizard's Confirm: the slip, and with it what is next.
ActionConfirm(u) ==
  /\ UserActs(u) /\ At(u, {"hold"})
  /\ Send(DropCall(u, On(u), "hold", "slip", BaseDropStatus(ship[On(u)].gifts)))
  /\ UNCHANGED <<server, device, history>>

\* The link of the details page asks for no gift line.
OpenShipmentDetails(u) == At(u, {"details"}) /\ Turn(u, PageOf("wrap", On(u)))

OpenGiftWrap(u) ==
  /\ UserActs(u)
  /\ \/ OpenShipmentDetails(u)
     \/ At(u, {"summary"}) /\ GiftButton(desk[u].copy) /\ Turn(u, PageOf("wrap", On(u)))
  /\ UNCHANGED <<server, list, entry, net, history>>

\* The gift wrap wizard's Confirm.
TestRelationship(u) ==
  /\ UserActs(u) /\ At(u, {"wrap"})
  /\ Send(DropCall(u, On(u), "wrap", "wrap", "wrapped"))
  /\ UNCHANGED <<server, device, history>>

\* Mutant of ChangeShipmentStatus: the transaction is not that of the status.
ChangeStatusAnyhow(m) ==
  /\ m.msg = "drop"
  /\ LET ok == ship[m.on].status = "toWrap" IN
     /\ ship' = IF ok THEN [ship EXCEPT ![m.on].status = m.base] ELSE ship
     /\ Reply(m, [msg |-> "dropped", by |-> m.by, on |-> m.on, page |-> m.page, ok |-> ok])
  /\ UNCHANGED <<hold, history>>
\* extn_changeShipmentStatus: the pipeline must allow the transaction.
ChangeShipmentStatus(m) ==
  /\ m.msg = "drop"
  /\ LET ok == m.tran \in Allowed(ship[m.on]) IN
     /\ ship' = IF ok THEN [ship EXCEPT ![m.on].status = m.base] ELSE ship
     /\ Reply(m, [msg |-> "dropped", by |-> m.by, on |-> m.on, page |-> m.page, ok |-> ok])
  /\ UNCHANGED <<hold, history>>

\* The services of abandonment, at any time after the slip or the wrapping.
Abandon(s) ==
  /\ \E t \in DOMAIN AbandonDrop \cap Allowed(ship[s]) :
       ship' = [ship EXCEPT ![s].status = AbandonDrop[t]]
  /\ UNCHANGED <<hold, device, net, acts, history>>

\* The next page: the scan after a sorted shipment, the summary after the others.
PrintStatusDone(m) ==
  /\ m.msg = "dropped" /\ At(m.by, {m.page}) /\ On(m.by) = m.on
  /\ \/ ~m.ok /\ Tell(m)
     \/ m.ok /\ m.page = "hold" /\ Turn(m.by, [Home EXCEPT !.page = "scan"]) /\ Drop(m)
     \/ m.ok /\ m.page # "hold" /\ Turn(m.by, Showing("summary", m.on)) /\ Drop(m)

-----------------------------------------------------------------------------
(* All *)

\* An answer to a page that was left.
Ignore(m) ==
  /\ m.msg \in {"validated", "taken", "scanned", "printed", "saved", "dropped"}
  /\ \/ m.msg = "scanned" /\ ~At(m.by, {"scan"})
     \/ m.msg # "scanned" /\ On(m.by) # m.on
     \/ m.msg = "validated" /\ m.way # "wizard" /\ ~At(m.by, {"details", "summary"})
     \/ m.msg = "validated" /\ m.way = "wizard" /\ ~At(m.by, {"wizard"})
     \/ m.msg = "taken" /\ m.way # "wizard" /\ ~At(m.by, {"details", "summary"})
     \/ m.msg = "taken" /\ m.way = "wizard" /\ ~At(m.by, {"wizard"})
     \/ m.msg = "printed" /\ ~At(m.by, {"sort"})
     \/ m.msg = "saved" /\ ~At(m.by, {"hold", "locate"})
     \/ m.msg = "dropped" /\ ~At(m.by, {m.page})
  /\ Tell(m)

SortButtons(u) == \E how \in {"enter", "blur"} : ScanProduct(u, how)
HoldButtons(u) ==
  \/ \E name \in Name : AddHoldLocation(u, name)
  \/ \E i \in DOMAIN list[u] : DeleteHoldLocation(u, i)
\* The buttons of the wizards around the pages: Confirm and Close.
WizardButtons(u) == MoveAhead(u) \/ ActionConfirm(u) \/ TestRelationship(u) \/ Leave(u)
SummaryButtons(u) == AssignToHold(u) \/ OpenGiftWrap(u)
TaskLinks(u) ==
  \E task \in Task : OnClick(u, task) \/ OpenPickOrPackFlow(u, task) \/ DefaultAction(u, task)

Act(u) ==
  \/ \E s \in 1..N : OpenDetails(u, s) \/ OpenPickDetails(u, s)
  \/ MoveToSort(u) \/ TaskLinks(u) \/ Work(u)
  \/ \E choice \in Choice : AbandonedCallback(u, choice)
  \/ SortButtons(u) \/ HoldButtons(u) \/ SummaryButtons(u) \/ WizardButtons(u)

Serve(m) ==
  /\ \/ ServeValidate(m) \/ ServeTake(m) \/ ServeScan(m) \/ ChangeFlagForSort(m)
     \/ GetPrintDetails(m) \/ SaveHoldLocation(m) \/ ChangeShipmentStatus(m)
  /\ UNCHANGED <<device, acts>>

Handle(m) ==
  /\ \/ /\ \/ HandleValidationOutput(m) \/ HandleGetshipmentDetailsAPICall(m)
           \/ HandleShipDetailsOutput(m) \/ OpenContainerPackWizard(m)
           \/ CombinedAPICallOnNext(m) \/ HandleSort(m) \/ PrintStatusDone(m) \/ Ignore(m)
        /\ UNCHANGED <<list, entry>>
     \/ PrintDetails(m) \/ RepaintHoldLocationList(m)
  /\ UNCHANGED <<server, acts, history>>

Next ==
  \/ \E u \in User : Act(u)
  \/ \E m \in net : Serve(m) \/ Handle(m)
  \/ \E s \in 1..N : Abandon(s)

\* Requests are served and answers handled; the users are free.
Fairness == \A u \in User : /\ WF_vars(\E m \in Outstanding(u) : Serve(m))
                            /\ WF_vars(\E m \in Outstanding(u) : Handle(m))

Spec == Init /\ [][Next]_vars /\ Fairness

-----------------------------------------------------------------------------
(* Properties *)

\* Every variable keeps to its set of values (locations apart).
TypeOK ==
  /\ ship \in [1..N -> Shipment]
  /\ desk \in [User -> Desk]
  /\ \A u \in User : /\ ~At(u, {"home", "scan"}) => On(u) \in 1..N
                     /\ At(u, {"details", "asking", "summary"}) => desk[u].copy # None
                     /\ At(u, {"asking", "wizard"}) => desk[u].task # None
                     /\ At(u, {"asking"}) => desk[u].way # None
  /\ \A m \in net : m \in Message \/ Carries(m)
  /\ acts \in 0..MaxActs /\ shared \in [1..N -> BOOLEAN] /\ doubled \in BOOLEAN

\* A slip sends a shipment to gift wrap if and only if one of its lines is a gift,
\* whichever screen printed it and from however old a copy (actionConfirm,
\* changePrintStatus); it is wrapped only then.
WrapMatchesLines == \A s \in 1..N : Matched(ship[s])

\* Two users are at one shipment in sorting only if the scan of the one was answered
\* before the flag of the other was set, or if the one found it flagged but assigned
\* to themselves: the flag keeps everyone else away, however late it comes and
\* whichever page the sorter has reached (handleSort, changeFlagForSort).
OneSorter ==
  \A u, v \in User :
    /\ u # v /\ At(u, {"sort", "hold"}) /\ At(v, {"sort", "hold"}) /\ On(u) = On(v)
    => shared[On(u)]

\* A shipment has one hold location, on however many devices locations are added
\* and deleted, until a name of several words is entered or one is added before
\* the answer to the deletion of another; and what is stored fits
\* (verifyIfLocationAssigned, validateHoldLocation, appendHoldLocation).
OneLocation ==
  \A s \in 1..N : /\ ValidateHoldLocation(hold[s])
                  /\ ~doubled => Len(hold[s]) <= 1

\* Taking a shipment over for packing does what the popup says: starting over
\* leaves no container, unless the first one came after the popup was asked for,
\* and continuing leaves the containers as they are (handleAssignedUserPopupResponse
\* and handleAssignedUserPopupAndNext).
TakeOverKeepsItsWord ==
  [][\A m \in net :
       m.msg = "take" /\ m \notin net' /\ m.task = "Pack" /\ ~Refused(ship[m.on], m.calls) =>
         /\ m.choice = "STARTOVER" /\ m.saw = ship[m.on].boxes => ~ship'[m.on].boxes
         /\ m.choice = "CONTINUE" => ship'[m.on].boxes = ship[m.on].boxes]_vars

\* What the places that offer tasks say agrees: a shipment of the store that is not
\* finished offers a task or the gift button to every user with the permission to
\* pick, one that is being abandoned offers nothing to anybody, and a task that is
\* offered passes the test it is opened with (showNextTask, hideOrShowRelatedTasks,
\* continueGiftWrap, handleGetshipmentDetailsAPICall and the pipelines).
TasksAgree ==
  \A s \in 1..N, u \in User :
    LET offered == ({NextTask(u, ship[s])} \cup RelatedTasks(u, ship[s])) \cap Task
        due == offered # {} \/ GiftButton(ship[s]) IN
    /\ ship[s].status \in {"abandoning", "abandoned"} => ~due
    /\ /\ ship[s].here /\ MayPick(u, ship[s])
       /\ ship[s].status \notin {"packed", "shipped", "abandoning", "abandoned"}
       => NextTask(u, ship[s]) # None \/ GiftButton(ship[s])
    /\ \A task \in offered : Valid(task, ship[s])

\* Printing a slip takes its shipment out of sorting, by this user or another.
SlipEndsSorting ==
  \A s \in 1..N : (\E m \in net : m.msg = "drop" /\ m.tran = "slip" /\ m.on = s)
                    ~> ship[s].status # "picked"
=============================================================================
