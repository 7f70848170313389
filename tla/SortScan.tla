------------------------------ MODULE SortScan ------------------------------
(***************************************************************************)
(* The sort screen of the store (extn.customScreen.sort): a shipment's     *)
(* lines are scanned, counted, marked short and finished.                  *)
(*                                                                         *)
(* The screen shows two lists of line panels, one list at a time:          *)
(* "shortItems", all lines, and "allItems", the lines still to pick.       *)
(* What the user does becomes calls to the server; calls are sent, served  *)
(* and answered, and neither order is that of the user's actions.  A panel *)
(* sends what it shows, as absolute numbers, and an answer writes into the *)
(* list that is active when it arrives.                                    *)
(*                                                                         *)
(* Once the shipment is done the screen closes or hands over to the hold   *)
(* wizard (extn.wizards.sort.HoldWizard).  What the server's mashups do is *)
(* the product's: modelled from how the screen uses their answers.         *)
(***************************************************************************)
EXTENDS Integers, Sequences

CONSTANTS
  Line,      \* the lines of the shipment
  Ordered,   \* the quantity each line was ordered with
  Openings,  \* what the lines can be when the screen is opened
  None,      \* no line, panel, text, call or answer
  MaxCalls,  \* how many calls can be outstanding
  MaxActs    \* bound: what the user does, boxes included

ASSUME LineAssumption == Ordered \in [Line -> Nat] /\ None \notin Line
ASSUME NoneAssumption == None \notin Nat
ASSUME BoundAssumption == MaxActs \in Nat /\ MaxCalls \in Nat \ {0}

VARIABLES
  order,     \* the server's record of the lines
  status,    \* the server's status of the shipment
  call,      \* what each slot's call asks and, once served, the answer
  panel,     \* the panel of each line in each list
  tab,       \* currentView, and with it activeRepeatingPanelUId
  painted,   \* isInitViewPainted
  saved,     \* backroomPickSaved
  box,       \* the message boxes and popups that are open, the top one first
  page,      \* the page of the wizard
  acts,      \* what the user has done
  \* history variables, read by no guard of the program
  listed,    \* the lists that were loaded when they were shown
  blind      \* a change was sent past another call, or from a list not loaded

server  == <<order, status>>
screen  == <<panel, tab, painted, saved, box, page>>
vars    == <<server, call, screen, acts, listed, blind>>

Tab  == {"shortItems", "allItems"}
Page == {"open", "label", "confirmed", "hold", "closed"}
Slot == 1..MaxCalls

-----------------------------------------------------------------------------
(* Records *)

Quantities(l) == 0..Ordered[l]

OrderLine == [qty : Nat, short : Nat, picked : Nat, done : BOOLEAN]
\* What is required and what is short of a line add up to what was ordered.
Whole(l, r) == r.qty + r.short = Ordered[l]

Panel == [qty : Nat, short : Nat, shown : Nat, done : BOOLEAN, typed : Nat \cup {None}]

\* A shipment is opened afresh, or after some of it was picked or found short.
ASSUME OpeningAssumption ==
  \A lines \in Openings :
    /\ lines \in [Line -> OrderLine]
    /\ \A l \in Line : /\ Whole(l, lines[l]) /\ lines[l].picked <= lines[l].qty
                       /\ lines[l].done = (lines[l].picked = lines[l].qty)

Kind == {"load", "scan", "PickAll", "PickLine", "PickAllLine", "MarkLineAsShortage",
         "MarkAllLinesShortage", "count", "next", "status", "print"}
Changing == Kind \ {"load", "count", "print"}
OfOneLine == {"PickLine", "PickAllLine", "MarkLineAsShortage"}

Code == {"ok", "error", "0", "left", "noOrder", "ShowCancelPopup", "GotoNextScreen",
         "ShowLinesNotPickedPopup", "MarkAllLinesShortage"}
Reply == [code : Code, lines : [Line -> OrderLine \cup {None}]]
Call == [kind : Kind, line : Line \cup {None}, list : Tab \cup {None}, picked : Nat,
         qty : Nat, short : Nat, plus : BOOLEAN, reply : Reply \cup {None}]
Box == [name : {"shortage"}, line : Line] \cup
       [name : {"error", "dirtyTab", "dirtyNext", "notPicked", "cancel", "pickAll"},
        line : {None}]

ASSUME RecordAssumption == None \notin OrderLine \cup Panel \cup Reply \cup Call

\* A call about the whole shipment, and one about a line.
Ask(kind) == [kind |-> kind, line |-> None, list |-> None, picked |-> 0, qty |-> 0,
              short |-> 0, plus |-> FALSE, reply |-> None]
AskLine(kind, l) == [Ask(kind) EXCEPT !.line = l]

\* An answer: its code, and the lines it carries.
Answer(code, lines) == [code |-> code, lines |-> lines]
NoLines == [l \in Line |-> None]
Only(l, lines) == [k \in Line |-> IF k = l THEN lines[k] ELSE None]

Completed(lines) == \A l \in Line : lines[l].done
Cancelled(lines) == \A l \in Line : lines[l].qty = 0

\* A panel made from a line: initializeScreen of SortLineDetails.
PanelOf(line) == [qty |-> line.qty, short |-> line.short, shown |-> line.picked,
                  done |-> line.done, typed |-> None]

\* What the quantity box of a panel shows: what was typed, else the model.
TextOf(p) == IF p.typed = None THEN p.shown ELSE p.typed

\* What the widgets of a panel say of its line (validatePickedQuantity and
\* isShipmentLineMarkedShortage): the shortage link is there while something is
\* missing, and a line that is short altogether cannot be edited.
ShortageLink(p) == IF p.short >= 1 THEN ~p.done ELSE p.shown # p.qty
Enabled(p) == ~(p.short >= 1 /\ p.qty = 0)

Dirty(t) == \E l \in Line : panel[t][l] # None /\ panel[t][l].typed # None

-----------------------------------------------------------------------------
(* Sending calls *)

Free(s) == call[s] = None

\* c is sent past an unfinished call that it should wait for, or from a list
\* that shows what the server said when the screen was opened.
Blind(c) ==
  \/ c.line # None /\ c.kind # "scan" /\ tab \notin listed
  \/ \E s \in Slot : /\ ~Free(s)
                     /\ {c.kind, call[s].kind} \cap Changing # {}
                     /\ "print" \notin {c.kind, call[s].kind}

Send(c) == \E s \in Slot : /\ Free(s) /\ \A k \in 1..(s - 1) : ~Free(k)
                           /\ call' = [call EXCEPT ![s] = c]
                           /\ blind' = (blind \/ Blind(c))

\* allItems_onShow returns the first time: the list is the one the screen was
\* opened with.  shortItems_onShow always loads.
ShowsUnloaded(t) == t = "allItems" /\ ~painted

\* What showing a list does to slot s.
LoadOf(t) == IF ShowsUnloaded(t) THEN None ELSE [Ask("load") EXCEPT !.list = t]

Show(t) == /\ tab' = t
           /\ painted' = (painted \/ t = "allItems")
           /\ listed' = IF LoadOf(t) = None THEN listed ELSE listed \cup {t}

Stay == UNCHANGED <<tab, painted, listed>>

-----------------------------------------------------------------------------
(* What the user does *)

Init ==
  /\ order \in Openings /\ status = "picking"
  /\ call = [s \in Slot |-> IF s = 1 THEN LoadOf("shortItems") ELSE None]
  /\ panel = [t \in Tab |-> [l \in Line |->
                IF t = "allItems" /\ ~order[l].done THEN PanelOf(order[l]) ELSE None]]
  /\ tab = "shortItems" /\ painted = FALSE /\ saved = FALSE
  /\ box = <<>> /\ page = "open" /\ acts = 0
  /\ listed = {"shortItems"} /\ blind = FALSE

\* A box is modal; the label that all is picked leaves the wizard's buttons.
UserActs == page \in {"open", "label"} /\ acts < MaxActs /\ acts' = acts + 1
UserEnds == UserActs /\ box = <<>>
UserWorks == UserEnds /\ page = "open"
UserEdits(l) == UserWorks /\ panel[tab][l] # None /\ Enabled(panel[tab][l])

Open(b, l) == box' = <<[name |-> b, line |-> l]>> \o box
Close == box' = Tail(box)
Top(b) == box # <<>> /\ Head(box).name = b

\* Barcode b is that of a line, or None for one of no line of the shipment.
Scan(b) ==
  /\ UserWorks /\ Send(AskLine("scan", b))
  /\ UNCHANGED <<server, screen, listed>>

ScanBlank ==
  /\ UserWorks /\ Open("error", None)
  /\ UNCHANGED <<server, call, panel, tab, painted, saved, page, listed, blind>>

\* Once everything is picked the button only says so.
PickAll ==
  /\ UserWorks /\ ~saved /\ Send(Ask("PickAll"))
  /\ UNCHANGED <<server, screen, listed>>

Enter(l, v) ==
  /\ UserEdits(l) /\ v \in Quantities(l) /\ v # TextOf(panel[tab][l])
  /\ panel' = [panel EXCEPT ![tab][l].typed = v]
  /\ UNCHANGED <<server, call, tab, painted, saved, box, page, listed, blind>>

\* Mutant of UpdateShipmentLineDetails: the flag of "pick all" stays.
UpdateKeepingSaved(c) == Send(c) /\ saved' = saved
UpdateShipmentLineDetails(c) == Send(c) /\ saved' = FALSE

\* Mutant of InRange: the lower end is not checked.
InRangeAbove(v, p) == v <= p.qty
\* ifQtyIsInRangeNew of the product, from minQty 0 to maxQty.
InRange(v, p) == v \in 0..p.qty

PickLine(l, v, plus) == [AskLine("PickLine", l) EXCEPT !.picked = v, !.plus = plus]

\* The text is changed by step (0 for Enter and the update button) and, when it
\* is in range, sent as the line's picked quantity.
ValidateAndUpdate(l, step) ==
  /\ UserEdits(l)
  /\ LET v == TextOf(panel[tab][l]) + step IN
     /\ InRange(v, panel[tab][l])
     /\ panel' = [panel EXCEPT ![tab][l].typed = IF step = 0 THEN @ ELSE v]
     /\ UpdateShipmentLineDetails(PickLine(l, v, step = 1 /\ panel[tab][l].typed = None))
  /\ UNCHANGED <<server, tab, painted, box, page, listed>>

PickAllQuantity(l) ==
  /\ UserEdits(l)
  /\ ~panel[tab][l].done /\ TextOf(panel[tab][l]) # panel[tab][l].qty
  /\ UpdateShipmentLineDetails(AskLine("PickAllLine", l))
  /\ UNCHANGED <<server, panel, tab, painted, box, page, listed>>

OpenShortageResolutionPopup(l) ==
  /\ UserEdits(l) /\ ShortageLink(panel[tab][l]) /\ Open("shortage", l)
  /\ UNCHANGED <<server, call, panel, tab, painted, saved, page, listed, blind>>

\* Mutant of ShortageChange: what was short before is forgotten.
ShortageChangeAfresh(l, p) ==
  [AskLine("MarkLineAsShortage", l) EXCEPT !.picked = p.shown, !.qty = p.shown,
                                           !.short = p.qty - p.shown]
\* The popup always answers with an inventory shortage, so the quantity is cut
\* to what the panel shows as picked.
ShortageChange(l, p) ==
  [AskLine("MarkLineAsShortage", l) EXCEPT !.picked = p.shown, !.qty = p.shown,
                                           !.short = (p.qty - p.shown) + p.short]

\* One line, or all lines that are short; the popup can also be closed.
OnShortageReasonSelection(all) ==
  /\ UserActs /\ Top("shortage") /\ Close
  /\ LET l == Head(box).line
         p == panel[tab][l] IN
     /\ p # None
     /\ UpdateShipmentLineDetails(IF all THEN Ask("MarkAllLinesShortage")
                                         ELSE ShortageChange(l, p))
  /\ UNCHANGED <<server, panel, tab, painted, page, listed>>

CloseShortagePopup ==
  /\ UserActs /\ Top("shortage") /\ Close
  /\ UNCHANGED <<server, call, panel, tab, painted, saved, page, listed, blind>>

-----------------------------------------------------------------------------
(* Lists *)

\* The list is loaded by a call of its own when it has to be.
ChangeTo(t) ==
  /\ Show(t)
  /\ IF LoadOf(t) = None THEN UNCHANGED <<call, blind>> ELSE Send(LoadOf(t))

Other(t) == IF t = "allItems" THEN "shortItems" ELSE "allItems"

BeforeHide ==
  /\ UserWorks
  /\ IF Dirty(tab) THEN /\ Open("dirtyTab", None) /\ Stay
                        /\ UNCHANGED <<call, blind>>
                   ELSE ChangeTo(Other(tab)) /\ UNCHANGED box
  /\ UNCHANGED <<server, panel, saved, page>>

ClearDirty(t) == [panel EXCEPT ![t] = [l \in Line |->
                    IF panel[t][l] = None THEN None ELSE [panel[t][l] EXCEPT !.typed = None]]]

\* The two handlers are attached crosswise: what was typed in the list that is
\* left stays, and the list that is shown forgets what was typed in it.
HandleDirtyForView(ok) ==
  /\ UserActs /\ Top("dirtyTab") /\ Close
  /\ IF ok THEN panel' = ClearDirty(Other(tab)) /\ ChangeTo(Other(tab))
           ELSE Stay /\ UNCHANGED <<call, blind, panel>>
  /\ UNCHANGED <<server, saved, page>>

\* The screen is shown again: are there lines to pick?
HandleReloadScreen ==
  /\ UserWorks /\ Send(Ask("count"))
  /\ UNCHANGED <<server, screen, listed>>

-----------------------------------------------------------------------------
(* Finishing *)

\* The wizard asks the page to save itself.
Save ==
  /\ UserEnds
  /\ IF \E t \in Tab : Dirty(t)
     THEN Open("dirtyNext", None) /\ UNCHANGED <<call, blind>>
     ELSE Send(Ask("next")) /\ UNCHANGED box
  /\ UNCHANGED <<server, panel, tab, painted, saved, page, listed>>

HandleNextDirtyConfirmation(ok) ==
  /\ UserActs /\ Top("dirtyNext") /\ Close
  /\ IF ok THEN Send(Ask("next")) ELSE UNCHANGED <<call, blind>>
  /\ UNCHANGED <<server, panel, tab, painted, saved, page, listed>>

\* isCurrentPageLastEntity: the wizard has this page only.
GotoNextScreen == page' = "confirmed"

HandleNotPickedLinesConfirmation(ok) ==
  /\ UserActs /\ Top("notPicked") /\ Close
  /\ IF ok THEN GotoNextScreen /\ Stay /\ UNCHANGED <<call, blind>>
           ELSE ChangeTo("shortItems") /\ UNCHANGED page
  /\ UNCHANGED <<server, panel, saved>>

HandleCancelOrderConfirmation ==
  /\ UserActs /\ Top("cancel") /\ Close
  /\ page' = "closed"
  /\ UNCHANGED <<server, call, panel, tab, painted, saved, listed, blind>>

HandlePickAllConfirmation(ok) ==
  /\ UserActs /\ Top("pickAll") /\ Close
  /\ IF ok THEN Send(Ask("status")) /\ Stay ELSE ChangeTo("allItems")
  /\ UNCHANGED <<server, panel, saved, page>>

CloseError ==
  /\ UserActs /\ Top("error") /\ Close
  /\ UNCHANGED <<server, call, panel, tab, painted, saved, page, listed, blind>>

\* The wizard's Confirm button: print the slip, picked or not.
MoveAhead ==
  /\ UserEnds /\ Send(Ask("print"))
  /\ UNCHANGED <<server, screen, listed>>

\* What the controls of a line's panel do.
LineEvents(l) ==
  \/ \E v \in Quantities(l) : Enter(l, v)
  \/ \E step \in {-1, 0, 1} : ValidateAndUpdate(l, step)
  \/ PickAllQuantity(l) \/ OpenShortageResolutionPopup(l)

\* What the buttons of the wizard around the page do.
WizardEvents == Save \/ MoveAhead

\* What the page itself listens to.
PageEvents ==
  \/ \E b \in Line \cup {None} : Scan(b)
  \/ ScanBlank \/ PickAll \/ BeforeHide

User ==
  \/ PageEvents \/ HandleReloadScreen
  \/ \E l \in Line : LineEvents(l)
  \/ \E all \in BOOLEAN : OnShortageReasonSelection(all)
  \/ CloseShortagePopup \/ CloseError \/ HandleCancelOrderConfirmation
  \/ WizardEvents
  \/ \E ok \in BOOLEAN : \/ HandleDirtyForView(ok)
                         \/ HandleNextDirtyConfirmation(ok)
                         \/ HandleNotPickedLinesConfirmation(ok)
                         \/ HandlePickAllConfirmation(ok)

-----------------------------------------------------------------------------
(* The server: the mashups of SortScanPickBehaviorController *)

Asked(s, kind) == ~Free(s) /\ call[s].kind = kind /\ call[s].reply = None
Respond(s, code, lines) == call' = [call EXCEPT ![s].reply = Answer(code, lines)]

Counted(l, n) == [order EXCEPT ![l].picked = n, ![l].done = (n = order[l].qty)]

\* backroomPick_updateShipmentQuantity, one line; what exceeds the line is refused.
ServeQuantity(s) ==
  /\ Asked(s, "PickLine") \/ Asked(s, "PickAllLine")
  /\ LET l == call[s].line
         n == IF call[s].kind = "PickLine" THEN call[s].picked ELSE order[l].qty IN
     IF n <= order[l].qty
     THEN order' = Counted(l, n) /\ Respond(s, "ok", Only(l, order'))
     ELSE UNCHANGED order /\ Respond(s, "error", NoLines)
  /\ UNCHANGED status

ServePickAll(s) ==
  /\ Asked(s, "PickAll")
  /\ order' = [l \in Line |-> [order[l] EXCEPT !.picked = order[l].qty, !.done = TRUE]]
  /\ Respond(s, "ok", NoLines)
  /\ UNCHANGED status

Shortened(n, lack) == [qty |-> n, short |-> lack, picked |-> n, done |-> TRUE]

ServeShortage(s) ==
  /\ Asked(s, "MarkLineAsShortage")
  /\ LET c == call[s] IN
     /\ order' = [order EXCEPT ![c.line] = Shortened(c.qty, c.short)]
     /\ Respond(s, IF Cancelled(order') THEN "ShowCancelPopup" ELSE "ok", Only(c.line, order'))
  /\ UNCHANGED status

ServeAllShortages(s) ==
  /\ Asked(s, "MarkAllLinesShortage")
  /\ order' = [l \in Line |->
                 LET o == order[l] IN
                 IF o.done THEN o ELSE Shortened(o.picked, (o.qty - o.picked) + o.short)]
  /\ Respond(s, IF Cancelled(order') THEN "ShowCancelPopup" ELSE "MarkAllLinesShortage", NoLines)
  /\ UNCHANGED status

\* backroomPickUp_registerBarcodeForBackroomPick
ServeBarcode(s) ==
  /\ Asked(s, "scan")
  /\ LET l == call[s].line IN
     IF l # None /\ order[l].picked < order[l].qty
     THEN order' = Counted(l, order[l].picked + 1) /\ Respond(s, "ok", Only(l, order'))
     ELSE UNCHANGED order /\ Respond(s, "error", NoLines)
  /\ UNCHANGED status

ServeList(s) ==
  /\ Asked(s, "load")
  /\ Respond(s, "ok", [l \in Line |-> IF call[s].list = "allItems" /\ order[l].done
                                    THEN None ELSE order[l]])
  /\ UNCHANGED server

ServeCount(s) ==
  /\ Asked(s, "count")
  /\ Respond(s, IF Completed(order) THEN "0" ELSE "left", NoLines)
  /\ UNCHANGED server

\* backroomPickUp_changeShipmentStatusOnNext
ServeNext(s) ==
  /\ Asked(s, "next")
  /\ \/ /\ Cancelled(order) /\ Respond(s, "ShowCancelPopup", NoLines)
        /\ UNCHANGED status
     \/ /\ ~Cancelled(order) /\ Completed(order)
        /\ Respond(s, "GotoNextScreen", NoLines) /\ status' = "picked"
     \/ /\ ~Completed(order) /\ Respond(s, "ShowLinesNotPickedPopup", NoLines)
        /\ UNCHANGED status
  /\ UNCHANGED order

ServeStatus(s) ==
  /\ Asked(s, "status") /\ Respond(s, "ok", NoLines)
  /\ status' = "picked" /\ UNCHANGED order

\* The slip's details may come without an order.
ServePrint(s) ==
  /\ Asked(s, "print")
  /\ \E code \in {"ok", "noOrder"} : Respond(s, code, NoLines)
  /\ UNCHANGED server

Serve(s) ==
  /\ \/ ServeQuantity(s) \/ ServePickAll(s) \/ ServeShortage(s) \/ ServeAllShortages(s)
     \/ ServeBarcode(s) \/ ServeList(s) \/ ServeCount(s) \/ ServeNext(s)
     \/ ServeStatus(s) \/ ServePrint(s)
  /\ UNCHANGED <<screen, acts, listed, blind>>

-----------------------------------------------------------------------------
(* Answers: handleMashupOutput *)

Answered(s, kinds) ==
  /\ page \in {"open", "label"}
  /\ ~Free(s) /\ call[s].kind \in kinds /\ call[s].reply # None
Done(s) == call' = [call EXCEPT ![s] = None] /\ UNCHANGED blind
CodeOf(s) == call[s].reply.code
LinesOf(s) == call[s].reply.lines

ReceiveList(s) ==
  /\ Answered(s, {"load"})
  /\ panel' = [panel EXCEPT ![call[s].list] =
                 [l \in Line |-> IF LinesOf(s)[l] = None THEN None ELSE PanelOf(LinesOf(s)[l])]]
  /\ Done(s) /\ Stay /\ UNCHANGED <<saved, box, page>>

\* customError, or the product's own box for an error it does not know.
CustomError(s) ==
  /\ Answered(s, Kind) /\ CodeOf(s) = "error" /\ Open("error", None)
  /\ Done(s) /\ Stay /\ UNCHANGED <<panel, saved, page>>

\* Mutant of UpdateProductQuantity: the panel in the list is not updated.
UpdateProductElsewhere(s) ==
  /\ Answered(s, {"scan"}) /\ CodeOf(s) = "ok"
  /\ Done(s) /\ Stay /\ UNCHANGED <<panel, saved, box, page>>
\* A scanned line replaces its panel in the list that is active now.
UpdateProductQuantity(s) ==
  /\ Answered(s, {"scan"}) /\ CodeOf(s) = "ok"
  /\ panel' = [panel EXCEPT ![tab] = [l \in Line |->
                 IF LinesOf(s)[l] = None \/ panel[tab][l] = None
                 THEN panel[tab][l] ELSE PanelOf(LinesOf(s)[l])]]
  /\ Done(s) /\ Stay /\ UNCHANGED <<saved, box, page>>

\* Mutant of Refreshed: quantity and shortage stay what the panel was made with.
RefreshedCount(p, line) ==
  [p EXCEPT !.shown = line.picked, !.done = line.done, !.typed = None]
\* Mutant of Refreshed: the shortage is added to the quantity that was there.
RefreshedShortOnly(p, line) ==
  [p EXCEPT !.short = line.short, !.shown = line.picked, !.done = line.done, !.typed = None]
\* Quantity and shortage are copied when there is a shortage.
Refreshed(p, line) ==
  [qty |-> IF line.short >= 1 THEN line.qty ELSE p.qty,
   short |-> IF line.short >= 1 THEN line.short ELSE p.short,
   shown |-> line.picked, done |-> line.done, typed |-> None]

LineKinds == {"PickLine", "PickAllLine", "MarkLineAsShortage", "MarkAllLinesShortage"}

\* Mutant of RefreshShipmentLine: the box of "pick all" after any shortage.
RefreshAskingAlways(s) ==
  /\ Answered(s, LineKinds) /\ CodeOf(s) # "error"
  /\ Open("pickAll", None) /\ UNCHANGED panel
  /\ Done(s) /\ Stay /\ UNCHANGED <<saved, page>>
RefreshShipmentLine(s) ==
  /\ Answered(s, LineKinds)
  /\ \/ CodeOf(s) = "MarkAllLinesShortage" /\ Open("pickAll", None) /\ UNCHANGED panel
     \/ CodeOf(s) = "ShowCancelPopup" /\ Open("cancel", None) /\ UNCHANGED panel
     \/ /\ CodeOf(s) = "ok"
        /\ panel' = [panel EXCEPT ![tab] = [l \in Line |->
                       IF LinesOf(s)[l] = None \/ panel[tab][l] = None
                       THEN panel[tab][l] ELSE Refreshed(panel[tab][l], LinesOf(s)[l])]]
        /\ UNCHANGED box
  /\ Done(s) /\ Stay /\ UNCHANGED <<saved, page>>

ShowConfirmMsgBoxAfterPickAll(s) ==
  /\ Answered(s, {"PickAll"}) /\ saved' = TRUE /\ Open("pickAll", None)
  /\ Done(s) /\ Stay /\ UNCHANGED <<panel, page>>

\* Nothing left to pick: a label takes the place of the lists.
ShowHideShipmentLineList(s) ==
  /\ Answered(s, {"count"})
  /\ \/ CodeOf(s) = "0" /\ page' = "label" /\ Done(s) /\ Stay
     \/ /\ CodeOf(s) # "0" /\ Show("shortItems") /\ UNCHANGED page
        /\ call' = [call EXCEPT ![s] = LoadOf("shortItems")]
        /\ blind' = (blind \/ Blind(LoadOf("shortItems")))
  /\ UNCHANGED <<panel, saved, box>>

\* Mutant of CanProceedToNextScreen: the action is compared with another name.
CanProceedMisnamed(s) ==
  /\ Answered(s, {"next"})
  /\ \/ CodeOf(s) = "GotoNextScreen" /\ GotoNextScreen /\ UNCHANGED box
     \/ CodeOf(s) = "ShowCancelPopup" /\ Open("cancel", None) /\ UNCHANGED page
     \/ CodeOf(s) = "ShowLinesNotPickedPopup" /\ UNCHANGED <<box, page>>
  /\ Done(s) /\ Stay /\ UNCHANGED <<panel, saved>>
CanProceedToNextScreen(s) ==
  /\ Answered(s, {"next"})
  /\ \/ CodeOf(s) = "GotoNextScreen" /\ GotoNextScreen /\ UNCHANGED box
     \/ CodeOf(s) = "ShowCancelPopup" /\ Open("cancel", None) /\ UNCHANGED page
     \/ CodeOf(s) = "ShowLinesNotPickedPopup" /\ Open("notPicked", None) /\ UNCHANGED page
  /\ Done(s) /\ Stay /\ UNCHANGED <<panel, saved>>

StatusSaved(s) ==
  /\ Answered(s, {"status"}) /\ GotoNextScreen
  /\ Done(s) /\ Stay /\ UNCHANGED <<panel, saved, box>>

\* Without an order the handler throws, and the page stays.
PrintDetails(s) ==
  /\ Answered(s, {"print"})
  /\ page' = IF CodeOf(s) = "ok" THEN "hold" ELSE page
  /\ Done(s) /\ Stay /\ UNCHANGED <<panel, saved, box>>

HandleMashupOutput(s) ==
  /\ \/ ReceiveList(s) \/ CustomError(s) \/ UpdateProductQuantity(s)
     \/ RefreshShipmentLine(s) \/ ShowConfirmMsgBoxAfterPickAll(s)
     \/ ShowHideShipmentLineList(s) \/ CanProceedToNextScreen(s)
     \/ StatusSaved(s) \/ PrintDetails(s)
  /\ UNCHANGED <<server, acts>>

Next == User \/ \E s \in Slot : Serve(s) \/ HandleMashupOutput(s)

\* The server answers and the browser runs the handlers; the user is free.
Fairness == \A s \in Slot : WF_vars(Serve(s)) /\ WF_vars(HandleMashupOutput(s))

Spec == Init /\ [][Next]_vars /\ Fairness

-----------------------------------------------------------------------------
(* Properties *)

\* Every variable keeps to its set of values: records of lines, panels and calls,
\* and boxes that are about a line only when they are of a line's panel.
TypeOK ==
  /\ order \in [Line -> OrderLine] /\ status \in {"picking", "picked"}
  /\ call \in [Slot -> Call \cup {None}]
  /\ \A s \in Slot : ~Free(s) /\ call[s].kind \in OfOneLine => call[s].line \in Line
  /\ panel \in [Tab -> [Line -> Panel \cup {None}]]
  /\ tab \in Tab /\ painted \in BOOLEAN /\ saved \in BOOLEAN /\ box \in Seq(Box)
  /\ page \in Page /\ acts \in 0..MaxActs
  /\ listed \subseteq Tab /\ blind \in BOOLEAN

\* No unit of a line is lost or made up, in whatever order calls and answers
\* cross: the line is whole on the server, in every panel of both lists, in every
\* answer on its way and in every shortage that is sent, and nobody ever shows or
\* records more as picked than was ordered (getShortageChangeShipmentModel,
\* refreshShipmentLineAfterQuantityUpdate).
Conserved ==
  \A l \in Line :
    /\ Whole(l, order[l]) /\ order[l].picked <= Ordered[l]
    /\ \A t \in Tab : panel[t][l] # None =>
         Whole(l, panel[t][l]) /\ panel[t][l].shown <= Ordered[l]
    /\ \A s \in Slot : ~Free(s) =>
         /\ call[s].kind = "MarkLineAsShortage" /\ call[s].line = l => Whole(l, call[s])
         /\ call[s].reply # None /\ LinesOf(s)[l] # None =>
              Whole(l, LinesOf(s)[l]) /\ LinesOf(s)[l].picked <= Ordered[l]

\* The message that all lines are picked completely (pickAll with the flag
\* backroomPickSaved) and the label of showHideShipmentLineList tell the truth,
\* unless a change was sent past another call.
AllPickedIsTrue == (saved \/ page = "label") /\ ~blind => Completed(order)

\* When nothing is under way, the panels of a list that was loaded when it was
\* shown are the server's lines: answers refresh every number they change.
PanelsAreTrue ==
  page = "open" /\ box = <<>> /\ ~blind /\ tab \in listed /\ (\A s \in Slot : Free(s)) =>
    \A l \in Line : panel[tab][l] # None =>
      [panel[tab][l] EXCEPT !.typed = None] = PanelOf(order[l])

\* A shipment gets the status that ends picking only with every line picked or
\* short, whichever way the user finishes it: "pick all", a shortage of all
\* lines, or Next.
PickedMeansComplete == status = "picked" /\ ~blind => Completed(order)

\* The + of a panel picks one more of its line (increaseQuantity), though what is
\* sent is an absolute number that was on the screen some time ago.
PlusPicksOneMore ==
  [][\A s \in Slot :
       Asked(s, "PickLine") /\ call[s].plus /\ call'[s].reply # None /\ ~blind =>
         order'[call[s].line].picked = order[call[s].line].picked + 1]_vars

\* Whoever asks to finish learns the outcome: the page is left or a box opens.
NextIsAnswered ==
  \A s \in Slot : ~Free(s) /\ call[s].kind = "next" ~> box # <<>> \/ page # "open"

\* The server's record is that of PickLedger, whatever the screen sends.
Ledger == INSTANCE PickLedger WITH Line <- Line, Ordered <- Ordered, order <- order, status <- status
LedgerSpec == Ledger!Spec
=============================================================================
