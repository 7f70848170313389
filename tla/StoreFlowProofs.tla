-------------------------- MODULE StoreFlowProofs --------------------------
(***************************************************************************)
(* For every store, its users, shipments and the order of their requests   *)
(* and answers.  The types are inductive as they stand, page by page and   *)
(* message by message; the properties need, besides, what the requests     *)
(* under way say of the shipments they are about.                          *)
(***************************************************************************)
EXTENDS StoreFlow, SequenceTheorems, DataInduction, TLAPS

DeskGood(d) ==
  /\ d \in Desk
  /\ d.page \notin {"home", "scan"} => d.on \in 1..N
  /\ d.page \in {"details", "asking", "summary"} => d.copy # None
  /\ d.page \in {"asking", "wizard"} => d.task # None
  /\ d.page = "asking" => d.way # None
DesksOK == desk \in [User -> Desk] /\ \A u \in User : DeskGood(desk[u])
ShipsOK == ship \in [1..N -> Shipment]
NetOK == \A m \in net : m \in Message \/ Carries(m)
RestOK == acts \in 0..MaxActs /\ shared \in [1..N -> BOOLEAN] /\ doubled \in BOOLEAN

LEMMA TypeIs == TypeOK <=> ShipsOK /\ DesksOK /\ NetOK /\ RestOK
BY DEF TypeOK, ShipsOK, DesksOK, NetOK, RestOK, DeskGood, Desk, At, On

-----------------------------------------------------------------------------
LEMMA TurnKeeps ==
  ASSUME DesksOK, NEW u \in User, NEW d, DeskGood(d), Turn(u, d)
  PROVE  DesksOK'
<1>1. desk' = [desk EXCEPT ![u] = d] /\ d \in Desk BY DEF Turn, DeskGood
<1>2. desk' \in [User -> Desk] BY <1>1 DEF DesksOK
<1>3. \A v \in User : DeskGood(desk'[v]) BY <1>1 DEF DesksOK
<1> QED BY <1>2, <1>3 DEF DesksOK, DeskGood

LEMMA NetKeeps ==
  ASSUME NetOK
  PROVE  /\ UNCHANGED net => NetOK'
         /\ \A m : (m \in Message \/ Carries(m)) /\ Send(m) => NetOK'
         /\ \A m, r : (r \in Message \/ Carries(r)) /\ Reply(m, r) => NetOK'
         /\ \A m : Drop(m) => NetOK'
BY DEF NetOK, Send, Reply, Drop

\* What a message of each kind holds.
LEMMA KindOf ==
  ASSUME NEW m, m \in Message \/ Carries(m)
  PROVE  /\ m.by \in User
         /\ m.msg \notin {"scan", "scanned"} => m.on \in 1..N
         /\ m.msg \in {"validate", "validated", "take", "taken"} => m.task \in Task /\ m.way \in Way
         /\ m.msg = "validated" => m.copy \in Shipment
         /\ m.msg = "take" => m.calls \in SUBSET Call /\ m.choice \in Choice
         /\ m.msg \in {"scan", "scanned"} => m.how \in {"enter", "blur"}
         /\ m.msg = "scanned" => m.lines \in [1..N -> Line]
         /\ m.msg = "taken" => m.ok \in BOOLEAN
         /\ m.msg \in {"drop", "dropped"} => m.page \in Page
         /\ m.msg = "drop" => m.base \in Status /\ m.tran \in {"slip", "wrap"}
         /\ m.msg \in {"save", "saved"} => Carries(m)
BY DEF Message, Carries

\* A page that was made with a copy, and the popup.
LEMMA CopiesAreGood ==
  ASSUME NEW s \in 1..N, NEW c \in Shipment
  PROVE  /\ \A p \in {"details", "summary"} : DeskGood([PageOf(p, s) EXCEPT !.copy = c])
         /\ \A task \in Task, way \in Way :
              DeskGood([PageOf("asking", s) EXCEPT !.copy = c, !.task = task, !.way = way])
<1>0. ASSUME NEW p \in Page PROVE PageOf(p, s) \in Desk /\ PageOf(p, s).page = p /\ PageOf(p, s).on = s
  BY <1>0 DEF PageOf, Home, Desk
<1>1. ASSUME NEW p \in {"details", "summary"} PROVE DeskGood([PageOf(p, s) EXCEPT !.copy = c])
  <2> DEFINE d == PageOf(p, s)
  <2>1. d \in Desk /\ d.page = p /\ d.on = s BY <1>0 DEF Page
  <2> SUFFICES DeskGood([d EXCEPT !.copy = c]) OBVIOUS
  <2> HIDE DEF d
  <2> QED BY <2>1, NoneAssumption DEF DeskGood, Desk
<1>2. ASSUME NEW task \in Task, NEW way \in Way
      PROVE  DeskGood([PageOf("asking", s) EXCEPT !.copy = c, !.task = task, !.way = way])
  <2> DEFINE d == PageOf("asking", s)
  <2>1. d \in Desk /\ d.page = "asking" /\ d.on = s BY <1>0 DEF Page
  <2> SUFFICES DeskGood([d EXCEPT !.copy = c, !.task = task, !.way = way]) OBVIOUS
  <2> HIDE DEF d
  <2> QED BY <2>1, NoneAssumption DEF DeskGood, Desk, Way
<1> QED BY <1>1, <1>2

\* A page about a shipment, and the pages made from it.
LEMMA PagesAreGood ==
  ASSUME ShipsOK
  PROVE  /\ DeskGood(Home) /\ DeskGood([Home EXCEPT !.page = "scan"])
         /\ \A s \in 1..N : /\ \A p \in {"sort", "hold", "locate", "wrap"} : DeskGood(PageOf(p, s))
                            /\ \A p \in {"details", "summary"} : DeskGood(Showing(p, s))
                            /\ \A task \in Task : DeskGood(Wizard(s, task))
<1> USE DEF DeskGood, Desk, Home, PageOf, Page
<1>1. DeskGood(Home) /\ DeskGood([Home EXCEPT !.page = "scan"]) OBVIOUS
<1>2. ASSUME NEW s \in 1..N, NEW p \in {"sort", "hold", "locate", "wrap"} PROVE DeskGood(PageOf(p, s))
  OBVIOUS
<1>3. ASSUME NEW s \in 1..N, NEW p \in {"details", "summary"} PROVE DeskGood(Showing(p, s))
  <2> HIDE DEF DeskGood, Desk, Home, PageOf, Page
  <2> QED BY CopiesAreGood DEF Showing, ShipsOK
<1>4. ASSUME NEW s \in 1..N, NEW task \in Task PROVE DeskGood(Wizard(s, task))
  BY NoneAssumption DEF Wizard
<1> HIDE DEF DeskGood, Desk, Home, PageOf, Page
<1> QED BY <1>1, <1>2, <1>3, <1>4

\* What the page of a user tells of its fields.
LEMMA DeskIs ==
  ASSUME DesksOK, NEW u \in User
  PROVE  /\ DeskGood(desk[u]) /\ desk[u] \in Desk
         /\ \A pages : At(u, pages) /\ pages \cap {"home", "scan"} = {} => On(u) \in 1..N
         /\ \A pages : At(u, pages) /\ pages \subseteq {"details", "asking", "summary"} =>
              desk[u].copy \in Shipment
         /\ \A pages : At(u, pages) /\ pages \subseteq {"asking", "wizard"} => desk[u].task \in Task
         /\ At(u, {"asking"}) => desk[u].way \in Way
<1>1. DeskGood(desk[u]) /\ desk[u] \in Desk BY DEF DesksOK, DeskGood
<1> QED BY <1>1 DEF DeskGood, Desk, At, On

\* What the requests of the screens hold.
LEMMA AsksAreGood ==
  ASSUME NEW u \in User, NEW s \in 1..N
  PROVE  /\ \A task \in Task, way \in Way : Validate(u, s, task, way) \in Message
         /\ \A task \in Task, way \in Way, choice \in Choice, calls \in SUBSET Call :
              desk[u].copy \in Shipment => TakeCall(u, s, task, way, choice, calls) \in Message
         /\ \A how \in {"enter", "blur"} : ScanCall(u, how) \in Message
         /\ SortCall(u, s) \in Message /\ PrintCall(u, s) \in Message
         /\ \A places : Carries(SaveCall(u, s, places))
         /\ \A page \in Page, tran \in {"slip", "wrap"}, base \in Status :
              DropCall(u, s, page, tran, base) \in Message
<1>1. ASSUME NEW task \in Task, NEW way \in Way PROVE Validate(u, s, task, way) \in Message
  BY DEF Validate, Message
<1>2. ASSUME NEW task \in Task, NEW way \in Way, NEW choice \in Choice, NEW calls \in SUBSET Call,
             desk[u].copy \in Shipment
      PROVE  TakeCall(u, s, task, way, choice, calls) \in Message
  <2>1. desk[u].copy.boxes \in BOOLEAN BY <1>2 DEF Shipment
  <2> QED BY <2>1 DEF TakeCall, Message
<1>3. ASSUME NEW how \in {"enter", "blur"} PROVE ScanCall(u, how) \in Message
  BY DEF ScanCall, Message
<1>4. SortCall(u, s) \in Message /\ PrintCall(u, s) \in Message BY DEF SortCall, PrintCall, Message
<1>5. ASSUME NEW places PROVE Carries(SaveCall(u, s, places)) BY DEF SaveCall, Carries
<1>6. ASSUME NEW page \in Page, NEW tran \in {"slip", "wrap"}, NEW base \in Status
      PROVE  DropCall(u, s, page, tran, base) \in Message
  BY DEF DropCall, Message
<1> QED BY <1>1, <1>2, <1>3, <1>4, <1>5, <1>6

\* The statuses that slips give, and the tasks that are offered.
LEMMA Computed ==
  /\ \A gifts : BaseDropStatus(gifts) \in {"toWrap", "slip"}
  /\ \A u : Offered(u) \subseteq Task
  /\ \A d, choice : TakeOver(d, choice) \in SUBSET Call
<1>1. \A gifts : BaseDropStatus(gifts) \in {"toWrap", "slip"} BY DEF BaseDropStatus
<1>2. ASSUME NEW u PROVE Offered(u) \subseteq Task
  <2>1. \A copy : NextTask(u, copy) \in Task \cup {None} BY DEF NextTask, Task
  <2> QED BY <2>1 DEF Offered
<1>3. ASSUME NEW d, NEW choice PROVE TakeOver(d, choice) \in SUBSET Call
  BY DEF TakeOver, StartOver, ContinueTask, ContinueAndNext, Only, Call
<1> QED BY <1>1, <1>2, <1>3

-----------------------------------------------------------------------------
\* What a step leaves alone keeps its type.
LEMMA Frame ==
  ASSUME TypeOK
  PROVE  /\ UNCHANGED ship => ShipsOK'
         /\ UNCHANGED desk => DesksOK'
         /\ UNCHANGED net => NetOK'
         /\ UNCHANGED <<acts, shared, doubled>> => RestOK'
BY TypeIs DEF ShipsOK, DesksOK, NetOK, RestOK, DeskGood, Carries

LEMMA ActsCount == ASSUME TypeOK, NEW u, UserActs(u) PROVE acts' \in 0..MaxActs
BY BoundAssumption DEF TypeOK, UserActs

LEMMA FrameOfUser ==
  ASSUME TypeOK, NEW u \in User, UserActs(u), UNCHANGED ship, UNCHANGED history, DesksOK', NetOK'
  PROVE  TypeOK'
<1>1. ShipsOK' BY Frame
<1>2. RestOK' BY ActsCount DEF TypeOK, RestOK, history
<1> QED BY <1>1, <1>2, TypeIs, PTL

LEMMA OpenKeeps ==
  ASSUME TypeOK, NEW u \in User, NEW s \in 1..N, OpenDetails(u, s) \/ OpenPickDetails(u, s)
  PROVE  TypeOK'
<1>1. DesksOK'
  <2>1. DeskGood(Showing("details", s)) /\ DeskGood(Showing("summary", s)) BY TypeIs, PagesAreGood
  <2>2. Turn(u, Showing("details", s)) \/ Turn(u, Showing("summary", s))
    BY DEF OpenDetails, SST_search, OpenPickDetails
  <2> QED BY <2>1, <2>2, TurnKeeps, TypeIs
<1>2. NetOK'
  <2>1. CASE UNCHANGED net BY <2>1, Frame
  <2>2. CASE PrintButtonCheck(u, s)
    <3> DEFINE m == DropCall(u, s, "summary", "slip", BaseDropStatus(ship[s].gifts))
    <3>1. m \in Message
      <4>1. BaseDropStatus(ship[s].gifts) \in Status BY Computed DEF Status
      <4> QED BY <4>1, AsksAreGood DEF Page
    <3>2. net' = net \cup {m} \/ net' = net BY <2>2 DEF PrintButtonCheck
    <3> HIDE DEF m
    <3> QED BY <3>1, <3>2, TypeIs DEF NetOK, Carries
  <2> QED BY <2>1, <2>2 DEF OpenDetails, SST_search, OpenPickDetails
<1> QED BY <1>1, <1>2, FrameOfUser DEF OpenDetails, SST_search, OpenPickDetails, server

LEMMA GoKeeps ==
  ASSUME TypeOK, NEW u \in User,
         MoveToSort(u) \/ Leave(u) \/ AssignToHold(u) \/ OpenGiftWrap(u)
  PROVE  TypeOK'
<1>1. DesksOK'
  <2>1. CASE MoveToSort(u)
    BY <2>1, TypeIs, PagesAreGood, TurnKeeps DEF MoveToSort
  <2>2. CASE Leave(u)
    BY <2>2, TypeIs, PagesAreGood, TurnKeeps DEF Leave
  <2>3. CASE AssignToHold(u) \/ OpenGiftWrap(u)
    <3>1. On(u) \in 1..N BY <2>3, TypeIs, DeskIs DEF AssignToHold, OpenGiftWrap, OpenShipmentDetails
    <3>2. \A p \in {"locate", "wrap"} : DeskGood(PageOf(p, On(u))) BY <3>1, TypeIs, PagesAreGood
    <3>3. \E p \in {"locate", "wrap"} : Turn(u, PageOf(p, On(u)))
      BY <2>3 DEF AssignToHold, OpenGiftWrap, OpenShipmentDetails, ShowHold
    <3> QED BY <3>2, <3>3, TurnKeeps, TypeIs
  <2> QED BY <2>1, <2>2, <2>3
<1>2. NetOK' BY Frame DEF MoveToSort, Leave, AssignToHold, OpenGiftWrap, OpenShipmentDetails
<1> QED BY <1>1, <1>2, FrameOfUser DEF MoveToSort, Leave, AssignToHold, OpenGiftWrap, OpenShipmentDetails, server

LEMMA LinksKeep ==
  ASSUME TypeOK, NEW u \in User, TaskLinks(u)
  PROVE  TypeOK'
<1>1. PICK task \in Task : OnClick(u, task) \/ OpenPickOrPackFlow(u, task) \/ DefaultAction(u, task)
  BY DEF TaskLinks
<1>2. On(u) \in 1..N
  <2>1. task \in Offered(u) BY <1>1 DEF OnClick, OpenPickOrPackFlow, DefaultAction
  <2>2. At(u, {"details"}) \/ At(u, {"summary"}) BY <2>1 DEF Offered
  <2> QED BY <2>2, TypeIs, DeskIs
<1>3. DesksOK'
  <2>1. CASE OnClick(u, task) \/ OpenPickOrPackFlow(u, task)
    BY <2>1, Frame DEF OnClick, OpenPickOrPackFlow, device
  <2>2. CASE DefaultAction(u, task)
    BY <2>2, <1>2, TypeIs, PagesAreGood, TurnKeeps DEF DefaultAction
  <2> QED BY <1>1, <2>1, <2>2
<1>4. NetOK'
  <2>1. \A way \in Way : Validate(u, On(u), task, way) \in Message BY <1>2, AsksAreGood
  <2>2. \E way \in Way : Send(Validate(u, On(u), task, way))
    BY <1>1 DEF OnClick, OpenPickOrPackFlow, DefaultAction, Way
  <2> QED BY <2>1, <2>2, NetKeeps, TypeIs
<1> QED BY <1>1, <1>3, <1>4, FrameOfUser DEF OnClick, OpenPickOrPackFlow, DefaultAction, server

LEMMA CallbackKeeps ==
  ASSUME TypeOK, NEW u \in User, NEW choice \in Choice, AbandonedCallback(u, choice)
  PROVE  TypeOK'
<1> DEFINE d == desk[u]
           back == IF d.way = "wizard" THEN Wizard(d.on, d.task)
                   ELSE [PageOf("details", d.on) EXCEPT !.copy = d.copy]
           calls == TakeOver(d, choice)
<1>1. /\ d.on \in 1..N /\ d.copy \in Shipment /\ d.task \in Task /\ d.way \in Way
  BY TypeIs, DeskIs DEF AbandonedCallback, At, On
<1>2. DeskGood(back) /\ DeskGood(Home) /\ DeskGood(Wizard(d.on, d.task))
  <2>1. DeskGood(Home) /\ DeskGood(Wizard(d.on, d.task)) BY <1>1, TypeIs, PagesAreGood
  <2>2. DeskGood([PageOf("details", d.on) EXCEPT !.copy = d.copy])
    BY <1>1, CopiesAreGood
  <2> QED BY <2>1, <2>2
<1>3. DesksOK'
  <2>1. Turn(u, back) \/ Turn(u, Home) \/ Turn(u, Wizard(d.on, d.task)) BY DEF AbandonedCallback
  <2> HIDE DEF d, back, calls
  <2> QED BY <1>2, <2>1, TurnKeeps, TypeIs
<1>4. NetOK'
  <2>1. /\ Validate(u, d.on, d.task, "wizard") \in Message
        /\ TakeCall(u, d.on, d.task, d.way, choice, calls) \in Message
    BY <1>1, AsksAreGood, Computed DEF Way
  <2>2. \/ UNCHANGED net \/ Send(Validate(u, d.on, d.task, "wizard"))
        \/ Send(TakeCall(u, d.on, d.task, d.way, choice, calls))
    BY DEF AbandonedCallback
  <2> HIDE DEF d, back, calls
  <2> QED BY <2>1, <2>2, NetKeeps, TypeIs
<1> QED BY <1>3, <1>4, FrameOfUser DEF AbandonedCallback, server

LEMMA WorkKeeps == ASSUME TypeOK, NEW u \in User, Work(u) PROVE TypeOK'
<1>1. On(u) \in 1..N /\ desk[u].task \in Task BY TypeIs, DeskIs DEF Work
<1>2. ship[On(u)] \in Shipment BY <1>1, TypeIs DEF ShipsOK
<1>3. ASSUME NEW s \in Shipment, NEW task \in Task PROVE Worked(u, task, s) \subseteq Shipment
  <2> SUFFICES ASSUME NEW done \in Worked(u, task, s) PROVE done \in Shipment OBVIOUS
  <2>1. CASE task = "BackroomPick"
    <3>1. PICK to \in Status : done = [s EXCEPT !.status = to, !.assigned = u]
      BY <2>1 DEF Worked, Status
    <3> QED BY <3>1 DEF Shipment
  <2>2. CASE task = "Pack"
    <3>1. PICK to \in Status : done = [s EXCEPT !.status = to, !.assigned = u, !.boxes = TRUE]
      BY <2>2 DEF Worked, Status
    <3> QED BY <3>1 DEF Shipment
  <2>3. CASE task = "UnPack"
    <3>1. done = [s EXCEPT !.status = "toPack", !.boxes = FALSE] BY <2>3 DEF Worked
    <3> QED BY <3>1 DEF Shipment, Status
  <2>4. CASE task = "CustomerPick"
    <3>1. done = [s EXCEPT !.status = "shipped"] BY <2>4 DEF Worked
    <3> QED BY <3>1 DEF Shipment, Status
  <2> QED BY <2>1, <2>2, <2>3, <2>4 DEF Task
<1>4. ShipsOK' BY <1>1, <1>2, <1>3, TypeIs DEF Work, ShipsOK
<1>5. DesksOK' /\ NetOK' /\ RestOK'
  BY Frame, ActsCount DEF Work, device, history, TypeOK, RestOK
<1> QED BY <1>4, <1>5, TypeIs, PTL

LEMMA PlacesKeep ==
  ASSUME TypeOK, NEW u \in User,
         \/ \E how \in {"enter", "blur"} : ScanProduct(u, how)
         \/ MoveAhead(u) \/ HoldButtons(u) \/ ActionConfirm(u) \/ TestRelationship(u)
  PROVE  TypeOK'
<1>1. CASE \E how \in {"enter", "blur"} : ScanProduct(u, how)
  <2>1. PICK how \in {"enter", "blur"} : ScanProduct(u, how) BY <1>1
  <2>2. ScanCall(u, how) \in Message BY DEF ScanCall, Message
  <2>3. NetOK' BY <2>1, <2>2, NetKeeps, TypeIs DEF ScanProduct
  <2> QED BY <2>1, <2>3, Frame, FrameOfUser DEF ScanProduct, server, device
<1>2. CASE \E name \in Name : AddHoldLocation(u, name)
  <2>1. PICK name \in Name : AddHoldLocation(u, name) BY <1>2
  <2>2. On(u) \in 1..N BY <2>1, TypeIs, DeskIs DEF AddHoldLocation
  <2>3. PICK places : Send(SaveCall(u, On(u), places)) BY <2>1 DEF AddHoldLocation
  <2>4. Carries(SaveCall(u, On(u), places)) BY <2>2, AsksAreGood
  <2>5. NetOK' BY <2>3, <2>4, NetKeeps, TypeIs
  <2>6. ShipsOK' /\ DesksOK' BY <2>1, Frame DEF AddHoldLocation, server, device
  <2>7. doubled' \in BOOLEAN /\ UNCHANGED shared BY <2>1, TypeIs DEF AddHoldLocation, RestOK
  <2>8. RestOK' BY <2>1, <2>7, ActsCount, TypeIs DEF AddHoldLocation, RestOK
  <2> QED BY <2>5, <2>6, <2>8, TypeIs, PTL
<1>3. CASE \E i \in DOMAIN list[u] : DeleteHoldLocation(u, i)
  <2>1. PICK i \in DOMAIN list[u] : DeleteHoldLocation(u, i) BY <1>3
  <2>2. On(u) \in 1..N BY <2>1, TypeIs, DeskIs DEF DeleteHoldLocation
  <2>3. PICK places : Send(SaveCall(u, On(u), places)) BY <2>1 DEF DeleteHoldLocation
  <2>4. Carries(SaveCall(u, On(u), places)) BY <2>2, AsksAreGood
  <2>5. NetOK' BY <2>3, <2>4, NetKeeps, TypeIs
  <2> QED BY <2>1, <2>5, Frame, FrameOfUser DEF DeleteHoldLocation, server
<1>4. CASE ActionConfirm(u) \/ TestRelationship(u)
  <2>1. On(u) \in 1..N BY <1>4, TypeIs, DeskIs DEF ActionConfirm, TestRelationship
  <2>2. PICK page \in Page, tran \in {"slip", "wrap"}, base \in Status :
          Send(DropCall(u, On(u), page, tran, base))
    <3>1. BaseDropStatus(ship[On(u)].gifts) \in Status BY Computed DEF Status
    <3>2. {"hold", "wrap"} \subseteq Page /\ "wrapped" \in Status BY DEF Page, Status
    <3> QED BY <1>4, <3>1, <3>2 DEF ActionConfirm, TestRelationship
  <2>3. DropCall(u, On(u), page, tran, base) \in Message BY <2>1, AsksAreGood
  <2>4. NetOK' BY <2>2, <2>3, NetKeeps, TypeIs
  <2> QED BY <1>4, <2>4, Frame, FrameOfUser DEF ActionConfirm, TestRelationship, server, device
<1>5. CASE MoveAhead(u)
  <2>1. On(u) \in 1..N BY <1>5, TypeIs, DeskIs DEF MoveAhead
  <2>2. NetOK' BY <1>5, <2>1, AsksAreGood, NetKeeps, TypeIs DEF MoveAhead
  <2> QED BY <1>5, <2>2, Frame, FrameOfUser DEF MoveAhead, server, device
<1> QED BY <1>1, <1>2, <1>3, <1>4, <1>5 DEF HoldButtons

\* Every action of a user.
LEMMA ActKeeps == ASSUME TypeOK, NEW u \in User, Act(u) PROVE TypeOK'
BY OpenKeeps, GoKeeps, LinksKeep, CallbackKeeps, WorkKeeps, PlacesKeep
   DEF Act, SortButtons, WizardButtons, SummaryButtons

-----------------------------------------------------------------------------
\* What a shipment becomes.
LEMMA TakenIs ==
  ASSUME NEW s \in Shipment, NEW u \in User, NEW calls
  PROVE  Taken(s, u, calls) \in Shipment
<1>1. PICK to \in Status, held \in BOOLEAN :
        Taken(s, u, calls) = [s EXCEPT !.assigned = u, !.boxes = held, !.status = to]
  BY DEF Taken, Shipment, Status
<1> QED BY <1>1 DEF Shipment

\* Every request that the server answers.
LEMMA ServeKeeps == ASSUME TypeOK, NEW m \in net, Serve(m) PROVE TypeOK'
<1>0. (m \in Message \/ Carries(m)) /\ DesksOK' /\ acts' = acts
  BY Frame DEF Serve, device, TypeOK
<1>1. CASE ServeValidate(m)
  <2>1. m.by \in User /\ m.on \in 1..N /\ m.task \in Task /\ m.way \in Way
    BY <1>0, <1>1, KindOf DEF ServeValidate
  <2>2. PICK e \in Error :
          Reply(m, [msg |-> "validated", by |-> m.by, on |-> m.on, task |-> m.task,
                    way |-> m.way, error |-> e, copy |-> ship[m.on]])
    BY <1>1 DEF ServeValidate, Errors, Error
  <2>3. ship[m.on] \in Shipment BY <2>1, TypeIs DEF ShipsOK
  <2>4. [msg |-> "validated", by |-> m.by, on |-> m.on, task |-> m.task,
         way |-> m.way, error |-> e, copy |-> ship[m.on]] \in Message
    BY <2>1, <2>3 DEF Message
  <2>5. NetOK' BY <2>2, <2>4, NetKeeps, TypeIs
  <2>6. ShipsOK' /\ RestOK' BY <1>0, <1>1, Frame DEF ServeValidate, server, history
  <2> QED BY <1>0, <2>5, <2>6, TypeIs, PTL
<1>2. CASE ServeTake(m)
  <2>1. m.by \in User /\ m.on \in 1..N /\ m.task \in Task /\ m.way \in Way /\ m.calls \in SUBSET Call
    BY <1>0, <1>2, KindOf DEF ServeTake
  <2>2. PICK ok \in BOOLEAN :
          Reply(m, [msg |-> "taken", by |-> m.by, on |-> m.on, task |-> m.task, way |-> m.way,
                    calls |-> m.calls, ok |-> ok])
    BY <1>2 DEF ServeTake
  <2>3. [msg |-> "taken", by |-> m.by, on |-> m.on, task |-> m.task, way |-> m.way,
         calls |-> m.calls, ok |-> ok] \in Message
    BY <2>1 DEF Message
  <2>4. NetOK' BY <2>2, <2>3, NetKeeps, TypeIs
  <2>5. ShipsOK'
    <3>1. Taken(ship[m.on], m.by, m.calls) \in Shipment BY <2>1, TypeIs, TakenIs DEF ShipsOK
    <3> QED BY <1>2, <2>1, <3>1, TypeIs DEF ServeTake, ShipsOK
  <2>6. RestOK' BY <1>0, <1>2, Frame DEF ServeTake, history
  <2> QED BY <1>0, <2>4, <2>5, <2>6, TypeIs, PTL
<1>3. CASE ServeScan(m)
  <2>1. m.by \in User /\ m.how \in {"enter", "blur"} BY <1>0, <1>3, KindOf DEF ServeScan
  <2>2. Lines \in [1..N -> Line] BY TypeIs DEF Lines, Line, ShipsOK, Shipment
  <2>3. [msg |-> "scanned", by |-> m.by, how |-> m.how, lines |-> Lines] \in Message
    BY <2>1, <2>2 DEF Message
  <2>4. NetOK' BY <1>3, <2>3, NetKeeps, TypeIs DEF ServeScan
  <2>5. shared' \in [1..N -> BOOLEAN] BY <1>3, TypeIs DEF ServeScan, RestOK
  <2>6. RestOK' BY <1>0, <1>3, <2>5, TypeIs DEF ServeScan, RestOK
  <2>7. ShipsOK' BY <1>3, Frame DEF ServeScan, server
  <2> QED BY <1>0, <2>4, <2>6, <2>7, TypeIs, PTL
<1>4. CASE ChangeFlagForSort(m)
  <2>1. m.on \in 1..N BY <1>0, <1>4, KindOf DEF ChangeFlagForSort
  <2>2. ShipsOK' BY <1>4, <2>1, TypeIs DEF ChangeFlagForSort, ShipsOK, Shipment
  <2>3. NetOK' BY <1>4, NetKeeps, TypeIs DEF ChangeFlagForSort
  <2>4. RestOK' BY <1>0, <1>4, Frame DEF ChangeFlagForSort, history
  <2> QED BY <1>0, <2>2, <2>3, <2>4, TypeIs, PTL
<1>5. CASE SaveHoldLocation(m)
  <2>1. Carries(m) BY <1>0, <1>5, KindOf DEF SaveHoldLocation
  <2>2. Carries([msg |-> "saved", by |-> m.by, on |-> m.on, hold |-> m.hold])
    BY <2>1 DEF Carries
  <2>3. NetOK' BY <1>5, <2>2, NetKeeps, TypeIs DEF SaveHoldLocation
  <2>4. ShipsOK' /\ RestOK' BY <1>0, <1>5, Frame DEF SaveHoldLocation, history
  <2> QED BY <1>0, <2>3, <2>4, TypeIs, PTL
<1>6. CASE ChangeShipmentStatus(m)
  <2>1. m.by \in User /\ m.on \in 1..N /\ m.page \in Page /\ m.base \in Status
    BY <1>0, <1>6, KindOf DEF ChangeShipmentStatus
  <2>2. PICK ok \in BOOLEAN :
          Reply(m, [msg |-> "dropped", by |-> m.by, on |-> m.on, page |-> m.page, ok |-> ok])
    <3> DEFINE may == m.tran \in Allowed(ship[m.on])
    <3>1. Reply(m, [msg |-> "dropped", by |-> m.by, on |-> m.on, page |-> m.page, ok |-> may])
      BY <1>6 DEF ChangeShipmentStatus
    <3>2. may \in BOOLEAN OBVIOUS
    <3> HIDE DEF may
    <3> QED BY <3>1, <3>2
  <2>3. [msg |-> "dropped", by |-> m.by, on |-> m.on, page |-> m.page, ok |-> ok] \in Message
    BY <2>1 DEF Message
  <2>4. NetOK' BY <2>2, <2>3, NetKeeps, TypeIs
  <2>5. ShipsOK' BY <1>6, <2>1, TypeIs DEF ChangeShipmentStatus, ShipsOK, Shipment
  <2>6. RestOK' BY <1>0, <1>6, Frame DEF ChangeShipmentStatus, history
  <2> QED BY <1>0, <2>4, <2>5, <2>6, TypeIs, PTL
<1>7. CASE GetPrintDetails(m)
  <2>1. m.by \in User /\ m.on \in 1..N BY <1>0, <1>7, KindOf DEF GetPrintDetails
  <2>2. [msg |-> "printed", by |-> m.by, on |-> m.on] \in Message BY <2>1 DEF Message
  <2>3. NetOK' BY <1>7, <2>2, NetKeeps, TypeIs DEF GetPrintDetails
  <2>4. ShipsOK' /\ RestOK' BY <1>0, <1>7, Frame DEF GetPrintDetails, server, history
  <2> QED BY <1>0, <2>3, <2>4, TypeIs, PTL
<1> QED BY <1>1, <1>2, <1>3, <1>4, <1>5, <1>6, <1>7 DEF Serve

-----------------------------------------------------------------------------
\* A wizard, a popup or a message: what an answer about a task makes of its page.
LEMMA AnswersKeep ==
  ASSUME TypeOK, NEW m \in net, m.msg \in {"validated", "taken"},
         \/ OpenWizard(m)
         \/ m.msg = "validated" /\ OpenPopup(m)
         \/ Tell(m)
         \/ Drop(m) /\ \E ready \in BOOLEAN : Turn(m.by, [desk[m.by] EXCEPT !.ready = ready])
  PROVE  DesksOK' /\ NetOK'
<1>1. m.by \in User /\ m.on \in 1..N /\ m.task \in Task /\ m.way \in Way
      /\ (m.msg = "validated" => m.copy \in Shipment)
  BY KindOf, TypeIs DEF NetOK
<1>2. CASE OpenWizard(m)
  <2>1. Validate(m.by, m.on, m.task, "wizard") \in Message BY <1>1, AsksAreGood DEF Way
  <2>2. DeskGood(Wizard(m.on, m.task)) BY <1>1, PagesAreGood, TypeIs
  <2>3. NetOK' BY <1>2, <2>1, NetKeeps, TypeIs DEF OpenWizard
  <2>4. DesksOK' BY <1>1, <1>2, <2>2, TurnKeeps, TypeIs DEF OpenWizard
  <2> QED BY <2>3, <2>4
<1>3. CASE m.msg = "validated" /\ OpenPopup(m)
  <2>1. DeskGood([PageOf("asking", m.on) EXCEPT !.copy = m.copy, !.task = m.task, !.way = m.way])
    BY <1>1, <1>3, CopiesAreGood
  <2>2. DesksOK' BY <1>1, <1>3, <2>1, TurnKeeps, TypeIs DEF OpenPopup
  <2>3. NetOK' BY <1>3, NetKeeps, TypeIs DEF OpenPopup
  <2> QED BY <2>2, <2>3
<1>4. CASE Tell(m)
  BY <1>4, Frame, NetKeeps, TypeIs DEF Tell
<1>5. CASE Drop(m) /\ \E ready \in BOOLEAN : Turn(m.by, [desk[m.by] EXCEPT !.ready = ready])
  <2>1. PICK ready \in BOOLEAN : Turn(m.by, [desk[m.by] EXCEPT !.ready = ready]) BY <1>5
  <2>2. DeskGood(desk[m.by]) BY <1>1, TypeIs, DeskIs
  <2>3. DeskGood([desk[m.by] EXCEPT !.ready = ready]) BY <2>2 DEF DeskGood, Desk
  <2>4. DesksOK' BY <1>1, <2>1, <2>3, TurnKeeps, TypeIs
  <2>5. NetOK' BY <1>5, NetKeeps, TypeIs
  <2> QED BY <2>4, <2>5
<1> QED BY <1>2, <1>3, <1>4, <1>5

\* Every answer that a device handles.
LEMMA HandleKeeps == ASSUME TypeOK, NEW m \in net, Handle(m) PROVE TypeOK'
<1>1. m \in Message \/ Carries(m) BY DEF TypeOK
<1>2. ShipsOK' /\ RestOK' BY Frame, TypeIs DEF Handle, server, history, RestOK
<1>3. CASE \/ HandleValidationOutput(m) \/ HandleGetshipmentDetailsAPICall(m)
           \/ HandleShipDetailsOutput(m) \/ OpenContainerPackWizard(m)
  <2>1. m.msg \in {"validated", "taken"}
    BY <1>3 DEF HandleValidationOutput, HandleGetshipmentDetailsAPICall, HandleShipDetailsOutput,
                OpenContainerPackWizard, Answers
  <2>2. \/ OpenWizard(m)
        \/ m.msg = "validated" /\ OpenPopup(m)
        \/ Tell(m)
        \/ Drop(m) /\ \E ready \in BOOLEAN : Turn(m.by, [desk[m.by] EXCEPT !.ready = ready])
    BY <1>3 DEF HandleValidationOutput, HandleGetshipmentDetailsAPICall, HandleShipDetailsOutput,
                OpenContainerPackWizard, Answers
  <2>3. DesksOK' /\ NetOK' BY <2>1, <2>2, AnswersKeep
  <2> QED BY <1>2, <2>3, TypeIs, PTL
<1>4. CASE CombinedAPICallOnNext(m)
  <2>1. m.msg = "taken" /\ m.ok \in BOOLEAN BY <1>1, <1>4, KindOf DEF CombinedAPICallOnNext
  <2>2. Drop(m) /\ \E ready \in BOOLEAN : Turn(m.by, [desk[m.by] EXCEPT !.ready = ready])
    BY <1>4, <2>1 DEF CombinedAPICallOnNext
  <2>3. DesksOK' /\ NetOK' BY <2>1, <2>2, AnswersKeep
  <2> QED BY <1>2, <2>3, TypeIs, PTL
<1>5. CASE HandleSort(m)
  <2>1. m.by \in User /\ m.lines \in [1..N -> Line] BY <1>1, <1>5, KindOf DEF HandleSort
  <2>2. CASE Turn(m.by, Home) /\ Drop(m)
    <3>1. DesksOK' /\ NetOK' BY <2>1, <2>2, TurnKeeps, NetKeeps, PagesAreGood, TypeIs
    <3> QED BY <1>2, <3>1, TypeIs, PTL
  <2>3. CASE \E s \in FirstToSort(m.lines, m.by) :
               Turn(m.by, PageOf("sort", s)) /\ Reply(m, SortCall(m.by, s))
    <3>1. PICK s \in FirstToSort(m.lines, m.by) :
            Turn(m.by, PageOf("sort", s)) /\ Reply(m, SortCall(m.by, s))
      BY <2>3
    <3>2. s \in 1..N BY <2>1 DEF FirstToSort, ToSort
    <3>3. DesksOK' BY <2>1, <3>1, <3>2, TurnKeeps, PagesAreGood, TypeIs
    <3>4. NetOK' BY <2>1, <3>1, <3>2, AsksAreGood, NetKeeps, TypeIs
    <3> QED BY <1>2, <3>3, <3>4, TypeIs, PTL
  <2> QED BY <1>5, <2>2, <2>3 DEF HandleSort
<1>6. CASE PrintStatusDone(m)
  <2>1. m.by \in User /\ m.on \in 1..N BY <1>1, <1>6, KindOf DEF PrintStatusDone
  <2>2. DesksOK'
    <3>1. UNCHANGED desk \/ \E d : DeskGood(d) /\ Turn(m.by, d)
      BY <1>6, <2>1, PagesAreGood, TypeIs DEF PrintStatusDone, Tell
    <3> QED BY <2>1, <3>1, TurnKeeps, Frame, TypeIs
  <2>3. NetOK' BY <1>6, NetKeeps, TypeIs DEF PrintStatusDone, Tell
  <2> QED BY <1>2, <2>2, <2>3, TypeIs, PTL
<1>7. CASE Ignore(m) \/ RepaintHoldLocationList(m)
  <2>1. UNCHANGED desk /\ Drop(m) BY <1>7 DEF Ignore, RepaintHoldLocationList, Tell
  <2>2. DesksOK' /\ NetOK' BY <2>1, Frame, NetKeeps, TypeIs
  <2> QED BY <1>2, <2>2, TypeIs, PTL
<1>8. CASE PrintDetails(m)
  <2>1. m.by \in User /\ m.on \in 1..N BY <1>1, <1>8, KindOf DEF PrintDetails
  <2>2. DesksOK' BY <1>8, <2>1, PagesAreGood, TurnKeeps, TypeIs DEF PrintDetails, ShowHold
  <2>3. NetOK' BY <1>8, NetKeeps, TypeIs DEF PrintDetails
  <2> QED BY <1>2, <2>2, <2>3, TypeIs, PTL
<1> QED BY <1>3, <1>4, <1>5, <1>6, <1>7, <1>8 DEF Handle

LEMMA AbandonKeeps == ASSUME TypeOK, NEW s \in 1..N, Abandon(s) PROVE TypeOK'
<1>1. PICK t \in {"startAbandon", "abandon"} : ship' = [ship EXCEPT ![s].status = AbandonDrop[t]]
  BY DEF Abandon, AbandonDrop
<1>2. AbandonDrop[t] \in Status BY DEF AbandonDrop, Status
<1>3. ShipsOK' BY <1>1, <1>2, TypeIs DEF ShipsOK, Shipment
<1>4. DesksOK' /\ NetOK' /\ RestOK' BY Frame DEF Abandon, device, history
<1> QED BY <1>3, <1>4, TypeIs, PTL

LEMMA InitTypes == Init => TypeOK
<1> SUFFICES ASSUME Init PROVE TypeOK OBVIOUS
<1>1. ship \in [1..N -> Shipment] /\ acts \in 0..MaxActs BY OpeningAssumption DEF Init
<1>2. DeskGood(Home) BY DEF DeskGood, Home, Desk, Page
<1>3. DesksOK BY <1>2 DEF Init, DesksOK, DeskGood
<1>4. NetOK BY DEF Init, NetOK
<1>5. RestOK BY <1>1 DEF Init, RestOK
<1> QED BY <1>1, <1>3, <1>4, <1>5, TypeIs DEF ShipsOK

LEMMA StepTypes == TypeOK /\ [Next]_vars => TypeOK'
<1>1. ASSUME TypeOK, UNCHANGED vars PROVE TypeOK'
  <2>1. UNCHANGED <<ship, desk, net, acts, shared, doubled>>
    BY <1>1 DEF vars, server, device, history
  <2>2. ShipsOK' /\ DesksOK' /\ NetOK' /\ RestOK' BY <1>1, <2>1, Frame
  <2> QED BY <2>2, TypeIs, PTL
<1>2. ASSUME TypeOK, Next PROVE TypeOK'
  <2>1. CASE \E u \in User : Act(u) BY <1>2, <2>1, ActKeeps
  <2>2. CASE \E m \in net : Serve(m) \/ Handle(m) BY <1>2, <2>2, ServeKeeps, HandleKeeps
  <2>3. CASE \E s \in 1..N : Abandon(s) BY <1>2, <2>3, AbandonKeeps
  <2> QED BY <1>2, <2>1, <2>2, <2>3 DEF Next
<1> QED BY <1>1, <1>2

\* Types: every variable, page and message of every user keeps to its set.
THEOREM TypesHold == Spec => []TypeOK
BY InitTypes, StepTypes, PTL DEF Spec

-----------------------------------------------------------------------------
(* What requests and answers under way say of their shipments *)

\* A slip's status is that of the lines; unpacking is called to start over with
\* containers and never to continue.
FitsDrop(m) == IF m.tran = "slip" THEN m.base = BaseDropStatus(ship[m.on].gifts)
               ELSE m.base = "wrapped"
FitsTake(m) == /\ m.choice = "STARTOVER" /\ m.saw => "unpack" \in m.calls
               /\ m.choice = "CONTINUE" => "unpack" \notin m.calls

DropsFit == \A m \in net : m.msg = "drop" => FitsDrop(m)
TakesFit == \A m \in net : m.msg = "take" /\ m.task = "Pack" => FitsTake(m)

\* The requests that a user's action adds.
LEMMA Asked ==
  ASSUME TypeOK, NEW u \in User, Act(u), NEW m \in net', m \notin net
  PROVE  /\ m.msg = "drop" => FitsDrop(m)
         /\ m.msg = "take" /\ m.task = "Pack" => FitsTake(m)
         /\ m.msg \notin {"scanned", "sort"}
<1>1. CASE \E s \in 1..N : OpenDetails(u, s) \/ OpenPickDetails(u, s)
  BY <1>1 DEF OpenDetails, SST_search, OpenPickDetails, PrintButtonCheck, DropCall, FitsDrop
<1>2. CASE MoveToSort(u) \/ Leave(u) \/ Work(u) \/ SummaryButtons(u) \/ MoveAhead(u)
  BY <1>2 DEF MoveToSort, Leave, Work, SummaryButtons, AssignToHold, OpenGiftWrap, OpenShipmentDetails, MoveAhead, Send,
              PrintCall
<1>3. CASE TaskLinks(u)
  BY <1>3 DEF TaskLinks, OnClick, OpenPickOrPackFlow, DefaultAction, Send, Validate
<1>4. CASE \E choice \in Choice : AbandonedCallback(u, choice)
  <2>1. PICK choice \in Choice : AbandonedCallback(u, choice) BY <1>4
  <2> DEFINE d == desk[u]
  <2>2. m.msg = "validate" \/ m = TakeCall(u, d.on, d.task, d.way, choice, TakeOver(d, choice))
    BY <2>1 DEF AbandonedCallback, Send, Validate
  <2>3. CASE m = TakeCall(u, d.on, d.task, d.way, choice, TakeOver(d, choice))
    <3>1. /\ m.msg = "take" /\ m.task = d.task /\ m.choice = choice
          /\ m.calls = TakeOver(d, choice) /\ m.saw = d.copy.boxes
      BY <2>3 DEF TakeCall
    <3>2. d.task = "Pack" /\ choice = "STARTOVER" /\ d.copy.boxes => "unpack" \in TakeOver(d, choice)
      BY DEF TakeOver, StartOver, Only
    <3>3. d.task = "Pack" /\ choice = "CONTINUE" => "unpack" \notin TakeOver(d, choice)
      BY DEF TakeOver, ContinueTask, ContinueAndNext, Only
    <3> HIDE DEF d
    <3> QED BY <3>1, <3>2, <3>3 DEF FitsTake
  <2> QED BY <2>2, <2>3
<1>5. CASE \E how \in {"enter", "blur"} : ScanProduct(u, how)
  BY <1>5 DEF ScanProduct, Send, ScanCall
<1>6. CASE HoldButtons(u) \/ ActionConfirm(u) \/ TestRelationship(u)
  <2>1. CASE ActionConfirm(u) \/ TestRelationship(u)
    BY <2>1 DEF ActionConfirm, TestRelationship, Send, DropCall, FitsDrop
  <2>2. CASE \E name \in Name : AddHoldLocation(u, name)
    BY <2>2 DEF AddHoldLocation, Send, SaveCall
  <2>3. CASE \E i \in DOMAIN list[u] : DeleteHoldLocation(u, i)
    BY <2>3 DEF DeleteHoldLocation, Send, SaveCall
  <2> QED BY <1>6, <2>1, <2>2, <2>3 DEF HoldButtons
<1> QED BY <1>1, <1>2, <1>3, <1>4, <1>5, <1>6 DEF Act, SortButtons, WizardButtons

\* The requests and answers that the server and the devices add.
LEMMA Answered ==
  ASSUME TypeOK, NEW n \in net, Serve(n) \/ Handle(n), NEW m \in net', m \notin net
  PROVE  /\ m.msg \notin {"drop", "take"}
         /\ m.msg = "scanned" => ServeScan(n) /\ m.by = n.by /\ m.lines = Lines
         /\ m.msg = "sort" => n.msg = "scanned" /\ \E s \in FirstToSort(n.lines, n.by) :
                                                     m = SortCall(n.by, s)
<1>1. CASE Serve(n)
  BY <1>1 DEF Serve, ServeValidate, ServeTake, ServeScan, ChangeFlagForSort, GetPrintDetails,
              SaveHoldLocation, ChangeShipmentStatus, Reply, Drop
<1>2. CASE Handle(n)
  <2>1. \/ Drop(n)
        \/ n.msg = "scanned" /\ \E s \in FirstToSort(n.lines, n.by) : Reply(n, SortCall(n.by, s))
        \/ Reply(n, Validate(n.by, n.on, n.task, "wizard"))
    BY <1>2 DEF Handle, HandleValidationOutput, HandleGetshipmentDetailsAPICall,
                HandleShipDetailsOutput, OpenContainerPackWizard, CombinedAPICallOnNext, HandleSort,
                PrintStatusDone, Ignore, PrintDetails, RepaintHoldLocationList, OpenWizard,
                OpenPopup, Tell
  <2> QED BY <2>1 DEF Drop, Reply, SortCall, Validate
<1> QED BY <1>1, <1>2

\* What is under way stays so until it is served or handled.
LEMMA UnderWay ==
  /\ \A u \in User : Act(u) => net \subseteq net'
  /\ \A n \in net : Serve(n) \/ Handle(n) => net \ {n} \subseteq net'
<1>1. ASSUME NEW u \in User, Act(u) PROVE net \subseteq net'
  BY <1>1 DEF Act, OpenDetails, SST_search, OpenPickDetails, PrintButtonCheck, MoveToSort, Leave, TaskLinks,
     OnClick, OpenPickOrPackFlow, DefaultAction, Work, AbandonedCallback, SortButtons, WizardButtons, ScanProduct,
     MoveAhead, HoldButtons, AddHoldLocation, DeleteHoldLocation, ActionConfirm, SummaryButtons,
     AssignToHold, OpenGiftWrap, OpenShipmentDetails, TestRelationship, Send
<1>2. ASSUME NEW n \in net, Serve(n) PROVE net \ {n} \subseteq net'
  BY <1>2 DEF Serve, ServeValidate, ServeTake, ServeScan, ChangeFlagForSort, GetPrintDetails,
              SaveHoldLocation, ChangeShipmentStatus, Reply, Drop
<1>3. ASSUME NEW n \in net, Handle(n) PROVE net \ {n} \subseteq net'
  BY <1>3 DEF Handle, HandleValidationOutput, HandleGetshipmentDetailsAPICall,
              HandleShipDetailsOutput, OpenContainerPackWizard, CombinedAPICallOnNext, HandleSort,
              PrintStatusDone, Ignore, PrintDetails, RepaintHoldLocationList, OpenWizard, OpenPopup, Tell,
              Drop, Reply
<1> QED BY <1>1, <1>2, <1>3

-----------------------------------------------------------------------------
(* What a step makes of a shipment *)

\* It stays, it goes on with its work or is abandoned, or its slip or wrapping is
\* recorded; and its flag stays.
Remains(s, t) == t.method = s.method /\ t.gifts = s.gifts /\ (s.flagged => t.flagged)
Stays(s, t) == Remains(s, t) /\ t.status = s.status
WorksOn(s, t) ==
  /\ Remains(s, t)
  /\ t.status \in Course(s) \ {"slip", "toWrap", "wrapped"}

LEMMA WorkedIs ==
  ASSUME NEW u \in User, NEW task \in Task, NEW s \in Shipment, Valid(task, s),
         NEW t \in Worked(u, task, s)
  PROVE  WorksOn(s, t)
<1> USE DEF Valid, Allowed, Pickup, Course, WorksOn, Remains
<1>0. s.method \in {"SHP", "PICK"} BY DEF Shipment
<1>1. CASE task = "BackroomPick"
  <2>1. PICK to \in {"picking", IF s.method = "SHP" THEN "toPack" ELSE "picked"} :
          t = [s EXCEPT !.status = to, !.assigned = u]
    BY <1>1 DEF Worked
  <2> QED BY <1>0, <2>1 DEF Shipment
<1>2. CASE task = "Pack"
  <2>1. PICK to \in {"packing", "packed"} :
          t = [s EXCEPT !.status = to, !.assigned = u, !.boxes = TRUE]
    BY <1>2 DEF Worked
  <2>2. s.method = "SHP" BY <1>0, <1>2 DEF StorePickup
  <2> QED BY <2>1, <2>2 DEF Shipment
<1>3. CASE task = "UnPack"
  <2>1. t = [s EXCEPT !.status = "toPack", !.boxes = FALSE] BY <1>3 DEF Worked
  <2>2. s.method = "SHP" BY <1>0, <1>3 DEF StorePickup
  <2> QED BY <2>1, <2>2 DEF Shipment
<1>4. CASE task = "CustomerPick"
  <2>1. t = [s EXCEPT !.status = "shipped"] BY <1>4 DEF Worked
  <2> QED BY <1>0, <2>1 DEF Shipment
<1> QED BY <1>1, <1>2, <1>3, <1>4 DEF Task

LEMMA TakenOver ==
  ASSUME NEW u \in User, NEW s \in Shipment, NEW calls, ~Refused(s, calls), s.status \in Course(s)
  PROVE  Stays(s, Taken(s, u, calls)) \/ WorksOn(s, Taken(s, u, calls))
<1>0. s.method \in {"SHP", "PICK"} BY DEF Shipment
<1>1. PICK held \in BOOLEAN :
        Taken(s, u, calls) =
          [s EXCEPT !.assigned = u, !.boxes = held,
                    !.status = IF "status" \in calls THEN "packing"
                               ELSE IF "change" \in calls THEN s.status ELSE "picking"]
  BY DEF Taken, Shipment
<1>2. "status" \in calls => s.method = "SHP" BY <1>0 DEF Refused, Course
<1> QED BY <1>0, <1>1, <1>2 DEF Stays, Remains, WorksOn, Course, Shipment

\* Every step, for every shipment.
LEMMA Becomes ==
  ASSUME TypeOK, DropsFit, Next, NEW s \in 1..N, ship[s].status \in Course(ship[s])
  PROVE  \/ Stays(ship[s], ship'[s]) \/ WorksOn(ship[s], ship'[s])
         \/ /\ Remains(ship[s], ship'[s])
            /\ ship[s].method = "PICK"
            /\ \/ ship'[s].status = BaseDropStatus(ship[s].gifts)
               \/ ship[s].status = "toWrap" /\ ship'[s].status = "wrapped"
<1>0. ship[s] \in Shipment BY DEF TypeOK
<1>1. CASE \E u \in User : Act(u)
  <2>1. PICK u \in User : Act(u) BY <1>1
  <2>2. CASE Work(u)
    <3>1. On(u) \in 1..N /\ desk[u].task \in Task BY <2>2, TypeIs, DeskIs DEF Work
    <3>2. PICK done \in Worked(u, desk[u].task, ship[On(u)]) :
            Valid(desk[u].task, ship[On(u)]) /\ ship' = [ship EXCEPT ![On(u)] = done]
      BY <2>2 DEF Work
    <3>3. ship[On(u)] \in Shipment BY <3>1 DEF TypeOK
    <3>4. WorksOn(ship[On(u)], done) BY <3>1, <3>2, <3>3, WorkedIs
    <3>5. ship'[s] = IF s = On(u) THEN done ELSE ship[s] BY <3>2 DEF TypeOK
    <3> QED BY <3>4, <3>5 DEF Stays, Remains
  <2>3. UNCHANGED ship \/ Work(u)
    BY <2>1 DEF Act, OpenDetails, SST_search, OpenPickDetails, MoveToSort, Leave, TaskLinks, OnClick,
       OpenPickOrPackFlow, DefaultAction, AbandonedCallback, SortButtons, WizardButtons, ScanProduct, MoveAhead,
       HoldButtons, AddHoldLocation, DeleteHoldLocation, ActionConfirm, SummaryButtons,
       AssignToHold, OpenGiftWrap, OpenShipmentDetails, TestRelationship, server
  <2> QED BY <2>2, <2>3 DEF Stays, Remains
<1>2. ASSUME NEW m \in net, Handle(m) PROVE Stays(ship[s], ship'[s])
  BY <1>2 DEF Handle, server, Stays, Remains
<1>3. ASSUME NEW m \in net, Serve(m)
      PROVE  \/ Stays(ship[s], ship'[s]) \/ WorksOn(ship[s], ship'[s])
             \/ /\ Remains(ship[s], ship'[s])
                /\ ship[s].method = "PICK"
                /\ \/ ship'[s].status = BaseDropStatus(ship[s].gifts)
                   \/ ship[s].status = "toWrap" /\ ship'[s].status = "wrapped"
  <2>0. m \in Message \/ Carries(m) BY DEF TypeOK
  <2>1. CASE ServeValidate(m) \/ ServeScan(m) \/ GetPrintDetails(m) \/ SaveHoldLocation(m)
    BY <2>1 DEF ServeValidate, ServeScan, GetPrintDetails, SaveHoldLocation, server, Stays, Remains
  <2>2. CASE ServeTake(m)
    <3>1. m.by \in User BY <2>0, KindOf
    <3>2. CASE ship'[s] = ship[s] BY <3>2 DEF Stays, Remains
    <3>3. CASE ship'[s] # ship[s]
      <4>1. ~Refused(ship[s], m.calls) /\ ship'[s] = Taken(ship[s], m.by, m.calls)
        BY <2>2, <3>3 DEF ServeTake, TypeOK
      <4> QED BY <1>0, <3>1, <4>1, TakenOver
    <3> QED BY <3>2, <3>3
  <2>3. CASE ChangeFlagForSort(m)
    <3>1. ship'[s] = ship[s] \/ ship'[s] = [ship[s] EXCEPT !.flagged = TRUE]
      BY <2>3 DEF ChangeFlagForSort, TypeOK
    <3> QED BY <1>0, <3>1 DEF Stays, Remains, Shipment
  <2>4. CASE ChangeShipmentStatus(m)
    <3>1. FitsDrop(m) /\ m.tran \in {"slip", "wrap"}
      BY <2>0, <2>4, KindOf DEF ChangeShipmentStatus, DropsFit
    <3>2. CASE ship'[s] = ship[s] BY <3>2 DEF Stays, Remains
    <3>3. CASE ship'[s] # ship[s]
      <4>1. /\ s = m.on /\ m.tran \in Allowed(ship[s])
            /\ ship'[s] = [ship[s] EXCEPT !.status = m.base]
        BY <2>4, <3>3 DEF ChangeShipmentStatus, TypeOK
      <4>2. ship[s].method = "PICK" /\ (m.tran = "wrap" => ship[s].status = "toWrap")
        BY <1>0, <3>1, <4>1 DEF Allowed, Pickup, ShippingPickup, StorePickup, Shipment
      <4> QED BY <1>0, <3>1, <4>1, <4>2 DEF FitsDrop, Remains, Shipment
    <3> QED BY <3>2, <3>3
  <2> QED BY <1>3, <2>1, <2>2, <2>3, <2>4 DEF Serve
<1>4. ASSUME NEW r \in 1..N, Abandon(r)
      PROVE  Stays(ship[s], ship'[s]) \/ WorksOn(ship[s], ship'[s])
  <2>1. PICK t \in {"startAbandon", "abandon"} : t \in Allowed(ship[r])
                   /\ ship' = [ship EXCEPT ![r].status = AbandonDrop[t]]
    BY <1>4 DEF Abandon, AbandonDrop
  <2>2. CASE ship'[s] = ship[s] BY <2>2 DEF Stays, Remains
  <2>3. CASE ship'[s] # ship[s]
    <3>1. s = r /\ ship'[s] = [ship[s] EXCEPT !.status = AbandonDrop[t]] BY <2>1, <2>3 DEF TypeOK
    <3>2. ship[s].method = "PICK"
      BY <1>0, <2>1, <3>1 DEF Allowed, Pickup, ShippingPickup, Shipment
    <3> QED BY <1>0, <3>1, <3>2 DEF WorksOn, Remains, Course, AbandonDrop, Shipment
  <2> QED BY <2>2, <2>3
<1> QED BY <1>1, <1>2, <1>3, <1>4 DEF Next

-----------------------------------------------------------------------------
(* Slips, gift wrap and the tasks on offer *)

SensibleOK == \A s \in 1..N : Sensible(ship[s])
IInv == TypeOK /\ SensibleOK /\ DropsFit

\* The gifts of a shipment and its method never change, and its flag is never reset.
LEMMA SensibleStep ==
  IInv /\ Next => SensibleOK' /\ \A s \in 1..N : Remains(ship[s], ship'[s])
<1> SUFFICES ASSUME IInv, Next, NEW s \in 1..N
             PROVE  Sensible(ship'[s]) /\ Remains(ship[s], ship'[s])
  BY DEF SensibleOK
<1>1. Sensible(ship[s]) BY DEF IInv, SensibleOK
<1>2. CASE Stays(ship[s], ship'[s])
  BY <1>1, <1>2 DEF Stays, Remains, Sensible, Course, Matched
<1>3. CASE WorksOn(ship[s], ship'[s])
  BY <1>3 DEF WorksOn, Remains, Sensible, Course, Matched
<1>4. CASE /\ Remains(ship[s], ship'[s])
           /\ ship[s].method = "PICK"
           /\ \/ ship'[s].status = BaseDropStatus(ship[s].gifts)
              \/ ship[s].status = "toWrap" /\ ship'[s].status = "wrapped"
  BY <1>1, <1>4 DEF Remains, Sensible, Course, Matched, BaseDropStatus
<1> QED BY <1>1, <1>2, <1>3, <1>4, Becomes DEF IInv, Sensible

LEMMA DropsStep == IInv /\ Next => DropsFit'
<1> SUFFICES ASSUME IInv, Next, NEW m \in net', m.msg = "drop" PROVE FitsDrop(m)'
  BY DEF DropsFit
<1>1. FitsDrop(m)
  <2>1. CASE m \in net BY <2>1 DEF IInv, DropsFit
  <2>2. CASE m \notin net
    <3>1. CASE \E u \in User : Act(u) BY <2>2, <3>1, Asked DEF IInv
    <3>2. CASE \E n \in net : Serve(n) \/ Handle(n) BY <2>2, <3>2, Answered DEF IInv
    <3> QED BY <2>2, <3>1, <3>2 DEF Next, Abandon
  <2> QED BY <2>1, <2>2
<1>2. m.on \in 1..N
  <2>1. TypeOK' BY StepTypes DEF IInv
  <2>2. m \in Message \/ Carries(m) BY <2>1 DEF TypeOK, Carries
  <2> QED BY <2>2, KindOf
<1>3. ship'[m.on].gifts = ship[m.on].gifts BY <1>2, SensibleStep DEF Remains
<1> QED BY <1>1, <1>3 DEF FitsDrop, BaseDropStatus

LEMMA IInvStep == IInv /\ [Next]_vars => IInv'
<1>1. ASSUME IInv, UNCHANGED vars PROVE IInv'
  <2>1. TypeOK' BY <1>1, StepTypes DEF IInv
  <2>2. SensibleOK' /\ DropsFit'
    BY <1>1 DEF IInv, vars, server, SensibleOK, DropsFit, FitsDrop
  <2> QED BY <2>1, <2>2 DEF IInv
<1>2. ASSUME IInv, Next PROVE IInv'
  <2>1. TypeOK' BY <1>2, StepTypes DEF IInv
  <2> QED BY <1>2, <2>1, SensibleStep, DropsStep DEF IInv
<1> QED BY <1>1, <1>2

LEMMA InitIInv == Init => IInv
BY InitTypes, OpeningAssumption DEF Init, IInv, SensibleOK, DropsFit

\* Slips: a shipment is sent to gift wrap if and only if one of its lines is a
\* gift, from however old a page its slip was printed.
THEOREM WrapHolds == Spec => []WrapMatchesLines
<1>1. IInv => WrapMatchesLines BY DEF IInv, SensibleOK, Sensible, WrapMatchesLines
<1> QED BY <1>1, InitIInv, IInvStep, PTL DEF Spec

\* Tasks: of every shipment that the pipelines can make, what is offered passes
\* the test it is opened with; something is offered to those who may pick until it
\* is finished or being abandoned, and nothing to anybody from then on.
LEMMA TasksOf ==
  ASSUME NEW u \in User, NEW s \in Shipment, s.status \in Course(s)
  PROVE  /\ s.status \in {"abandoning", "abandoned"} =>
              ({NextTask(u, s)} \cup RelatedTasks(u, s)) \cap Task = {} /\ ~GiftButton(s)
         /\ /\ s.here /\ MayPick(u, s)
            /\ s.status \notin {"packed", "shipped", "abandoning", "abandoned"}
            => NextTask(u, s) # None \/ GiftButton(s)
         /\ \A task \in ({NextTask(u, s)} \cup RelatedTasks(u, s)) \cap Task : Valid(task, s)
<1>0. s.method \in {"SHP", "PICK"} /\ s.here \in BOOLEAN /\ None \notin Task
  BY NoneAssumption DEF Shipment
<1>1. CASE s.method = "SHP"
  <2>1. Pickup(s) = ShippingPickup BY <1>1 DEF Pickup
  <2>2. \A t : t \in Allowed(s) <=> t \in DOMAIN ShippingPickup /\ s.status \in ShippingPickup[t]
    BY <2>1 DEF Allowed
  <2>3. s.status \in {"toPick", "picking", "toPack", "packing", "packed", "shipped"}
    BY <1>1 DEF Course
  <2>4. \A t \in RelatedTasks(u, s) : t \in DOMAIN ShippingTasks /\ s.status \in ShippingTasks[t]
    BY <1>1 DEF RelatedTasks
  <2>5. s.here /\ MayPick(u, s) /\ s.status \notin {"packed", "shipped"} => NextTask(u, s) # None
    BY <1>0, <2>2, <2>3 DEF NextTask, ShippingPickup, Task
  <2>6. NextTask(u, s) \in Task => Valid(NextTask(u, s), s)
    BY <1>0, <1>1, <2>2, <2>3 DEF NextTask, ShippingPickup, Task, Valid
  <2>7. \A t \in RelatedTasks(u, s) \cap Task : Valid(t, s)
    BY <2>2, <2>3, <2>4 DEF ShippingTasks, ShippingPickup, Task, Valid
  <2> QED BY <2>3, <2>5, <2>6, <2>7
<1>2. CASE s.method = "PICK"
  <2>1. Pickup(s) = StorePickup BY <1>2 DEF Pickup
  <2>2. \A t : t \in Allowed(s) <=> t \in DOMAIN StorePickup /\ s.status \in StorePickup[t]
    BY <2>1 DEF Allowed
  <2>3. s.status \in {"toPick", "picking", "picked", "toWrap", "slip", "wrapped", "shipped",
                      "abandoning", "abandoned"}
    BY <1>2 DEF Course
  <2>4. \A t \in RelatedTasks(u, s) : t \in DOMAIN StoreTasks /\ s.status \in StoreTasks[t]
    BY <1>2 DEF RelatedTasks
  <2>5. /\ s.here /\ MayPick(u, s) /\ s.status \notin {"shipped", "abandoning", "abandoned"}
        => NextTask(u, s) # None \/ GiftButton(s)
    BY <1>0, <1>2, <2>2, <2>3 DEF NextTask, StorePickup, Task, GiftButton
  <2>6. NextTask(u, s) \in Task => Valid(NextTask(u, s), s)
    BY <1>0, <1>2, <2>2, <2>3 DEF NextTask, StorePickup, Task, Valid
  <2>7. \A t \in RelatedTasks(u, s) \cap Task : Valid(t, s)
    BY <2>2, <2>3, <2>4 DEF StoreTasks, StorePickup, Task, Valid
  <2>8. ASSUME s.status \in {"abandoning", "abandoned"}
        PROVE  ({NextTask(u, s)} \cup RelatedTasks(u, s)) \cap Task = {} /\ ~GiftButton(s)
    <3>1. NextTask(u, s) = None BY <1>2, <2>2, <2>8 DEF NextTask, StorePickup
    <3>2. RelatedTasks(u, s) \cap Task = {} BY <2>4, <2>8 DEF StoreTasks, Task
    <3> QED BY <1>0, <2>8, <3>1, <3>2 DEF GiftButton
  <2> QED BY <2>5, <2>6, <2>7, <2>8
<1> QED BY <1>0, <1>1, <1>2

\* Tasks, of every shipment at every time, for every user.
THEOREM TasksAgreeHolds == Spec => []TasksAgree
<1>1. ASSUME IInv PROVE TasksAgree
  <2>1. \A s \in 1..N : ship[s] \in Shipment /\ ship[s].status \in Course(ship[s])
    BY <1>1 DEF IInv, TypeOK, SensibleOK, Sensible
  <2> QED BY <2>1, TasksOf DEF TasksAgree
<1> QED BY <1>1, InitIInv, IInvStep, PTL DEF Spec

-----------------------------------------------------------------------------
(* The pages where a shipment is sorted *)

\* The pages by their names.
LEMMA HomeNames == Home.page = "home" /\ [Home EXCEPT !.page = "scan"].page = "scan"
BY DEF Home

LEMMA PageNames ==
  ASSUME ShipsOK, NEW s \in 1..N
  PROVE  /\ \A p \in Page : PageOf(p, s).page = p /\ PageOf(p, s).on = s /\ Showing(p, s).page = p
         /\ \A task \in Task : Wizard(s, task).page = "wizard"
         /\ \A c \in Shipment : [PageOf("details", s) EXCEPT !.copy = c].page = "details"
         /\ \A c \in Shipment, task \in Task, way \in Way :
              [PageOf("asking", s) EXCEPT !.copy = c, !.task = task, !.way = way].page = "asking"
<1>1. ASSUME NEW p \in Page
      PROVE  PageOf(p, s) \in Desk /\ PageOf(p, s).page = p /\ PageOf(p, s).on = s
  BY <1>1 DEF PageOf, Home, Desk
<1>2. \A d \in Desk : \A c : [d EXCEPT !.copy = c].page = d.page BY DEF Desk
<1>3. \A d \in Desk : \A task : [d EXCEPT !.task = task].page = d.page BY DEF Desk
<1>4. \A d \in Desk : \A c, task, way :
        [d EXCEPT !.copy = c, !.task = task, !.way = way].page = d.page BY DEF Desk
<1>5. {"details", "asking", "wizard"} \subseteq Page BY DEF Page
<1>6. ASSUME NEW p \in Page PROVE Showing(p, s).page = p
  BY <1>1, <1>2 DEF Showing
<1>7. ASSUME NEW task \in Task PROVE Wizard(s, task).page = "wizard"
  BY <1>1, <1>3, <1>5 DEF Wizard
<1>8. ASSUME NEW c \in Shipment PROVE [PageOf("details", s) EXCEPT !.copy = c].page = "details"
  BY <1>1, <1>2, <1>5
<1>9. ASSUME NEW c \in Shipment, NEW task \in Task, NEW way \in Way
      PROVE  [PageOf("asking", s) EXCEPT !.copy = c, !.task = task, !.way = way].page = "asking"
  BY <1>1, <1>4, <1>5
<1> QED BY <1>1, <1>6, <1>7, <1>8, <1>9

\* The pages where a shipment is sorted: only an answer to a scan leads there.
Sorting == {"sort", "hold"}
LEMMA TurnTo ==
  ASSUME TypeOK, NEW v \in User, NEW d, Turn(v, d)
  PROVE  \A u \in User : desk'[u] = IF u = v THEN d ELSE desk[u]
BY DEF Turn, TypeOK

\* A page that is not about sorting is turned to.
Elsewhere(v) == \E d : d.page \notin Sorting /\ Turn(v, d)
LEMMA ElsewhereIs ==
  ASSUME NEW v
  PROVE  /\ Turn(v, Home) \/ Turn(v, [Home EXCEPT !.page = "scan"]) => Elsewhere(v)
         /\ ShipsOK => \A s \in 1..N :
              /\ \A p \in Page \ Sorting : Turn(v, PageOf(p, s)) => Elsewhere(v)
              /\ \A p \in Page \ Sorting : Turn(v, Showing(p, s)) => Elsewhere(v)
              /\ \A task \in Task : Turn(v, Wizard(s, task)) => Elsewhere(v)
              /\ \A c \in Shipment :
                   Turn(v, [PageOf("details", s) EXCEPT !.copy = c]) => Elsewhere(v)
              /\ \A c \in Shipment, task \in Task, way \in Way :
                   Turn(v, [PageOf("asking", s) EXCEPT !.copy = c, !.task = task, !.way = way])
                     => Elsewhere(v)
<1>1. ASSUME NEW d, d.page \notin Sorting, Turn(v, d) PROVE Elsewhere(v)
  BY <1>1 DEF Elsewhere
<1>2. ASSUME Turn(v, Home) \/ Turn(v, [Home EXCEPT !.page = "scan"]) PROVE Elsewhere(v)
  BY <1>1, <1>2, HomeNames DEF Sorting
<1>3. ASSUME ShipsOK, NEW s \in 1..N
      PROVE  /\ \A p \in Page \ Sorting : Turn(v, PageOf(p, s)) => Elsewhere(v)
             /\ \A p \in Page \ Sorting : Turn(v, Showing(p, s)) => Elsewhere(v)
             /\ \A task \in Task : Turn(v, Wizard(s, task)) => Elsewhere(v)
  BY <1>1, <1>3, PageNames DEF Sorting
<1>4. ASSUME ShipsOK, NEW s \in 1..N, NEW c \in Shipment,
             Turn(v, [PageOf("details", s) EXCEPT !.copy = c])
      PROVE  Elsewhere(v)
  <2>1. [PageOf("details", s) EXCEPT !.copy = c].page = "details" BY <1>4, PageNames
  <2> QED BY <1>4, <2>1 DEF Sorting, Elsewhere
<1>5. ASSUME ShipsOK, NEW s \in 1..N, NEW c \in Shipment, NEW task \in Task, NEW way \in Way,
             Turn(v, [PageOf("asking", s) EXCEPT !.copy = c, !.task = task, !.way = way])
      PROVE  Elsewhere(v)
  <2>1. [PageOf("asking", s) EXCEPT !.copy = c, !.task = task, !.way = way].page = "asking"
    BY PageNames, <1>5
  <2> QED BY <1>5, <2>1 DEF Sorting, Elsewhere
<1> QED BY <1>2, <1>3, <1>4, <1>5

LEMMA ActTurns ==
  ASSUME TypeOK, NEW v \in User, Act(v), NEW u \in User, desk'[u].page \in Sorting
  PROVE  desk'[u] = desk[u]
<1>0. ShipsOK BY TypeIs
<1>1. CASE \E choice \in Choice : AbandonedCallback(v, choice)
  <2>1. PICK choice \in Choice : AbandonedCallback(v, choice) BY <1>1
  <2> DEFINE d == desk[v]
  <2>2. /\ d.on \in 1..N /\ d.copy \in Shipment /\ d.task \in Task
    BY <2>1, TypeIs, DeskIs DEF AbandonedCallback, At, On
  <2>3. \/ Turn(v, Home) \/ Turn(v, Wizard(d.on, d.task))
        \/ Turn(v, [PageOf("details", d.on) EXCEPT !.copy = d.copy])
    BY <2>1 DEF AbandonedCallback
  <2>4. Elsewhere(v) BY <1>0, <2>2, <2>3, ElsewhereIs
  <2> QED BY <2>4, TurnTo DEF Elsewhere
<1>2. CASE UNCHANGED desk BY <1>2
<1>3. CASE \E s \in 1..N : OpenDetails(v, s) \/ OpenPickDetails(v, s)
  <2>1. PICK s \in 1..N, p \in {"details", "summary"} : Turn(v, Showing(p, s))
    BY <1>3 DEF OpenDetails, SST_search, OpenPickDetails
  <2>2. Elsewhere(v) BY <1>0, <2>1, ElsewhereIs DEF Page, Sorting
  <2> QED BY <2>2, TurnTo DEF Elsewhere
<1>4. CASE MoveToSort(v) \/ Leave(v)
  <2>1. Elsewhere(v) BY <1>4, ElsewhereIs DEF MoveToSort, Leave
  <2> QED BY <2>1, TurnTo DEF Elsewhere
<1>5. CASE AssignToHold(v) \/ OpenGiftWrap(v)
  <2>1. On(v) \in 1..N BY <1>5, TypeIs, DeskIs DEF AssignToHold, OpenGiftWrap, OpenShipmentDetails
  <2>2. \E p \in {"locate", "wrap"} : Turn(v, PageOf(p, On(v)))
    BY <1>5 DEF AssignToHold, ShowHold, OpenGiftWrap, OpenShipmentDetails
  <2>3. Elsewhere(v) BY <1>0, <2>1, <2>2, ElsewhereIs DEF Page, Sorting
  <2> QED BY <2>3, TurnTo DEF Elsewhere
<1>6. CASE \E task \in Task : DefaultAction(v, task)
  <2>1. PICK task \in Task : DefaultAction(v, task) BY <1>6
  <2>2. On(v) \in 1..N BY <2>1, TypeIs, DeskIs DEF DefaultAction
  <2>3. Elsewhere(v) BY <1>0, <2>1, <2>2, ElsewhereIs DEF DefaultAction
  <2> QED BY <2>3, TurnTo DEF Elsewhere
<1> QED
  BY <1>1, <1>2, <1>3, <1>4, <1>5, <1>6 DEF Act, TaskLinks, OnClick, OpenPickOrPackFlow,
     Work, SortButtons, WizardButtons, ScanProduct, MoveAhead, HoldButtons, AddHoldLocation, DeleteHoldLocation,
     ActionConfirm, SummaryButtons, TestRelationship, device

LEMMA HandleTurns ==
  ASSUME TypeOK, NEW m \in net, Handle(m), NEW u \in User, desk'[u].page \in Sorting
  PROVE  \/ desk'[u] = desk[u]
         \/ desk[u].page \in Sorting /\ desk'[u].on = desk[u].on
         \/ /\ m.msg = "scanned" /\ m.by = u /\ desk'[u].on \in FirstToSort(m.lines, u)
            /\ SortCall(u, desk'[u].on) \in net'
<1>0. ShipsOK /\ (m \in Message \/ Carries(m)) BY TypeIs DEF TypeOK
<1>1. m.by \in User BY <1>0, KindOf
<1>2. CASE HandleSort(m)
  <2>1. CASE Turn(m.by, Home)
    <3>1. Elsewhere(m.by) BY <2>1, ElsewhereIs
    <3> QED BY <1>1, <3>1, TurnTo DEF Elsewhere
  <2>2. CASE \E s \in FirstToSort(m.lines, m.by) :
               Turn(m.by, PageOf("sort", s)) /\ Reply(m, SortCall(m.by, s))
    <3>1. PICK s \in FirstToSort(m.lines, m.by) :
            Turn(m.by, PageOf("sort", s)) /\ SortCall(m.by, s) \in net'
      BY <2>2 DEF Reply
    <3>2. m.msg = "scanned" /\ s \in 1..N BY <1>0, <1>2, KindOf DEF HandleSort, FirstToSort, ToSort
    <3>3. PageOf("sort", s).on = s BY <1>0, <3>2, PageNames DEF Page
    <3> QED BY <1>1, <3>1, <3>2, <3>3, TurnTo
  <2> QED BY <1>2, <2>1, <2>2 DEF HandleSort
<1>3. CASE UNCHANGED desk BY <1>3
<1>4. CASE \E ready \in BOOLEAN : /\ desk[m.by].page = "wizard"
                                  /\ Turn(m.by, [desk[m.by] EXCEPT !.ready = ready])
  <2>1. PICK ready \in BOOLEAN : desk[m.by].page = "wizard"
                                 /\ Turn(m.by, [desk[m.by] EXCEPT !.ready = ready])
    BY <1>4
  <2>2. desk[m.by] \in Desk BY <1>1, TypeIs, DeskIs
  <2>3. [desk[m.by] EXCEPT !.ready = ready].page = "wizard" BY <2>1, <2>2 DEF Desk
  <2> QED BY <1>1, <2>1, <2>3, TurnTo DEF Sorting
<1>5. CASE m.msg = "validated" /\ OpenPopup(m)
  <2>1. m.on \in 1..N /\ m.copy \in Shipment /\ m.task \in Task /\ m.way \in Way
    BY <1>0, <1>5, KindOf
  <2>2. Elsewhere(m.by) BY <1>0, <1>5, <2>1, ElsewhereIs DEF OpenPopup
  <2> QED BY <1>1, <2>2, TurnTo DEF Elsewhere
<1>6. CASE m.msg \in {"validated", "taken"} /\ OpenWizard(m)
  <2>1. m.on \in 1..N /\ m.task \in Task BY <1>0, <1>6, KindOf
  <2>2. Elsewhere(m.by) BY <1>0, <1>6, <2>1, ElsewhereIs DEF OpenWizard
  <2> QED BY <1>1, <2>2, TurnTo DEF Elsewhere
<1>7. CASE PrintStatusDone(m)
  <2>1. m.on \in 1..N BY <1>0, <1>7, KindOf DEF PrintStatusDone
  <2>2. \/ UNCHANGED desk \/ Turn(m.by, [Home EXCEPT !.page = "scan"])
        \/ Turn(m.by, Showing("summary", m.on))
    BY <1>7 DEF PrintStatusDone, Tell
  <2>3. UNCHANGED desk \/ Elsewhere(m.by)
    BY <1>0, <2>1, <2>2, ElsewhereIs DEF Page, Sorting
  <2> QED BY <1>1, <2>3, TurnTo DEF Elsewhere
<1>8. CASE HandleValidationOutput(m) \/ HandleGetshipmentDetailsAPICall(m)
  BY <1>3, <1>5, <1>6, <1>8 DEF HandleValidationOutput, HandleGetshipmentDetailsAPICall, Answers, Tell
<1>9. CASE HandleShipDetailsOutput(m)
  BY <1>3, <1>4, <1>5, <1>9 DEF HandleShipDetailsOutput, Answers, Tell, At
<1>10. CASE CombinedAPICallOnNext(m) \/ OpenContainerPackWizard(m)
  <2>1. m.msg = "taken" => m.ok \in BOOLEAN BY <1>0, KindOf
  <2> QED BY <1>3, <1>4, <1>6, <1>10, <2>1
          DEF CombinedAPICallOnNext, OpenContainerPackWizard, Tell, At
<1>11. CASE Ignore(m) \/ RepaintHoldLocationList(m)
  BY <1>3, <1>11 DEF Ignore, RepaintHoldLocationList, Tell
<1>12. CASE PrintDetails(m)
  <2>1. m.on \in 1..N BY <1>0, <1>12, KindOf DEF PrintDetails
  <2>2. PageOf("hold", m.on).on = m.on BY <1>0, <2>1, PageNames DEF Page
  <2>3. Turn(m.by, PageOf("hold", m.on)) /\ desk[m.by].page = "sort" /\ desk[m.by].on = m.on
    BY <1>12 DEF PrintDetails, ShowHold, At, On
  <2> QED BY <1>1, <2>2, <2>3, TurnTo DEF Sorting
<1> QED BY <1>2, <1>7, <1>8, <1>9, <1>10, <1>11, <1>12 DEF Handle

-----------------------------------------------------------------------------
(* Sorting: a user claims a shipment from the answer that says so until    *)
(* the page about it is left                                               *)

Claims(u, s) ==
  \/ desk[u].page \in Sorting /\ desk[u].on = s
  \/ SortCall(u, s) \in net
  \/ \E m \in net : m.msg = "scanned" /\ m.by = u /\ s \in FirstToSort(m.lines, u)

\* A shipment on a page is flagged, or the page has still to flag it.
FlagsFollow ==
  \A u \in User : desk[u].page \in Sorting =>
    \/ ship[desk[u].on].flagged
    \/ SortCall(u, desk[u].on) \in net
SharedOK == \A u, v \in User, s \in 1..N : u # v /\ Claims(u, s) /\ Claims(v, s) => shared[s]
SInv == IInv /\ FlagsFollow /\ SharedOK

\* What two users have shared is never forgotten, and changes with an answer to a scan.
LEMMA SharedIs ==
  ASSUME TypeOK, Next
  PROVE  /\ \A s \in 1..N : shared[s] => shared'[s]
         /\ UNCHANGED shared \/ \E m \in net : ServeScan(m)
<1>1. CASE \E u \in User : Act(u)
  BY <1>1 DEF Act, OpenDetails, SST_search, OpenPickDetails, MoveToSort, Leave, TaskLinks, OnClick,
     OpenPickOrPackFlow, DefaultAction, Work, AbandonedCallback, SortButtons, WizardButtons, ScanProduct, MoveAhead,
     HoldButtons, AddHoldLocation, DeleteHoldLocation, ActionConfirm, SummaryButtons,
     AssignToHold, OpenGiftWrap, OpenShipmentDetails, TestRelationship, history
<1>2. CASE \E m \in net : Serve(m) \/ Handle(m)
  BY <1>2 DEF Serve, Handle, ServeValidate, ServeTake, ServeScan, ChangeFlagForSort,
     GetPrintDetails, SaveHoldLocation, ChangeShipmentStatus, history
<1>3. CASE \E s \in 1..N : Abandon(s) BY <1>3 DEF Abandon, history
<1> QED BY <1>1, <1>2, <1>3 DEF Next

LEMMA SortCallIs == \A u, s, v, r : SortCall(u, s) = SortCall(v, r) => u = v /\ s = r
BY DEF SortCall

\* The page that sorts was there, or comes of an answer that its user claimed.
LEMMA PageCame ==
  ASSUME TypeOK, Next, NEW u \in User, desk'[u].page \in Sorting
  PROVE  \/ desk[u].page \in Sorting /\ desk'[u].on = desk[u].on
         \/ /\ SortCall(u, desk'[u].on) \in net'
            /\ \E m \in net : /\ m.msg = "scanned" /\ m.by = u
                              /\ desk'[u].on \in FirstToSort(m.lines, u)
<1>1. CASE \E v \in User : Act(v) BY <1>1, ActTurns
<1>2. CASE \E m \in net : Serve(m) \/ Handle(m)
  <2>1. PICK m \in net : Serve(m) \/ Handle(m) BY <1>2
  <2>2. CASE Serve(m) BY <2>2 DEF Serve, device
  <2>3. CASE Handle(m) BY <2>3, HandleTurns
  <2> QED BY <2>1, <2>2, <2>3
<1>3. CASE \E s \in 1..N : Abandon(s) BY <1>3 DEF Abandon, device
<1> QED BY <1>1, <1>2, <1>3 DEF Next

\* A claim begins with the answer to a scan.
LEMMA ClaimCame ==
  ASSUME TypeOK, Next, NEW u \in User, NEW s \in 1..N, Claims(u, s)', ~Claims(u, s)
  PROVE  \E n \in net : ServeScan(n) /\ n.by = u /\ s \in FirstToSort(Lines, u)
<1>1. CASE desk'[u].page \in Sorting /\ desk'[u].on = s
  BY <1>1, PageCame DEF Claims
<1>2. ASSUME NEW m \in net', m \notin net, m.msg \in {"scanned", "sort"}
      PROVE  \E n \in net : /\ Serve(n) \/ Handle(n)
                            /\ m.msg = "scanned" => ServeScan(n) /\ m.by = n.by /\ m.lines = Lines
                            /\ m.msg = "sort" => n.msg = "scanned" /\ \E r \in FirstToSort(n.lines, n.by) :
                                                                        m = SortCall(n.by, r)
  <2>1. ~(\E v \in User : Act(v)) BY <1>2, Asked
  <2>2. ~(\E r \in 1..N : Abandon(r)) BY <1>2 DEF Abandon
  <2>3. PICK n \in net : Serve(n) \/ Handle(n) BY <2>1, <2>2 DEF Next
  <2> QED BY <1>2, <2>3, Answered
<1>3. CASE SortCall(u, s) \in net'
  <2>1. SortCall(u, s) \notin net /\ SortCall(u, s).msg = "sort" BY DEF Claims, SortCall
  <2>2. PICK n \in net : n.msg = "scanned" /\ \E r \in FirstToSort(n.lines, n.by) :
                                               SortCall(u, s) = SortCall(n.by, r)
    BY <1>2, <1>3, <2>1
  <2> QED BY <2>2, SortCallIs DEF Claims
<1>4. CASE \E m \in net' : m.msg = "scanned" /\ m.by = u /\ s \in FirstToSort(m.lines, u)
  <2>1. PICK m \in net' : m.msg = "scanned" /\ m.by = u /\ s \in FirstToSort(m.lines, u) BY <1>4
  <2>2. m \notin net BY <2>1 DEF Claims
  <2> QED BY <1>2, <2>1, <2>2
<1> QED BY <1>1, <1>3, <1>4 DEF Claims, SortCall, FirstToSort, ToSort

\* A page flags its shipment before its request is forgotten.
LEMMA FlagsStep == SInv /\ Next => FlagsFollow'
<1> SUFFICES ASSUME SInv, Next, NEW u \in User, desk'[u].page \in Sorting
             PROVE  ship'[desk'[u].on].flagged \/ SortCall(u, desk'[u].on) \in net'
  BY DEF FlagsFollow, SortCall
<1> DEFINE s == desk'[u].on
<1>0. TypeOK /\ IInv BY DEF SInv, IInv
<1>1. CASE SortCall(u, s) \in net' BY <1>1
<1>2. CASE desk[u].page \in Sorting /\ s = desk[u].on
  <2>1. s \in 1..N BY <1>0, <1>2, TypeIs, DeskIs DEF DeskGood, Sorting
  <2>2. CASE ship[s].flagged BY <1>0, <2>1, <2>2, SensibleStep DEF Remains
  <2>3. CASE SortCall(u, s) \in net /\ SortCall(u, s) \notin net'
    <3> DEFINE m == SortCall(u, s)
    <3>1. m.msg = "sort" /\ m.on = s BY DEF SortCall
    <3> HIDE DEF m, s
    <3>2. Serve(m) \/ Handle(m) BY <2>3, UnderWay DEF Next, Abandon, m
    <3>3. ChangeFlagForSort(m)
      BY <3>1, <3>2 DEF Serve, ServeValidate, ServeTake, ServeScan, GetPrintDetails,
         SaveHoldLocation, ChangeShipmentStatus, Handle, HandleValidationOutput,
         HandleGetshipmentDetailsAPICall, HandleShipDetailsOutput, OpenContainerPackWizard,
         CombinedAPICallOnNext, HandleSort, PrintStatusDone, Ignore, PrintDetails,
         RepaintHoldLocationList, Answers
    <3> QED BY <1>0, <2>1, <3>1, <3>3 DEF ChangeFlagForSort, TypeOK, Shipment, s
  <2> QED BY <1>1, <1>2, <2>2, <2>3 DEF SInv, FlagsFollow
<1> QED BY <1>0, <1>1, <1>2, PageCame

\* Whoever comes to claim what another claims was told so or is assigned to it.
LEMMA Joining ==
  ASSUME SInv, NEW u \in User, NEW v \in User, u # v, NEW s \in 1..N, Claims(v, s),
         NEW n \in net, ServeScan(n), n.by = u, s \in FirstToSort(Lines, u)
  PROVE  shared'[s]
<1>1. CASE Awaited(u, s) BY <1>1 DEF ServeScan
<1>2. CASE ~Awaited(u, s)
  <2>1. SortCall(v, s) \notin net BY <1>2 DEF Awaited, SortCall
  <2>2. desk[v].page \in Sorting /\ desk[v].on = s BY <1>2, <2>1 DEF Claims, Awaited
  <2>3. ship[s].flagged BY <2>1, <2>2 DEF SInv, FlagsFollow
  <2>4. ship[s].assigned = u BY <2>3 DEF FirstToSort, ToSort, Lines
  <2> QED BY <2>3, <2>4 DEF ServeScan
<1> QED BY <1>1, <1>2

LEMMA SharedStep == SInv /\ Next => SharedOK'
<1> SUFFICES ASSUME SInv, Next, NEW u \in User, NEW v \in User, NEW s \in 1..N, u # v,
                    Claims(u, s)', Claims(v, s)'
             PROVE  shared'[s]
  BY DEF SharedOK
<1>0. TypeOK BY DEF SInv, IInv
<1>1. CASE Claims(u, s) /\ Claims(v, s)
  BY <1>0, <1>1, SharedIs DEF SInv, SharedOK
<1>2. CASE ~Claims(u, s) /\ Claims(v, s) BY <1>0, <1>2, ClaimCame, Joining
<1>3. CASE Claims(u, s) /\ ~Claims(v, s) BY <1>0, <1>3, ClaimCame, Joining
<1>4. CASE ~Claims(u, s) /\ ~Claims(v, s)
  <2>1. PICK n \in net : ServeScan(n) /\ n.by = u BY <1>0, <1>4, ClaimCame
  <2>2. n \notin net' BY <2>1 DEF ServeScan, Reply
  <2>3. PICK k \in net : ServeScan(k) /\ k.by = v BY <1>0, <1>4, ClaimCame
  <2>4. n # k BY <2>1, <2>3
  <2>5. n \in net' BY <2>3, <2>4 DEF ServeScan, Reply
  <2> QED BY <2>2, <2>5
<1> QED BY <1>1, <1>2, <1>3, <1>4

LEMMA SInvStep == SInv /\ [Next]_vars => SInv'
<1>1. ASSUME SInv, UNCHANGED vars PROVE SInv'
  <2>1. IInv' BY <1>1, IInvStep DEF SInv
  <2>2. FlagsFollow' /\ SharedOK'
    BY <1>1 DEF SInv, vars, server, device, history, FlagsFollow, SharedOK, Claims, SortCall,
                FirstToSort, ToSort
  <2> QED BY <2>1, <2>2 DEF SInv
<1>2. ASSUME SInv, Next PROVE SInv'
  <2>1. IInv' BY <1>2, IInvStep DEF SInv
  <2> QED BY <1>2, <2>1, FlagsStep, SharedStep DEF SInv
<1> QED BY <1>1, <1>2

\* Sorting: two users are at one shipment only where a scan was answered for the one
\* while the other was about to flag it, or found it flagged and assigned to the one.
THEOREM OneSorterHolds == Spec => []OneSorter
<1>1. ASSUME Init PROVE SInv
  <2>1. \A u \in User : desk[u].page \notin Sorting BY <1>1, HomeNames DEF Init, Sorting
  <2>2. net = {} BY <1>1 DEF Init
  <2>3. FlagsFollow /\ SharedOK BY <2>1, <2>2 DEF FlagsFollow, SharedOK, Claims
  <2> QED BY <1>1, <2>3, InitIInv DEF SInv
<1>2. ASSUME SInv PROVE OneSorter
  <2> SUFFICES ASSUME NEW u \in User, NEW v \in User, u # v, At(u, Sorting), At(v, Sorting),
                      On(u) = On(v)
               PROVE  shared[On(u)]
    BY DEF OneSorter, Sorting
  <2>1. On(u) \in 1..N BY <1>2, TypeIs, DeskIs DEF SInv, IInv, Sorting
  <2>2. Claims(u, On(u)) /\ Claims(v, On(u)) BY DEF Claims, At, On
  <2> QED BY <1>2, <2>1, <2>2 DEF SInv, SharedOK
<1> QED BY <1>1, <1>2, SInvStep, PTL DEF Spec

-----------------------------------------------------------------------------
(* Taking over *)

LEMMA TakesStep == TypeOK /\ TakesFit /\ [Next]_vars => TakesFit'
<1> SUFFICES ASSUME TypeOK, TakesFit, [Next]_vars,
                    NEW m \in net', m.msg = "take", m.task = "Pack"
             PROVE  FitsTake(m)
  BY DEF TakesFit, FitsTake
<1>1. CASE m \in net BY <1>1 DEF TakesFit
<1>2. CASE m \notin net
  <2>1. Next BY <1>2 DEF vars
  <2>2. CASE \E u \in User : Act(u) BY <1>2, <2>2, Asked
  <2>3. CASE \E n \in net : Serve(n) \/ Handle(n) BY <1>2, <2>3, Answered
  <2> QED BY <1>2, <2>1, <2>2, <2>3 DEF Next, Abandon
<1> QED BY <1>1, <1>2

LEMMA TakeStep ==
  TypeOK /\ TakesFit /\ [Next]_vars =>
    \A m \in net :
      m.msg = "take" /\ m \notin net' /\ m.task = "Pack" /\ ~Refused(ship[m.on], m.calls) =>
        /\ m.choice = "STARTOVER" /\ m.saw = ship[m.on].boxes => ~ship'[m.on].boxes
        /\ m.choice = "CONTINUE" => ship'[m.on].boxes = ship[m.on].boxes
<1> SUFFICES ASSUME TypeOK, TakesFit, [Next]_vars, NEW m \in net, m.msg = "take", m \notin net',
                    m.task = "Pack", ~Refused(ship[m.on], m.calls)
             PROVE  /\ m.choice = "STARTOVER" /\ m.saw = ship[m.on].boxes => ~ship'[m.on].boxes
                    /\ m.choice = "CONTINUE" => ship'[m.on].boxes = ship[m.on].boxes
  OBVIOUS
<1>1. Serve(m) \/ Handle(m)
  <2>1. Next BY DEF vars
  <2> QED BY <2>1, UnderWay DEF Next, Abandon
<1>2. ServeTake(m)
  BY <1>1 DEF Serve, ServeValidate, ServeScan, ChangeFlagForSort, GetPrintDetails,
     SaveHoldLocation, ChangeShipmentStatus, Handle, HandleValidationOutput, HandleGetshipmentDetailsAPICall,
     HandleShipDetailsOutput, OpenContainerPackWizard, CombinedAPICallOnNext, HandleSort,
     PrintStatusDone, Ignore, PrintDetails, RepaintHoldLocationList, Answers
<1>3. m.on \in 1..N /\ m.by \in User /\ FitsTake(m) BY KindOf DEF TypeOK, TakesFit
<1>4. ship[m.on] \in Shipment BY <1>3 DEF TypeOK
<1>5. ship'[m.on] = Taken(ship[m.on], m.by, m.calls) BY <1>2, <1>3 DEF ServeTake, TypeOK
<1>6. ship'[m.on].boxes = (ship[m.on].boxes /\ "unpack" \notin m.calls)
  BY <1>4, <1>5 DEF Taken, Shipment
<1>7. CASE "unpack" \in m.calls
  BY <1>3, <1>6, <1>7 DEF FitsTake
<1>8. CASE "unpack" \notin m.calls
  BY <1>3, <1>4, <1>6, <1>8 DEF FitsTake, Shipment
<1> QED BY <1>7, <1>8

\* Taking over: for packing, starting over leaves no container and continuing
\* leaves them all.
THEOREM TakeOverHolds == Spec => TakeOverKeepsItsWord
<1>1. Init => TakesFit BY DEF Init, TakesFit
<1>2. TypeOK /\ TakesFit /\ [Next]_vars =>
        [\A m \in net :
           m.msg = "take" /\ m \notin net' /\ m.task = "Pack" /\ ~Refused(ship[m.on], m.calls) =>
             /\ m.choice = "STARTOVER" /\ m.saw = ship[m.on].boxes => ~ship'[m.on].boxes
             /\ m.choice = "CONTINUE" => ship'[m.on].boxes = ship[m.on].boxes]_vars
  BY TakeStep
<1> QED BY <1>1, <1>2, InitTypes, StepTypes, TakesStep, PTL DEF Spec, TakeOverKeepsItsWord

-----------------------------------------------------------------------------
(* Hold locations: the loops over them, as recursions that take one more   *)
(* location at a time                                                      *)

Place == [at : Seq(Part), gone : BOOLEAN]

SizeIter(s) == CHOOSE iter : iter = [T \in SUBSET DOMAIN s |->
                 IF T = {} THEN 0 ELSE iter[T \ {Max(T)}] + Size[s[Max(T)]]]
NameIter(s) == CHOOSE iter : iter = [T \in SUBSET DOMAIN s |->
                 IF T = {} THEN <<>> ELSE iter[T \ {Max(T)}] \o s[Max(T)].at]
KeepIter(s) == CHOOSE iter : iter = [T \in SUBSET DOMAIN s |->
                 IF T = {} THEN <<>>
                 ELSE IF s[Max(T)].gone THEN iter[T \ {Max(T)}]
                      ELSE Append(iter[T \ {Max(T)}], s[Max(T)])]

\* How long the words are.
LEMMA SizesSteps ==
  ASSUME NEW s \in Seq(Part)
  PROVE  /\ Sizes(s) = SizeIter(s)[1..Len(s)]
         /\ SizeIter(s)[{}] = 0
         /\ \A t \in 1..Len(s) : SizeIter(s)[1..t] = SizeIter(s)[1..(t - 1)] + Size[s[t]]
         /\ \A t \in 0..Len(s) : SizeIter(s)[1..t] \in Nat
<1> DEFINE n == Len(s)
           V == Nat
           F == [p \in V \X (1..n) |-> p[1] + Size[s[p[2]]]]
           Next1(g) == [T \in SUBSET DOMAIN s |->
                          IF T = {} THEN 0 ELSE g[T \ {Max(T)}] + Size[s[Max(T)]]]
           h == SizeIter(s)
<1>1. Sizes(s) = h[DOMAIN s] BY DEF Sizes, FoldLeft, MapThenFoldSet, SizeIter
<1>2. n \in Nat /\ DOMAIN s = 1..n /\ 0 \in V OBVIOUS
<1>3. \A v \in V, e \in Part : v + Size[e] \in V BY NameAssumption
<1>4. F \in [V \X (1..n) -> V]
  <2>1. \A i \in 1..n : s[i] \in Part OBVIOUS
  <2> HIDE DEF V, n
  <2> QED BY <1>3, <2>1
<1>5. PICK g : FoldsLeft(g, n, V, 0, F)
  <2> HIDE DEF F, V
  <2> QED BY <1>2, <1>4, FoldRecursion
<1>6. /\ g \in [SUBSET (1..n) -> V]
      /\ \A T \in SUBSET (1..n) :
           g[T] = IF T = {} THEN 0 ELSE F[<<g[T \ {Max(T)}], Max(T)>>]
  <2> HIDE DEF F, V
  <2> QED BY <1>5 DEF FoldsLeft
<1>7. ASSUME NEW T \in SUBSET (1..n), T # {}
      PROVE  F[<<g[T \ {Max(T)}], Max(T)>>] = g[T \ {Max(T)}] + Size[s[Max(T)]]
  <2>1. Max(T) \in 1..n BY <1>2, <1>7, GreatestNumber
  <2>2. g[T \ {Max(T)}] \in V BY <1>6
  <2> QED BY <2>1, <2>2
<1>8. g = Next1(g)
  <2>1. g = [T \in SUBSET (1..n) |-> g[T]] BY <1>6
  <2> HIDE DEF F, V
  <2> QED BY <1>2, <1>6, <1>7, <2>1
<1>9. h = Next1(h) BY <1>8, Zenon DEF SizeIter
<1> HIDE DEF h
<1>10. \A T \in SUBSET (1..n) : h[T] = IF T = {} THEN 0 ELSE h[T \ {Max(T)}] + Size[s[Max(T)]]
  BY <1>2, <1>9
<1>11. ASSUME NEW t \in 1..n PROVE h[1..t] = h[1..(t - 1)] + Size[s[t]]
  <2>1. Max(1..t) = t /\ (1..t) \ {t} = 1..(t - 1) BY GreatestOfRange
  <2>2. 1..t \in SUBSET (1..n) /\ t \in 1..t BY <1>2
  <2>3. 1..t # {} BY <2>2
  <2> QED BY <1>10, <2>1, <2>2, <2>3
<1>12. h[{}] = 0 BY <1>10
<1> DEFINE S == {t \in Nat : h[1..t] \in V}
<1>13. 0 \in S
  <2>1. 1..0 = {} OBVIOUS
  <2>2. h[1..0] \in V BY <1>2, <1>12, <2>1
  <2> QED BY <2>2
<1>14. ASSUME NEW t \in 0..(n - 1), t \in S PROVE t + 1 \in S
  <2>1. t + 1 \in 1..n /\ (t + 1) - 1 = t /\ t \in Nat BY <1>2
  <2>2. s[t + 1] \in Part /\ h[1..t] \in V BY <1>14, <2>1
  <2> HIDE DEF V
  <2>3. h[1..(t + 1)] \in V BY <1>3, <1>11, <2>1, <2>2
  <2> QED BY <2>1, <2>3
<1>15. \A t \in 0..n : t \in S
  <2> HIDE DEF S, n
  <2> QED BY <1>2, <1>13, <1>14, RangeByInduction
<1> QED BY <1>1, <1>2, <1>11, <1>12, <1>15 DEF h

LEMMA SizesAppend ==
  ASSUME NEW s \in Seq(Part), NEW e \in Part
  PROVE  /\ Sizes(<<>>) = 0 /\ Sizes(s) \in Nat
         /\ Sizes(Append(s, e)) = Sizes(s) + Size[e]
<1> DEFINE n == Len(s)
           u == Append(s, e)
           g == SizeIter(s)
           h == SizeIter(u)
           S == {t \in 0..n : h[1..t] = g[1..t]}
<1>1. n \in Nat /\ 1..0 = {} OBVIOUS
<1>2. /\ u \in Seq(Part) /\ Len(u) = n + 1 /\ u[n + 1] = e
      /\ \A t \in 1..n : u[t] = s[t]
  BY AppendProperties
<1>3. /\ Sizes(s) = g[1..n] /\ g[{}] = 0 /\ g[1..n] \in Nat
      /\ \A t \in 1..n : g[1..t] = g[1..(t - 1)] + Size[s[t]]
  <2>1. n \in 0..n BY <1>1
  <2> QED BY <2>1, SizesSteps
<1> HIDE DEF u, n
<1>4. /\ Sizes(u) = h[1..(n + 1)] /\ h[{}] = 0
      /\ \A t \in 1..(n + 1) : h[1..t] = h[1..(t - 1)] + Size[u[t]]
  BY <1>2, SizesSteps
<1> HIDE DEF g, h
<1>5. 0 \in S BY <1>1, <1>3, <1>4
<1>6. ASSUME NEW t \in 0..(n - 1), t \in S PROVE t + 1 \in S
  <2>1. t + 1 \in 1..n /\ t + 1 \in 0..n /\ t + 1 \in 1..(n + 1) /\ (t + 1) - 1 = t BY <1>1
  <2>2. h[1..t] = g[1..t] BY <1>6
  <2>3. h[1..(t + 1)] = g[1..(t + 1)] BY <1>2, <1>3, <1>4, <2>1, <2>2
  <2> QED BY <2>1, <2>3
<1>7. \A t \in 0..n : t \in S
  <2> HIDE DEF S
  <2> QED BY <1>1, <1>5, <1>6, RangeByInduction
<1>8. h[1..n] = g[1..n] BY <1>1, <1>7
<1>9. n + 1 \in 1..(n + 1) /\ (n + 1) - 1 = n BY <1>1
<1>10. Sizes(u) = Sizes(s) + Size[e] BY <1>2, <1>3, <1>4, <1>8, <1>9
<1>11. Sizes(<<>>) = 0
  <2>1. <<>> \in Seq(Part) /\ Len(<<>>) = 0 OBVIOUS
  <2> QED BY <1>1, <2>1, SizesSteps
<1> QED BY <1>3, <1>10, <1>11 DEF u

\* The names of the locations, joined.
LEMMA HoldLocationUpdateSteps ==
  ASSUME NEW s \in Seq(Place)
  PROVE  /\ HoldLocationUpdate(s) = NameIter(s)[1..Len(s)]
         /\ NameIter(s)[{}] = <<>>
         /\ \A t \in 1..Len(s) : NameIter(s)[1..t] = NameIter(s)[1..(t - 1)] \o s[t].at
         /\ \A t \in 0..Len(s) : NameIter(s)[1..t] \in Seq(Part)
<1> DEFINE n == Len(s)
           V == Seq(Part)
           F == [p \in V \X (1..n) |-> p[1] \o s[p[2]].at]
           Next1(g) == [T \in SUBSET DOMAIN s |->
                          IF T = {} THEN <<>> ELSE g[T \ {Max(T)}] \o s[Max(T)].at]
           h == NameIter(s)
<1>1. HoldLocationUpdate(s) = h[DOMAIN s]
  BY DEF HoldLocationUpdate, FoldLeft, MapThenFoldSet, NameIter
<1>2. n \in Nat /\ DOMAIN s = 1..n /\ <<>> \in V OBVIOUS
<1>3. \A v \in V, e \in Place : v \o e.at \in V BY ConcatProperties DEF Place
<1>4. F \in [V \X (1..n) -> V]
  <2>1. \A i \in 1..n : s[i] \in Place OBVIOUS
  <2> HIDE DEF V, n
  <2> QED BY <1>3, <2>1
<1>5. PICK g : FoldsLeft(g, n, V, <<>>, F)
  <2> HIDE DEF F, V
  <2> QED BY <1>2, <1>4, FoldRecursion
<1>6. /\ g \in [SUBSET (1..n) -> V]
      /\ \A T \in SUBSET (1..n) :
           g[T] = IF T = {} THEN <<>> ELSE F[<<g[T \ {Max(T)}], Max(T)>>]
  <2> HIDE DEF F, V
  <2> QED BY <1>5 DEF FoldsLeft
<1>7. ASSUME NEW T \in SUBSET (1..n), T # {}
      PROVE  F[<<g[T \ {Max(T)}], Max(T)>>] = g[T \ {Max(T)}] \o s[Max(T)].at
  <2>1. Max(T) \in 1..n BY <1>2, <1>7, GreatestNumber
  <2>2. g[T \ {Max(T)}] \in V BY <1>6
  <2> QED BY <2>1, <2>2
<1>8. g = Next1(g)
  <2>1. g = [T \in SUBSET (1..n) |-> g[T]] BY <1>6
  <2> HIDE DEF F, V
  <2> QED BY <1>2, <1>6, <1>7, <2>1
<1>9. h = Next1(h) BY <1>8, Zenon DEF NameIter
<1> HIDE DEF h
<1>10. \A T \in SUBSET (1..n) : h[T] = IF T = {} THEN <<>> ELSE h[T \ {Max(T)}] \o s[Max(T)].at
  BY <1>2, <1>9
<1>11. ASSUME NEW t \in 1..n PROVE h[1..t] = h[1..(t - 1)] \o s[t].at
  <2>1. Max(1..t) = t /\ (1..t) \ {t} = 1..(t - 1) BY GreatestOfRange
  <2>2. 1..t \in SUBSET (1..n) /\ t \in 1..t BY <1>2
  <2>3. 1..t # {} BY <2>2
  <2> QED BY <1>10, <2>1, <2>2, <2>3
<1>12. h[{}] = <<>> BY <1>10
<1> DEFINE S == {t \in Nat : h[1..t] \in V}
<1>13. 0 \in S
  <2>1. 1..0 = {} OBVIOUS
  <2>2. h[1..0] \in V BY <1>2, <1>12, <2>1
  <2> QED BY <2>2
<1>14. ASSUME NEW t \in 0..(n - 1), t \in S PROVE t + 1 \in S
  <2>1. t + 1 \in 1..n /\ (t + 1) - 1 = t /\ t \in Nat BY <1>2
  <2>2. s[t + 1] \in Place /\ h[1..t] \in V BY <1>14, <2>1
  <2> HIDE DEF V
  <2>3. h[1..(t + 1)] \in V BY <1>3, <1>11, <2>1, <2>2
  <2> QED BY <2>1, <2>3
<1>15. \A t \in 0..n : t \in S
  <2> HIDE DEF S, n
  <2> QED BY <1>2, <1>13, <1>14, RangeByInduction
<1> QED BY <1>1, <1>2, <1>11, <1>12, <1>15 DEF h

LEMMA HoldLocationUpdateAppend ==
  ASSUME NEW s \in Seq(Place), NEW e \in Place
  PROVE  /\ HoldLocationUpdate(<<>>) = <<>> /\ HoldLocationUpdate(s) \in Seq(Part)
         /\ HoldLocationUpdate(Append(s, e)) = HoldLocationUpdate(s) \o e.at
<1> DEFINE n == Len(s)
           u == Append(s, e)
           g == NameIter(s)
           h == NameIter(u)
           S == {t \in 0..n : h[1..t] = g[1..t]}
<1>1. n \in Nat /\ 1..0 = {} OBVIOUS
<1>2. /\ u \in Seq(Place) /\ Len(u) = n + 1 /\ u[n + 1] = e
      /\ \A t \in 1..n : u[t] = s[t]
  BY AppendProperties
<1>3. /\ HoldLocationUpdate(s) = g[1..n] /\ g[{}] = <<>> /\ g[1..n] \in Seq(Part)
      /\ \A t \in 1..n : g[1..t] = g[1..(t - 1)] \o s[t].at
  <2>1. n \in 0..n BY <1>1
  <2> QED BY <2>1, HoldLocationUpdateSteps
<1> HIDE DEF u, n
<1>4. /\ HoldLocationUpdate(u) = h[1..(n + 1)] /\ h[{}] = <<>>
      /\ \A t \in 1..(n + 1) : h[1..t] = h[1..(t - 1)] \o u[t].at
  BY <1>2, HoldLocationUpdateSteps
<1> HIDE DEF g, h
<1>5. 0 \in S BY <1>1, <1>3, <1>4
<1>6. ASSUME NEW t \in 0..(n - 1), t \in S PROVE t + 1 \in S
  <2>1. t + 1 \in 1..n /\ t + 1 \in 0..n /\ t + 1 \in 1..(n + 1) /\ (t + 1) - 1 = t BY <1>1
  <2>2. h[1..t] = g[1..t] BY <1>6
  <2>3. h[1..(t + 1)] = g[1..(t + 1)] BY <1>2, <1>3, <1>4, <2>1, <2>2
  <2> QED BY <2>1, <2>3
<1>7. \A t \in 0..n : t \in S
  <2> HIDE DEF S
  <2> QED BY <1>1, <1>5, <1>6, RangeByInduction
<1>8. h[1..n] = g[1..n] BY <1>1, <1>7
<1>9. n + 1 \in 1..(n + 1) /\ (n + 1) - 1 = n BY <1>1
<1>10. HoldLocationUpdate(u) = HoldLocationUpdate(s) \o e.at BY <1>2, <1>3, <1>4, <1>8, <1>9
<1>11. HoldLocationUpdate(<<>>) = <<>>
  <2>1. <<>> \in Seq(Place) /\ Len(<<>>) = 0 OBVIOUS
  <2> QED BY <1>1, <2>1, HoldLocationUpdateSteps
<1> QED BY <1>3, <1>10, <1>11 DEF u

\* The locations that are not being deleted.
LEMMA DeleteLocationSteps ==
  ASSUME NEW s \in Seq(Place)
  PROVE  /\ DeleteLocation(s) = KeepIter(s)[1..Len(s)]
         /\ KeepIter(s)[{}] = <<>>
         /\ \A t \in 1..Len(s) : KeepIter(s)[1..t] = IF s[t].gone THEN KeepIter(s)[1..(t - 1)]
                                ELSE Append(KeepIter(s)[1..(t - 1)], s[t])
         /\ \A t \in 0..Len(s) : KeepIter(s)[1..t] \in Seq(Place)
<1> DEFINE n == Len(s)
           V == Seq(Place)
           F == [p \in V \X (1..n) |-> IF s[p[2]].gone THEN p[1] ELSE Append(p[1], s[p[2]])]
           Next1(g) == [T \in SUBSET DOMAIN s |->
                          IF T = {} THEN <<>>
                          ELSE IF s[Max(T)].gone THEN g[T \ {Max(T)}]
                               ELSE Append(g[T \ {Max(T)}], s[Max(T)])]
           h == KeepIter(s)
<1>1. DeleteLocation(s) = h[DOMAIN s] BY DEF DeleteLocation, FoldLeft, MapThenFoldSet, KeepIter
<1>2. n \in Nat /\ DOMAIN s = 1..n /\ <<>> \in V OBVIOUS
<1>3. \A v \in V, e \in Place : (IF e.gone THEN v ELSE Append(v, e)) \in V
  BY AppendProperties DEF Place
<1>4. F \in [V \X (1..n) -> V]
  <2>1. \A i \in 1..n : s[i] \in Place OBVIOUS
  <2> HIDE DEF V, n
  <2> QED BY <1>3, <2>1
<1>5. PICK g : FoldsLeft(g, n, V, <<>>, F)
  <2> HIDE DEF F, V
  <2> QED BY <1>2, <1>4, FoldRecursion
<1>6. /\ g \in [SUBSET (1..n) -> V]
      /\ \A T \in SUBSET (1..n) :
           g[T] = IF T = {} THEN <<>> ELSE F[<<g[T \ {Max(T)}], Max(T)>>]
  <2> HIDE DEF F, V
  <2> QED BY <1>5 DEF FoldsLeft
<1>7. ASSUME NEW T \in SUBSET (1..n), T # {}
      PROVE  F[<<g[T \ {Max(T)}], Max(T)>>]
               = IF s[Max(T)].gone THEN g[T \ {Max(T)}]
                 ELSE Append(g[T \ {Max(T)}], s[Max(T)])
  <2>1. Max(T) \in 1..n BY <1>2, <1>7, GreatestNumber
  <2>2. g[T \ {Max(T)}] \in V BY <1>6
  <2> QED BY <2>1, <2>2
<1>8. g = Next1(g)
  <2>1. g = [T \in SUBSET (1..n) |-> g[T]] BY <1>6
  <2> HIDE DEF F, V
  <2> QED BY <1>2, <1>6, <1>7, <2>1
<1>9. h = Next1(h) BY <1>8, Zenon DEF KeepIter
<1> HIDE DEF h
<1>10. \A T \in SUBSET (1..n) :
          h[T] = IF T = {} THEN <<>>
                 ELSE IF s[Max(T)].gone THEN h[T \ {Max(T)}]
                      ELSE Append(h[T \ {Max(T)}], s[Max(T)])
  BY <1>2, <1>9
<1>11. ASSUME NEW t \in 1..n
       PROVE  h[1..t] = IF s[t].gone THEN h[1..(t - 1)] ELSE Append(h[1..(t - 1)], s[t])
  <2>1. Max(1..t) = t /\ (1..t) \ {t} = 1..(t - 1) BY GreatestOfRange
  <2>2. 1..t \in SUBSET (1..n) /\ t \in 1..t BY <1>2
  <2>3. 1..t # {} BY <2>2
  <2> QED BY <1>10, <2>1, <2>2, <2>3
<1>12. h[{}] = <<>> BY <1>10
<1> DEFINE S == {t \in Nat : h[1..t] \in V}
<1>13. 0 \in S
  <2>1. 1..0 = {} OBVIOUS
  <2>2. h[1..0] \in V BY <1>2, <1>12, <2>1
  <2> QED BY <2>2
<1>14. ASSUME NEW t \in 0..(n - 1), t \in S PROVE t + 1 \in S
  <2>1. t + 1 \in 1..n /\ (t + 1) - 1 = t /\ t \in Nat BY <1>2
  <2>2. s[t + 1] \in Place /\ h[1..t] \in V BY <1>14, <2>1
  <2> HIDE DEF V
  <2>3. h[1..(t + 1)] \in V BY <1>3, <1>11, <2>1, <2>2
  <2> QED BY <2>1, <2>3
<1>15. \A t \in 0..n : t \in S
  <2> HIDE DEF S, n
  <2> QED BY <1>2, <1>13, <1>14, RangeByInduction
<1> QED BY <1>1, <1>2, <1>11, <1>12, <1>15 DEF h

LEMMA DeleteLocationAppend ==
  ASSUME NEW s \in Seq(Place), NEW e \in Place
  PROVE  /\ DeleteLocation(<<>>) = <<>> /\ DeleteLocation(s) \in Seq(Place)
         /\ DeleteLocation(Append(s, e))
              = IF e.gone THEN DeleteLocation(s) ELSE Append(DeleteLocation(s), e)
<1> DEFINE n == Len(s)
           u == Append(s, e)
           g == KeepIter(s)
           h == KeepIter(u)
           S == {t \in 0..n : h[1..t] = g[1..t]}
<1>1. n \in Nat /\ 1..0 = {} OBVIOUS
<1>2. /\ u \in Seq(Place) /\ Len(u) = n + 1 /\ u[n + 1] = e
      /\ \A t \in 1..n : u[t] = s[t]
  BY AppendProperties
<1>3. /\ DeleteLocation(s) = g[1..n] /\ g[{}] = <<>> /\ g[1..n] \in Seq(Place)
      /\ \A t \in 1..n : g[1..t] = IF s[t].gone THEN g[1..(t - 1)]
                                   ELSE Append(g[1..(t - 1)], s[t])
  <2>1. n \in 0..n BY <1>1
  <2> QED BY <2>1, DeleteLocationSteps
<1> HIDE DEF u, n
<1>4. /\ DeleteLocation(u) = h[1..(n + 1)] /\ h[{}] = <<>>
      /\ \A t \in 1..(n + 1) : h[1..t] = IF u[t].gone THEN h[1..(t - 1)]
                                         ELSE Append(h[1..(t - 1)], u[t])
  BY <1>2, DeleteLocationSteps
<1> HIDE DEF g, h
<1>5. 0 \in S BY <1>1, <1>3, <1>4
<1>6. ASSUME NEW t \in 0..(n - 1), t \in S PROVE t + 1 \in S
  <2>1. t + 1 \in 1..n /\ t + 1 \in 0..n /\ t + 1 \in 1..(n + 1) /\ (t + 1) - 1 = t BY <1>1
  <2>2. h[1..t] = g[1..t] BY <1>6
  <2>3. h[1..(t + 1)] = g[1..(t + 1)] BY <1>2, <1>3, <1>4, <2>1, <2>2
  <2> QED BY <2>1, <2>3
<1>7. \A t \in 0..n : t \in S
  <2> HIDE DEF S
  <2> QED BY <1>1, <1>5, <1>6, RangeByInduction
<1>8. h[1..n] = g[1..n] BY <1>1, <1>7
<1>9. n + 1 \in 1..(n + 1) /\ (n + 1) - 1 = n BY <1>1
<1>10. DeleteLocation(u) = IF e.gone THEN DeleteLocation(s) ELSE Append(DeleteLocation(s), e)
  BY <1>2, <1>3, <1>4, <1>8, <1>9
<1>11. DeleteLocation(<<>>) = <<>>
  <2>1. <<>> \in Seq(Place) /\ Len(<<>>) = 0 OBVIOUS
  <2> QED BY <1>1, <2>1, DeleteLocationSteps
<1> QED BY <1>3, <1>10, <1>11 DEF u

-----------------------------------------------------------------------------
(* Locations of one word *)

Single == [at : {<<p>> : p \in Part}, gone : BOOLEAN]
Weight(h) == Sizes(h) + 2 * Len(h)

LEMMA SingleIs ==
  ASSUME NEW x \in Single
  PROVE  x \in Place /\ x.at = <<x.at[1]>> /\ x.at[1] \in Part /\ x.gone \in BOOLEAN
<1>1. PICK p \in Part : x.at = <<p>> BY DEF Single
<1>2. x.at \in Seq(Part) /\ x.at[1] = p BY <1>1
<1> QED BY <1>1, <1>2 DEF Single, Place

LEMMA SinglesArePlaces == ASSUME NEW l \in Seq(Single) PROVE l \in Seq(Place)
<1>1. l \in [1..Len(l) -> Place] /\ Len(l) \in Nat BY SingleIs
<1> QED BY <1>1

LEMMA Weights ==
  ASSUME NEW h \in Seq(Part)
  PROVE  /\ Weight(h) \in Nat
         /\ \A p \in Part : Weight(Append(h, p)) = Weight(h) + Size[p] + 2
         /\ ValidateHoldLocation(h) <=> Weight(h) <= Width + 2
<1> DEFINE w == Sizes(h)
<1>1. ASSUME NEW p \in Part
      PROVE  /\ w \in Nat /\ Sizes(<<>>) = 0 /\ Sizes(Append(h, p)) = w + Size[p]
             /\ Len(Append(h, p)) = Len(h) + 1 /\ Size[p] \in Nat
  BY SizesAppend, AppendProperties, NameAssumption
<1>2. w \in Nat /\ Sizes(<<>>) = 0
  <2>1. CASE h = <<>>
    <3>1. Sizes(<<>>) = 0
      <4>1. <<>> \in Seq(Part) /\ Len(<<>>) = 0 /\ 1..0 = {} OBVIOUS
      <4> QED BY <4>1, SizesSteps
    <3> QED BY <2>1, <3>1
  <2>2. CASE h # <<>>
    <3>1. PICK p \in Part : TRUE BY <2>2, SequenceEmptyOrAppend
    <3> QED BY <1>1, <3>1
  <2> QED BY <2>1, <2>2
<1>3. Len(h) \in Nat /\ (h = <<>> <=> Len(h) = 0) BY EmptySeq
<1> HIDE DEF w
<1>4. Weight(h) = w + 2 * Len(h) BY DEF Weight, w
<1>5. ASSUME NEW p \in Part PROVE Weight(Append(h, p)) = Weight(h) + Size[p] + 2
  <2>1. Weight(Append(h, p)) = (w + Size[p]) + 2 * (Len(h) + 1) BY <1>1 DEF Weight
  <2> QED BY <1>1, <1>3, <1>4, <2>1
<1>6. h # <<>> => Joined(h) = Weight(h) - 2
  <2>1. Joined(h) = w + 2 * (Len(h) - 1) BY DEF Joined, w
  <2> QED BY <1>2, <1>3, <1>4, <2>1
<1>7. h = <<>> => Weight(h) = 0 BY <1>2, <1>3, <1>4 DEF w
<1>8. Weight(h) \in Nat BY <1>2, <1>3, <1>4
<1>9. ValidateHoldLocation(h) <=> Weight(h) <= Width + 2
  <2>1. CASE h = <<>> BY <1>7, <2>1, WidthAssumption DEF ValidateHoldLocation
  <2>2. CASE h # <<>> BY <1>6, <1>8, <2>2, WidthAssumption DEF ValidateHoldLocation
  <2> QED BY <2>1, <2>2
<1> QED BY <1>5, <1>8, <1>9

LEMMA SinglesUpdate ==
  ASSUME NEW locs \in Seq(Single)
  PROVE  HoldLocationUpdate(locs) = [i \in 1..Len(locs) |-> locs[i].at[1]]
<1> DEFINE U == {l \in Seq(Single) : HoldLocationUpdate(l) = [i \in 1..Len(l) |-> l[i].at[1]]}
<1>1. <<>> \in U
  <2>1. <<>> \in Seq(Place) /\ <<>> \in Seq(Single) /\ Len(<<>>) = 0 /\ 1..0 = {} OBVIOUS
  <2>2. HoldLocationUpdate(<<>>) = <<>> BY <2>1, HoldLocationUpdateSteps
  <2>3. <<>> = [i \in 1..0 |-> <<>>[i].at[1]] BY <2>1
  <2>4. HoldLocationUpdate(<<>>) = [i \in 1..Len(<<>>) |-> <<>>[i].at[1]] BY <2>1, <2>2, <2>3
  <2> QED BY <2>1, <2>4
<1>2. ASSUME NEW l \in Seq(Single), NEW x \in Single, l \in U PROVE Append(l, x) \in U
  <2> DEFINE m == Append(l, x)
             u == HoldLocationUpdate(l)
             n == Len(l)
  <2>1. /\ m \in Seq(Single) /\ Len(m) = n + 1 /\ n \in Nat /\ m[n + 1] = x
        /\ \A i \in 1..n : m[i] = l[i]
    BY AppendProperties
  <2>2. x \in Place /\ x.at = <<x.at[1]>> /\ x.at[1] \in Part BY SingleIs
  <2>3. l \in Seq(Place) BY SinglesArePlaces
  <2>4. u \in Seq(Part) /\ HoldLocationUpdate(m) = u \o x.at
    BY <2>2, <2>3, HoldLocationUpdateAppend
  <2>5. u = [i \in 1..n |-> l[i].at[1]] BY <1>2
  <2>6. u \o <<x.at[1]>> = Append(u, x.at[1]) BY <2>2, <2>4, AppendIsConcat
  <2> DEFINE k == Append(u, x.at[1])
  <2>7. HoldLocationUpdate(m) = k BY <2>2, <2>4, <2>6
  <2>8. Len(u) = n BY <2>1, <2>5
  <2> HIDE DEF m, u, n
  <2>9. /\ k \in Seq(Part) /\ Len(k) = n + 1 /\ k[n + 1] = x.at[1]
        /\ \A i \in 1..n : k[i] = u[i]
    BY <2>2, <2>4, <2>8, AppendProperties
  <2> HIDE DEF k
  <2>10. k = [i \in 1..(n + 1) |-> k[i]] BY <2>1, <2>9
  <2>11. \A i \in 1..(n + 1) : k[i] = m[i].at[1]
    <3> SUFFICES ASSUME NEW i \in 1..(n + 1) PROVE k[i] = m[i].at[1] OBVIOUS
    <3>1. i \in 1..n \/ i = n + 1 BY <2>1
    <3> QED BY <2>1, <2>5, <2>9, <3>1
  <2>12. k = [i \in 1..Len(m) |-> m[i].at[1]] BY <2>1, <2>10, <2>11
  <2> QED BY <2>1, <2>7, <2>12 DEF m
<1> HIDE DEF U
<1>3. \A l \in Seq(Single) : l \in U BY <1>1, <1>2, SeqsByInduction
<1> QED BY <1>3 DEF U

LEMMA UpdateIs ==
  ASSUME NEW l \in Seq(Single)
  PROVE  HoldLocationUpdate(l) \in Seq(Part) /\ Len(HoldLocationUpdate(l)) = Len(l)
<1>1. \A i \in 1..Len(l) : l[i].at[1] \in Part BY SingleIs
<1>2. HoldLocationUpdate(l) = [i \in 1..Len(l) |-> l[i].at[1]] BY SinglesUpdate
<1> QED BY <1>1, <1>2

LEMMA ListOf ==
  ASSUME NEW h \in Seq(Part)
  PROVE  /\ HoldLocationList(h) \in Seq(Single) /\ Len(HoldLocationList(h)) = Len(h)
         /\ HoldLocationUpdate(HoldLocationList(h)) = h
<1> DEFINE l == HoldLocationList(h)
<1>1. Len(h) \in Nat /\ DOMAIN h = 1..Len(h) /\ h = [i \in 1..Len(h) |-> h[i]] OBVIOUS
<1>2. l = [i \in 1..Len(h) |-> [at |-> <<h[i]>>, gone |-> FALSE]] BY <1>1 DEF HoldLocationList
<1>3. \A i \in 1..Len(h) : [at |-> <<h[i]>>, gone |-> FALSE] \in Single BY DEF Single
<1>4. l \in Seq(Single) /\ Len(l) = Len(h) BY <1>1, <1>2, <1>3
<1>5. \A i \in 1..Len(h) : l[i].at[1] = h[i] BY <1>2
<1> HIDE DEF l
<1>6. HoldLocationUpdate(l) = [i \in 1..Len(h) |-> l[i].at[1]] BY <1>4, SinglesUpdate
<1>7. HoldLocationUpdate(l) = h BY <1>1, <1>5, <1>6
<1> QED BY <1>4, <1>7 DEF l

\* Leaving locations out makes no more of them.
LEMMA DeletedWeighsLess ==
  ASSUME NEW locs \in Seq(Single)
  PROVE  /\ DeleteLocation(locs) \in Seq(Single)
         /\ Weight(HoldLocationUpdate(DeleteLocation(locs))) <= Weight(HoldLocationUpdate(locs))
<1> DEFINE Fits(l) == /\ DeleteLocation(l) \in Seq(Single)
                      /\ Weight(HoldLocationUpdate(DeleteLocation(l)))
                           <= Weight(HoldLocationUpdate(l))
           U == {l \in Seq(Single) : Fits(l)}
<1>1. <<>> \in U
  <2>1. <<>> \in Seq(Place) /\ <<>> \in Seq(Single) /\ Len(<<>>) = 0 /\ 1..0 = {} OBVIOUS
  <2>2. DeleteLocation(<<>>) = <<>> BY <2>1, DeleteLocationSteps
  <2>3. Weight(HoldLocationUpdate(<<>>)) \in Nat BY <2>1, UpdateIs, Weights
  <2>4. Weight(HoldLocationUpdate(<<>>)) <= Weight(HoldLocationUpdate(<<>>)) BY <2>3
  <2>5. DeleteLocation(<<>>) \in Seq(Single) BY <2>1, <2>2
  <2>6. Fits(<<>>) BY <2>2, <2>4, <2>5
  <2> QED BY <2>1, <2>6
<1>2. ASSUME NEW l \in Seq(Single), NEW x \in Single, l \in U PROVE Append(l, x) \in U
  <2> DEFINE m == Append(l, x)
             p == x.at[1]
             d == DeleteLocation(l)
  <2>1. m \in Seq(Single) BY AppendProperties
  <2>2. x \in Place /\ x.at = <<p>> /\ p \in Part /\ x.gone \in BOOLEAN /\ Size[p] \in Nat
    BY SingleIs, NameAssumption
  <2>3. DeleteLocation(m) = IF x.gone THEN d ELSE Append(d, x)
    BY <2>2, SinglesArePlaces, DeleteLocationAppend
  <2>4. d \in Seq(Single) /\ Weight(HoldLocationUpdate(d)) <= Weight(HoldLocationUpdate(l))
    BY <1>2
  <2> HIDE DEF d, m, U
  <2>5. ASSUME NEW k \in Seq(Single)
        PROVE  /\ Weight(HoldLocationUpdate(k)) \in Nat
               /\ Weight(HoldLocationUpdate(Append(k, x)))
                    = Weight(HoldLocationUpdate(k)) + Size[p] + 2
    <3> DEFINE u == HoldLocationUpdate(k)
    <3>1. u \in Seq(Part) BY UpdateIs
    <3>2. HoldLocationUpdate(Append(k, x)) = u \o x.at
      BY <2>2, SinglesArePlaces, HoldLocationUpdateAppend
    <3> HIDE DEF u
    <3>3. u \o <<p>> = Append(u, p) BY <2>2, <3>1, AppendIsConcat
    <3>4. Weight(u) \in Nat /\ Weight(Append(u, p)) = Weight(u) + Size[p] + 2
      BY <2>2, <3>1, Weights
    <3> QED BY <2>2, <3>2, <3>3, <3>4 DEF u
  <2>6. Weight(HoldLocationUpdate(m)) = Weight(HoldLocationUpdate(l)) + Size[p] + 2
    BY <2>5 DEF m
  <2>7. /\ Weight(HoldLocationUpdate(d)) \in Nat /\ Weight(HoldLocationUpdate(l)) \in Nat
        /\ Weight(HoldLocationUpdate(Append(d, x)))
             = Weight(HoldLocationUpdate(d)) + Size[p] + 2
    BY <2>4, <2>5
  <2>8. Append(d, x) \in Seq(Single) BY <2>4, AppendProperties
  <2>9. Fits(m)
    <3>1. CASE x.gone
      <4>1. DeleteLocation(m) = d BY <2>3, <3>1
      <4> QED BY <2>2, <2>4, <2>6, <2>7, <4>1
    <3>2. CASE ~x.gone
      <4>1. DeleteLocation(m) = Append(d, x) BY <2>3, <3>2
      <4> QED BY <2>2, <2>4, <2>6, <2>7, <2>8, <4>1
    <3> QED BY <3>1, <3>2
  <2> QED BY <2>1, <2>9 DEF m, U
<1> HIDE DEF U, Fits
<1>3. \A l \in Seq(Single) : l \in U BY <1>1, <1>2, SeqsByInduction
<1> QED BY <1>3 DEF U, Fits

LEMMA Emptied ==
  ASSUME NEW x \in Place
  PROVE  /\ HoldLocationUpdate(<<x>>) = x.at
         /\ x.gone => HoldLocationUpdate(DeleteLocation(<<x>>)) = <<>>
<1>1. <<>> \in Seq(Place) /\ Append(<<>>, x) = <<x>> OBVIOUS
<1>2. HoldLocationUpdate(<<>>) = <<>> /\ HoldLocationUpdate(<<x>>) = <<>> \o x.at
  BY <1>1, HoldLocationUpdateAppend
<1>3. DeleteLocation(<<>>) = <<>>
      /\ DeleteLocation(<<x>>) = IF x.gone THEN <<>> ELSE Append(<<>>, x)
  BY <1>1, DeleteLocationAppend
<1>4. x.at \in Seq(Part) BY DEF Place
<1>5. <<>> \o x.at = x.at BY <1>4, ConcatEmptySeq
<1> QED BY <1>2, <1>3, <1>5

-----------------------------------------------------------------------------
(* One location for a shipment *)

\* What is stored or listed fits, and is one location unless more were entered.
Fits(h, more) == h \in Seq(Part) /\ Weight(h) <= Width + 2 /\ (~more => Len(h) <= 1)
HoldsFit == hold \in [1..N -> Seq(Part)] /\ \A s \in 1..N : Fits(hold[s], doubled)
SavesFit == \A m \in net : m.msg \in {"save", "saved"} => Fits(m.hold, doubled)
ListFits(l, open, more) ==
  /\ l \in Seq(Single) /\ Fits(HoldLocationUpdate(l), more)
  /\ open \in BOOLEAN /\ (open => ~EntryDisabled(l))
ListsFit == /\ DOMAIN list = User /\ DOMAIN entry = User
            /\ \A u \in User : ListFits(list[u], entry[u], doubled)
LocationsFit == HoldsFit /\ SavesFit /\ ListsFit

LEMMA NoneLeft == ASSUME NEW S, NEW s \in Seq(S), Len(s) <= 1, Len(s) # 1 PROVE s = <<>>
<1>1. Len(s) \in Nat /\ \A n \in Nat : n <= 1 /\ n # 1 => n = 0 OBVIOUS
<1>2. Len(s) = 0 BY <1>1
<1> QED BY <1>2, EmptySeq

LEMMA NothingStored ==
  HoldLocationUpdate(<<>>) = <<>> /\ Sizes(<<>>) = 0 /\ Weight(<<>>) = 0
<1>1. /\ <<>> \in Seq(Part) /\ <<>> \in Seq(Place) /\ Len(<<>>) = 0 /\ 1..0 = {} OBVIOUS
<1>2. HoldLocationUpdate(<<>>) = <<>> BY <1>1, HoldLocationUpdateSteps
<1>3. Sizes(<<>>) = 0 BY <1>1, SizesSteps
<1>4. Weight(<<>>) = 0 BY <1>1, <1>3 DEF Weight
<1> QED BY <1>2, <1>3, <1>4

LEMMA NoLocationFits == ASSUME NEW more PROVE Fits(<<>>, more) /\ ListFits(<<>>, FALSE, more)
<1>1. <<>> \in Seq(Part) /\ <<>> \in Seq(Single) /\ <<>> \in Seq(Place) /\ Len(<<>>) = 0 OBVIOUS
<1>2. HoldLocationUpdate(<<>>) = <<>> /\ Weight(<<>>) = 0 BY NothingStored
<1>3. Weight(<<>>) <= Width + 2 BY <1>2, WidthAssumption
<1>4. Fits(<<>>, more) BY <1>1, <1>3 DEF Fits
<1> QED BY <1>1, <1>2, <1>4 DEF ListFits

\* A list that is read fits, with the box open only when there is nothing in it.
LEMMA ReadFits ==
  ASSUME NEW h, NEW more, Fits(h, more)
  PROVE  /\ ListFits(HoldLocationList(h), ~EntryDisabled(HoldLocationList(h)), more)
         /\ \A open \in BOOLEAN : ListFits(HoldLocationList(h), open /\ h = <<>>, more)
<1> DEFINE l == HoldLocationList(h)
<1>1. l \in Seq(Single) /\ Len(l) = Len(h) /\ HoldLocationUpdate(l) = h BY ListOf DEF Fits
<1>2. h = <<>> => ~EntryDisabled(l)
  <2>1. h = <<>> => Len(l) = 0 BY <1>1
  <2> QED BY <2>1 DEF EntryDisabled
<1> HIDE DEF l
<1>3. ListFits(l, ~EntryDisabled(l), more) BY <1>1 DEF ListFits
<1>4. \A open \in BOOLEAN : ListFits(l, open /\ h = <<>>, more) BY <1>1, <1>2 DEF ListFits
<1> QED BY <1>3, <1>4 DEF l

\* Adding: with the box open, and nothing being deleted, the list is empty.
LEMMA AddFits ==
  ASSUME ListsFit, RestOK, NEW u \in User, NEW name \in Name, AddHoldLocation(u, name)
  PROVE  LET places == HoldLocationUpdate(AppendLocation(list[u], name)) IN
         Fits(places, doubled') /\ net' = net \cup {SaveCall(u, On(u), places)}
<1> DEFINE l == list[u]
           new == [at |-> name, gone |-> FALSE]
           places == HoldLocationUpdate(Append(l, new))
<1>1. /\ ValidateHoldLocation(places) /\ net' = net \cup {SaveCall(u, On(u), places)} /\ entry[u]
      /\ doubled' = (doubled \/ Len(name) > 1 \/ \E i \in DOMAIN l : l[i].gone)
  BY DEF AddHoldLocation, AppendLocation, Send
<1>2. /\ l \in Seq(Single) /\ l \in Seq(Place) /\ ~EntryDisabled(l)
      /\ ~doubled => Len(HoldLocationUpdate(l)) <= 1
  BY <1>1, SinglesArePlaces DEF ListsFit, ListFits, Fits
<1>3. name \in Seq(Part) /\ new \in Place BY NameAssumption DEF Place
<1>4. places = HoldLocationUpdate(l) \o name /\ HoldLocationUpdate(l) \in Seq(Part)
  BY <1>2, <1>3, HoldLocationUpdateAppend
<1>5. places \in Seq(Part) BY <1>3, <1>4, ConcatProperties
<1>6. Weight(places) <= Width + 2 BY <1>1, <1>5, Weights
<1>7. ASSUME ~doubled' PROVE Len(places) <= 1
  <2>1. ~doubled /\ ~(Len(name) > 1) /\ \A i \in DOMAIN l : ~l[i].gone
    BY <1>1, <1>7, Zenon
  <2>2. Len(l) <= 1 BY <1>2, <2>1, UpdateIs
  <2>3. ~(Len(l) = 1)
    <3>1. Len(l) = 1 => 1 \in DOMAIN l BY <1>2
    <3> QED BY <1>2, <2>1, <3>1 DEF EntryDisabled
  <2>4. l = <<>> BY <1>2, <2>2, <2>3, NoneLeft
  <2>5. HoldLocationUpdate(l) = <<>> BY <2>4, NothingStored
  <2>6. places = name BY <1>3, <1>4, <2>5, ConcatEmptySeq
  <2> QED BY <1>3, <2>1, <2>6
<1> QED BY <1>1, <1>5, <1>6, <1>7 DEF Fits, AppendLocation

\* Deleting: what is left is no more than there was.
LEMMA DeleteFits ==
  ASSUME NEW l, NEW open, NEW more \in BOOLEAN, ListFits(l, open, more), NEW i \in DOMAIN l,
         ~l[i].gone
  PROVE  LET left == [l EXCEPT ![i].gone = TRUE] IN
         /\ ListFits(left, ~EntryDisabled(left), more)
         /\ Fits(HoldLocationUpdate(DeleteLocation(left)), more)
<1> DEFINE left == [l EXCEPT ![i].gone = TRUE]
           k == DeleteLocation(left)
<1>1. l \in Seq(Single) /\ Fits(HoldLocationUpdate(l), more) BY DEF ListFits
<1>2. /\ left \in Seq(Single) /\ Len(left) = Len(l)
      /\ \A j \in 1..Len(l) : left[j].at = l[j].at /\ (j = i => left[j].gone)
  <2>1. /\ DOMAIN l = 1..Len(l) /\ Len(l) \in Nat
        /\ \A j \in 1..Len(l) :
             l[j] \in Single /\ left[j] = IF j = i THEN [l[i] EXCEPT !.gone = TRUE] ELSE l[j]
    BY <1>1
  <2>2. \A x \in Single : [x EXCEPT !.gone = TRUE] \in Single /\ [x EXCEPT !.gone = TRUE].at = x.at
                          /\ [x EXCEPT !.gone = TRUE].gone
    BY DEF Single
  <2>3. left = [j \in 1..Len(l) |-> left[j]] BY <2>1
  <2> HIDE DEF left
  <2>4. \A j \in 1..Len(l) : left[j] \in Single BY <2>1, <2>2
  <2>5. left \in Seq(Single) /\ Len(left) = Len(l) BY <2>1, <2>3, <2>4
  <2>6. \A j \in 1..Len(l) : left[j].at = l[j].at /\ (j = i => left[j].gone) BY <2>1, <2>2
  <2> QED BY <2>5, <2>6
<1> HIDE DEF left
<1>3. HoldLocationUpdate(left) = HoldLocationUpdate(l)
  <2>1. /\ HoldLocationUpdate(left) = [j \in 1..Len(left) |-> left[j].at[1]]
        /\ HoldLocationUpdate(l) = [j \in 1..Len(l) |-> l[j].at[1]]
    BY <1>1, <1>2, SinglesUpdate
  <2> QED BY <1>2, <2>1
<1>4. ListFits(left, ~EntryDisabled(left), more)
  <2>1. Fits(HoldLocationUpdate(left), more) BY <1>1, <1>3
  <2> QED BY <1>2, <2>1, Zenon DEF ListFits
<1>5. /\ k \in Seq(Single) /\ HoldLocationUpdate(k) \in Seq(Part)
      /\ Weight(HoldLocationUpdate(k)) <= Weight(HoldLocationUpdate(left))
  BY <1>2, DeletedWeighsLess, UpdateIs
<1>6. Weight(HoldLocationUpdate(k)) <= Width + 2
  <2>1. HoldLocationUpdate(left) \in Seq(Part) BY <1>2, UpdateIs
  <2>2. Weight(HoldLocationUpdate(k)) \in Nat /\ Weight(HoldLocationUpdate(left)) \in Nat
    BY <1>5, <2>1, Weights
  <2>3. Weight(HoldLocationUpdate(left)) <= Width + 2 BY <1>1, <1>3 DEF Fits
  <2> QED BY <1>5, <2>2, <2>3, WidthAssumption
<1>7. ASSUME ~more PROVE Len(HoldLocationUpdate(k)) <= 1
  <2>1. Len(left) <= 1 BY <1>1, <1>2, <1>7, UpdateIs DEF Fits
  <2>2. Len(left) = 1 /\ left[1].gone
    <3>1. i \in 1..Len(l) /\ Len(l) \in Nat BY <1>1
    <3>2. i = 1 /\ Len(l) = 1 BY <1>2, <2>1, <3>1
    <3> QED BY <1>2, <3>1, <3>2
  <2>3. left = <<left[1]>> /\ left[1] \in Place BY <1>2, <2>2, SingleIs
  <2>4. HoldLocationUpdate(DeleteLocation(<<left[1]>>)) = <<>> BY <2>2, <2>3, Emptied
  <2>5. HoldLocationUpdate(k) = <<>> BY <2>3, <2>4
  <2> QED BY <2>5
<1>8. Fits(HoldLocationUpdate(k), more) BY <1>5, <1>6, <1>7, Zenon DEF Fits
<1> QED BY <1>4, <1>8 DEF left, k

-----------------------------------------------------------------------------
\* Once several are entered it stays so.
LEMMA DoubledStays == Next => (doubled => doubled')
<1>1. ASSUME NEW u \in User, Act(u) PROVE doubled => doubled'
  BY <1>1 DEF Act, OpenDetails, SST_search, OpenPickDetails, PrintButtonCheck, MoveToSort, Leave,
     TaskLinks, OnClick, OpenPickOrPackFlow, DefaultAction, Work, AbandonedCallback, SortButtons, WizardButtons,
     ScanProduct, MoveAhead, HoldButtons, AddHoldLocation, DeleteHoldLocation, ActionConfirm,
     SummaryButtons, AssignToHold, OpenGiftWrap, OpenShipmentDetails, TestRelationship, history
<1>2. ASSUME NEW m \in net, Serve(m) PROVE doubled => doubled'
  BY <1>2 DEF Serve, ServeValidate, ServeTake, ServeScan, ChangeFlagForSort, GetPrintDetails,
              SaveHoldLocation, ChangeShipmentStatus, history
<1>3. ASSUME NEW m \in net, Handle(m) PROVE doubled => doubled'
  BY <1>3 DEF Handle, history
<1> QED BY <1>1, <1>2, <1>3 DEF Next, Abandon, history

LEMMA FitsStays ==
  ASSUME Next
  PROVE  /\ \A h : Fits(h, doubled) => Fits(h, doubled')
         /\ \A l, open : ListFits(l, open, doubled) => ListFits(l, open, doubled')
BY DoubledStays DEF Fits, ListFits

\* The locations that a step stores, asks to store or answers with.
LEMMA SavesStay == ASSUME TypeOK, LocationsFit, Next PROVE SavesFit'
<1> SUFFICES ASSUME NEW m \in net', m.msg \in {"save", "saved"} PROVE Fits(m.hold, doubled')
  BY DEF SavesFit
<1>1. CASE m \in net BY <1>1, FitsStays DEF LocationsFit, SavesFit
<1>2. CASE m \notin net /\ \E u \in User : Act(u)
  <2>1. PICK u \in User : Act(u) BY <1>2
  <2>2. CASE \E name \in Name : AddHoldLocation(u, name)
    <3>1. PICK name \in Name : AddHoldLocation(u, name) BY <2>2
    <3> DEFINE places == HoldLocationUpdate(AppendLocation(list[u], name))
    <3>2. Fits(places, doubled') /\ net' = net \cup {SaveCall(u, On(u), places)}
      BY <3>1, AddFits, TypeIs DEF LocationsFit
    <3> HIDE DEF places
    <3>3. m = SaveCall(u, On(u), places) BY <1>2, <3>2
    <3> QED BY <3>2, <3>3 DEF SaveCall
  <2>3. CASE \E i \in DOMAIN list[u] : DeleteHoldLocation(u, i)
    <3>1. PICK i \in DOMAIN list[u] : DeleteHoldLocation(u, i) BY <2>3
    <3> DEFINE left == [list[u] EXCEPT ![i].gone = TRUE]
    <3>2. /\ list'[u] = left
          /\ net' = net \cup {SaveCall(u, On(u), HoldLocationUpdate(DeleteLocation(list'[u])))}
      BY <3>1 DEF DeleteHoldLocation, Shown, Send, LocationsFit, ListsFit
    <3>3. Fits(HoldLocationUpdate(DeleteLocation(left)), doubled)
      BY <3>1, DeleteFits, TypeIs DEF DeleteHoldLocation, LocationsFit, ListsFit, RestOK
    <3> HIDE DEF left
    <3>4. m = SaveCall(u, On(u), HoldLocationUpdate(DeleteLocation(left))) BY <1>2, <3>2
    <3>5. m.hold = HoldLocationUpdate(DeleteLocation(left)) BY <3>4 DEF SaveCall
    <3> QED BY <3>3, <3>5, FitsStays
  <2>4. CASE ~(\E name \in Name : AddHoldLocation(u, name))
             /\ ~(\E i \in DOMAIN list[u] : DeleteHoldLocation(u, i))
    <3>1. m.msg \in {"drop", "validate", "take", "scan", "print"}
      <4>1. CASE \E s \in 1..N : OpenDetails(u, s) \/ OpenPickDetails(u, s)
        BY <1>2, <4>1 DEF OpenDetails, OpenPickDetails, PrintButtonCheck, DropCall
      <4>2. CASE MoveToSort(u) \/ Leave(u) \/ Work(u) \/ SummaryButtons(u) \/ MoveAhead(u)
        BY <1>2, <4>2 DEF MoveToSort, Leave, Work, SummaryButtons, AssignToHold, OpenGiftWrap, OpenShipmentDetails,
                          MoveAhead, Send, PrintCall
      <4>3. CASE TaskLinks(u)
        BY <1>2, <4>3 DEF TaskLinks, OnClick, OpenPickOrPackFlow, DefaultAction, Send, Validate
      <4>4. CASE \E choice \in Choice : AbandonedCallback(u, choice)
        BY <1>2, <4>4 DEF AbandonedCallback, Send, Validate, TakeCall
      <4>5. CASE \E how \in {"enter", "blur"} : ScanProduct(u, how)
        BY <1>2, <4>5 DEF ScanProduct, Send, ScanCall
      <4>6. CASE ActionConfirm(u) \/ TestRelationship(u)
        BY <1>2, <4>6 DEF ActionConfirm, TestRelationship, Send, DropCall
      <4> QED BY <2>1, <2>4, <4>1, <4>2, <4>3, <4>4, <4>5, <4>6, Zenon
              DEF Act, SortButtons, WizardButtons, HoldButtons
    <3> QED BY <3>1
  <2> QED BY <2>2, <2>3, <2>4
<1>3. CASE m \notin net /\ \E n \in net : Serve(n)
  <2>1. PICK n \in net : n.msg = "save" /\ m.hold = n.hold
    BY <1>3 DEF Serve, ServeValidate, ServeTake, ServeScan, ChangeFlagForSort, GetPrintDetails,
                SaveHoldLocation, ChangeShipmentStatus, Reply, Drop
  <2> QED BY <2>1, FitsStays DEF LocationsFit, SavesFit
<1>4. CASE m \notin net /\ \E n \in net : Handle(n)
  <2>1. PICK n \in net : Handle(n) BY <1>4
  <2>2. \/ Drop(n) \/ \E s : Reply(n, SortCall(n.by, s))
        \/ Reply(n, Validate(n.by, n.on, n.task, "wizard"))
    BY <2>1 DEF Handle, HandleValidationOutput, HandleGetshipmentDetailsAPICall,
                HandleShipDetailsOutput, OpenContainerPackWizard, CombinedAPICallOnNext, HandleSort,
                PrintStatusDone, Ignore, PrintDetails, RepaintHoldLocationList, OpenWizard, OpenPopup, Tell
  <2> QED BY <1>4, <2>2 DEF Drop, Reply, SortCall, Validate
<1> QED BY <1>1, <1>2, <1>3, <1>4 DEF Next, Abandon

LEMMA HoldsStay == ASSUME TypeOK, LocationsFit, Next PROVE HoldsFit'
<1>1. CASE UNCHANGED hold BY <1>1, FitsStays DEF LocationsFit, HoldsFit
<1>2. CASE \E m \in net : SaveHoldLocation(m)
  <2>1. PICK m \in net : m.msg = "save" /\ hold' = [hold EXCEPT ![m.on] = m.hold]
    BY <1>2 DEF SaveHoldLocation
  <2>2. m.on \in 1..N BY <2>1, TypeIs, KindOf DEF NetOK, Carries
  <2>3. Fits(m.hold, doubled') /\ \A s \in 1..N : Fits(hold[s], doubled')
    BY <2>1, FitsStays DEF LocationsFit, SavesFit, HoldsFit
  <2>4. \A s \in 1..N : hold'[s] = IF s = m.on THEN m.hold ELSE hold[s]
    BY <2>1 DEF LocationsFit, HoldsFit
  <2>5. hold' \in [1..N -> Seq(Part)] BY <2>1, <2>3 DEF LocationsFit, HoldsFit, Fits
  <2> QED BY <2>3, <2>4, <2>5 DEF HoldsFit
<1>3. UNCHANGED hold \/ \E m \in net : SaveHoldLocation(m)
  <2>1. ASSUME NEW u \in User, Act(u) PROVE UNCHANGED hold
    BY <2>1 DEF Act, OpenDetails, SST_search, OpenPickDetails, MoveToSort, Leave, TaskLinks,
       OnClick, OpenPickOrPackFlow, DefaultAction, Work, AbandonedCallback, SortButtons, WizardButtons,
       ScanProduct, MoveAhead, HoldButtons, AddHoldLocation, DeleteHoldLocation, ActionConfirm,
       SummaryButtons, AssignToHold, OpenGiftWrap, OpenShipmentDetails, TestRelationship, server
  <2>2. ASSUME NEW m \in net, Serve(m) PROVE UNCHANGED hold \/ SaveHoldLocation(m)
    BY <2>2 DEF Serve, ServeValidate, ServeTake, ServeScan, ChangeFlagForSort, GetPrintDetails,
                ChangeShipmentStatus, server
  <2>3. ASSUME NEW m \in net, Handle(m) PROVE UNCHANGED hold BY <2>3 DEF Handle, server
  <2> QED BY <2>1, <2>2, <2>3 DEF Next, Abandon
<1> QED BY <1>1, <1>2, <1>3

\* One user's list changes, to one that fits, or none does.
LEMMA ListTurns ==
  ASSUME ListsFit, Next, NEW u \in User, NEW l, NEW open, ListFits(l, open, doubled),
         list' = [list EXCEPT ![u] = l], entry' = [entry EXCEPT ![u] = open]
  PROVE  ListsFit'
<1>1. DOMAIN list' = User /\ DOMAIN entry' = User BY DEF ListsFit
<1>2. ASSUME NEW v \in User PROVE ListFits(list'[v], entry'[v], doubled')
  <2>1. list'[v] = (IF v = u THEN l ELSE list[v]) /\ entry'[v] = (IF v = u THEN open ELSE entry[v])
    BY DEF ListsFit
  <2>2. ListFits(list'[v], entry'[v], doubled) BY <2>1 DEF ListsFit
  <2> QED BY <2>2, FitsStays
<1> QED BY <1>1, <1>2 DEF ListsFit

LEMMA ListsStay == ASSUME TypeOK, LocationsFit, Next PROVE ListsFit'
<1>0. ListsFit /\ HoldsFit /\ SavesFit /\ doubled \in BOOLEAN BY TypeIs DEF LocationsFit, RestOK
<1>1. CASE UNCHANGED <<list, entry>> BY <1>0, <1>1, FitsStays DEF ListsFit
<1>2. ASSUME NEW u \in User, Leave(u) PROVE ListsFit'
  <2>1. list' = [list EXCEPT ![u] = <<>>] /\ entry' = [entry EXCEPT ![u] = FALSE]
    BY <1>2 DEF Leave
  <2> QED BY <1>0, <2>1, NoLocationFits, ListTurns
<1>3. ASSUME NEW u \in User, NEW s \in 1..N, NEW page, ShowHold(u, page, s) PROVE ListsFit'
  <2> DEFINE l == HoldLocationList(hold[s])
  <2>1. list' = [list EXCEPT ![u] = l] /\ entry' = [entry EXCEPT ![u] = ~EntryDisabled(l)]
    BY <1>3 DEF ShowHold, Shown
  <2>2. ListFits(l, ~EntryDisabled(l), doubled) BY <1>0, ReadFits DEF HoldsFit
  <2> HIDE DEF l
  <2> QED BY <1>0, <2>1, <2>2, ListTurns
<1>7. ASSUME NEW u \in User, AssignToHold(u) PROVE ListsFit'
  <2>1. On(u) \in 1..N BY <1>7, TypeIs, DeskIs DEF AssignToHold
  <2> QED BY <1>3, <1>7, <2>1 DEF AssignToHold
<1>8. ASSUME NEW m \in net, PrintDetails(m) PROVE ListsFit'
  <2>1. m.by \in User /\ m.on \in 1..N BY <1>8, TypeIs, KindOf DEF NetOK, PrintDetails
  <2> QED BY <1>3, <1>8, <2>1 DEF PrintDetails
<1>4. ASSUME NEW u \in User, NEW i \in DOMAIN list[u], DeleteHoldLocation(u, i) PROVE ListsFit'
  <2> DEFINE left == [list[u] EXCEPT ![i].gone = TRUE]
  <2>1. list' = [list EXCEPT ![u] = left] /\ ~list[u][i].gone
    BY <1>4 DEF DeleteHoldLocation, Shown
  <2>2. list'[u] = left BY <1>0, <2>1 DEF ListsFit
  <2>3. entry' = [entry EXCEPT ![u] = ~EntryDisabled(left)] BY <1>4, <2>2 DEF DeleteHoldLocation
  <2>4. ListFits(left, ~EntryDisabled(left), doubled) BY <1>0, <2>1, DeleteFits DEF ListsFit
  <2> HIDE DEF left
  <2> QED BY <1>0, <2>1, <2>3, <2>4, ListTurns
<1>5. ASSUME NEW m \in net, RepaintHoldLocationList(m) PROVE ListsFit'
  <2> DEFINE l == HoldLocationList(m.hold)
             open == entry[m.by] /\ m.hold = <<>>
  <2>1. m.by \in User /\ m.msg = "saved" BY <1>5, TypeIs, KindOf DEF NetOK, RepaintHoldLocationList
  <2>2. list' = [list EXCEPT ![m.by] = l] /\ entry' = [entry EXCEPT ![m.by] = open]
    BY <1>5 DEF RepaintHoldLocationList, Shown
  <2>3. ListFits(l, open, doubled) BY <1>0, <2>1, ReadFits DEF ListsFit, ListFits, SavesFit
  <2> HIDE DEF l, open
  <2> QED BY <1>0, <2>1, <2>2, <2>3, ListTurns
<1>6. \/ UNCHANGED <<list, entry>>
      \/ \E u \in User : Leave(u) \/ AssignToHold(u)
                          \/ \E i \in DOMAIN list[u] : DeleteHoldLocation(u, i)
      \/ \E m \in net : PrintDetails(m) \/ RepaintHoldLocationList(m)
  <2>1. ASSUME NEW u \in User, Act(u)
        PROVE  \/ UNCHANGED <<list, entry>> \/ Leave(u) \/ AssignToHold(u)
               \/ \E i \in DOMAIN list[u] : DeleteHoldLocation(u, i)
    BY <2>1 DEF Act, OpenDetails, SST_search, OpenPickDetails, MoveToSort, TaskLinks,
       OnClick, OpenPickOrPackFlow, DefaultAction, Work, AbandonedCallback, SortButtons, WizardButtons,
       ScanProduct, MoveAhead, HoldButtons, AddHoldLocation, ActionConfirm,
       SummaryButtons, OpenGiftWrap, OpenShipmentDetails, TestRelationship, device
  <2>2. ASSUME NEW m \in net, Serve(m) PROVE UNCHANGED <<list, entry>>
    BY <2>2 DEF Serve, device
  <2>3. ASSUME NEW m \in net, Handle(m)
        PROVE UNCHANGED <<list, entry>> \/ PrintDetails(m) \/ RepaintHoldLocationList(m)
    BY <2>3 DEF Handle
  <2> QED BY <2>1, <2>2, <2>3 DEF Next, Abandon, device
<1> QED BY <1>1, <1>2, <1>4, <1>5, <1>6, <1>7, <1>8

\* A shipment has one hold location until several are entered, and what is stored
\* fits: on every device a box for a location is open only beside an empty list or
\* one that is being emptied.
THEOREM OneLocationHolds == Spec => []OneLocation
<1>1. Init => LocationsFit
  <2> SUFFICES ASSUME Init PROVE LocationsFit OBVIOUS
  <2>1. Fits(<<>>, doubled) /\ ListFits(<<>>, FALSE, doubled) BY NoLocationFits
  <2> QED BY <2>1 DEF Init, LocationsFit, HoldsFit, SavesFit, ListsFit, Fits
<1>2. TypeOK /\ LocationsFit /\ [Next]_vars => LocationsFit'
  <2>1. ASSUME LocationsFit, UNCHANGED vars PROVE LocationsFit'
    BY <2>1 DEF vars, server, device, history, LocationsFit, HoldsFit, SavesFit, ListsFit
  <2>2. ASSUME TypeOK, LocationsFit, Next PROVE LocationsFit'
    BY <2>2, HoldsStay, SavesStay, ListsStay DEF LocationsFit
  <2> QED BY <2>1, <2>2
<1>3. LocationsFit => OneLocation
  BY Weights DEF LocationsFit, HoldsFit, Fits, OneLocation
<1> QED BY <1>1, <1>2, <1>3, TypesHold, PTL DEF Spec
=============================================================================
