--------------------------- MODULE SortScanProofs ---------------------------
(***************************************************************************)
(* For every shipment, every number of outstanding calls and every order   *)
(* of calls and answers: the sort screen keeps its types, no unit of a     *)
(* line is lost or made up, what the server records is PickLedger, and     *)
(* what the screen says of its lines and of a picked shipment is true.     *)
(*                                                                         *)
(* TypeOK /\ Conserved is inductive: what is sent comes from a panel, what *)
(* is answered from the server's lines, and what is shown from an answer.  *)
(* IInv says the same of the lines, the calls, the panels and the rest     *)
(* separately, so that a step is proved for the parts it disturbs.         *)
(*                                                                         *)
(* From TInv on: only a line's quantity can undo what is picked            *)
(* completely.  An answer that all is picked therefore stays true while it *)
(* is on its way, since no quantity is sent past it (Alone), and what the  *)
(* screen concludes from it stays true until the next quantity is sent,    *)
(* which takes it back (Told).  A panel differs from its line only while   *)
(* there is a reason on its way (Synced).                                  *)
(***************************************************************************)
EXTENDS SortScan, SequenceTheorems, TLAPS

OrderOK == /\ order \in [Line -> OrderLine]
           /\ \A l \in Line : Whole(l, order[l]) /\ order[l].picked <= Ordered[l]

GoodCall(c) ==
  /\ c.kind \in OfOneLine => c.line \in Line
  /\ \A l \in Line :
       /\ c.kind = "MarkLineAsShortage" /\ c.line = l => Whole(l, c)
       /\ c.reply # None /\ c.reply.lines[l] # None =>
            Whole(l, c.reply.lines[l]) /\ c.reply.lines[l].picked <= Ordered[l]
GoodAsk(c) == c \in Call /\ c.reply = None /\ GoodCall(c)
CallsOK == /\ call \in [Slot -> Call \cup {None}]
           /\ \A s \in Slot : call[s] # None => GoodCall(call[s])

GoodPanel(l, p) == Whole(l, p) /\ p.shown <= Ordered[l]
PanelsOK == /\ panel \in [Tab -> [Line -> Panel \cup {None}]]
            /\ \A t \in Tab, l \in Line : panel[t][l] # None => GoodPanel(l, panel[t][l])

ViewOK == /\ tab \in Tab /\ painted \in BOOLEAN /\ listed \subseteq Tab
          /\ blind \in BOOLEAN /\ saved \in BOOLEAN
RestOK == /\ status \in {"picking", "picked"} /\ box \in Seq(Box)
          /\ page \in Page /\ acts \in 0..MaxActs

IInv == OrderOK /\ CallsOK /\ PanelsOK /\ ViewOK /\ RestOK

-----------------------------------------------------------------------------
\* IInv is the type invariant with conservation.
LEMMA IInvIs == IInv <=> TypeOK /\ Conserved
BY DEF IInv, OrderOK, CallsOK, PanelsOK, ViewOK, RestOK, TypeOK, Conserved, GoodCall,
       GoodPanel, Free, LinesOf

\* Boxes are opened on top and closed from the top (showConfirmMessageBox).
LEMMA BoxTypes ==
  ASSUME RestOK
  PROVE  /\ \A b, l : [name |-> b, line |-> l] \in Box /\ Open(b, l) => box' \in Seq(Box)
         /\ \A b : Top(b) => Head(box) \in Box /\ Head(box).name = b
         /\ Close /\ box # <<>> => box' \in Seq(Box)
<1>1. ASSUME NEW r \in Box PROVE <<r>> \o box \in Seq(Box)
  <2>1. <<r>> \in Seq(Box) OBVIOUS
  <2> QED BY <2>1, ConcatProperties DEF RestOK
<1>2. box # <<>> => Head(box) \in Box /\ Tail(box) \in Seq(Box)
  BY HeadTailProperties DEF RestOK
<1> QED BY <1>1, <1>2 DEF Open, Top, Close

\* A call that is well formed when it is sent joins the calls on their way.
LEMMA SendKeeps ==
  ASSUME CallsOK, ViewOK, NEW c, GoodAsk(c), Send(c)
  PROVE  CallsOK' /\ blind' \in BOOLEAN
<1>1. blind' \in BOOLEAN BY DEF Send
<1>2. PICK s \in Slot : call' = [call EXCEPT ![s] = c] BY DEF Send
<1>3. call' \in [Slot -> Call \cup {None}] BY <1>2 DEF CallsOK, GoodAsk
<1>4. \A k \in Slot : call'[k] # None => GoodCall(call'[k]) BY <1>2 DEF CallsOK, GoodAsk
<1>5. CallsOK' BY <1>3, <1>4 DEF CallsOK, GoodCall, Whole
<1> QED BY <1>1, <1>5

\* Calls about the whole shipment, scans, loads and counts are well formed.
LEMMA AsksAreGood ==
  /\ \A kind \in Kind \ OfOneLine : GoodAsk(Ask(kind))
  /\ \A l \in Line \cup {None} : GoodAsk(AskLine("scan", l))
  /\ \A t \in Tab : GoodAsk([Ask("load") EXCEPT !.list = t])
  /\ \A l \in Line : GoodAsk(AskLine("PickAllLine", l))
  /\ \A l \in Line, v \in Nat, plus \in BOOLEAN : GoodAsk(PickLine(l, v, plus))
<1> USE DEF GoodAsk, GoodCall, Ask, Call, OfOneLine, Kind
<1>1. ASSUME NEW kind \in Kind \ OfOneLine PROVE GoodAsk(Ask(kind)) BY <1>1
<1>2. ASSUME NEW l \in Line \cup {None} PROVE GoodAsk(AskLine("scan", l)) BY <1>2 DEF AskLine
<1>3. ASSUME NEW t \in Tab PROVE GoodAsk([Ask("load") EXCEPT !.list = t])
  BY <1>3 DEF Tab
<1>4. ASSUME NEW l \in Line PROVE GoodAsk(AskLine("PickAllLine", l)) BY <1>4 DEF AskLine
<1>5. ASSUME NEW l \in Line, NEW v \in Nat, NEW plus \in BOOLEAN
      PROVE  GoodAsk(PickLine(l, v, plus))
  BY <1>5 DEF AskLine, PickLine
<1> QED BY <1>1, <1>2, <1>3, <1>4, <1>5

\* A shortage takes from the panel exactly what was ordered.
LEMMA ShortageIsGood ==
  ASSUME NEW l \in Line, NEW p \in Panel, GoodPanel(l, p)
  PROVE  GoodAsk(ShortageChange(l, p))
<1>1. Ordered[l] \in Nat BY LineAssumption
<1>2. p.shown \in Nat /\ (p.qty - p.shown) + p.short \in Nat
      /\ p.shown + ((p.qty - p.shown) + p.short) = Ordered[l]
  BY <1>1 DEF Panel, GoodPanel, Whole
<1> QED BY <1>2 DEF GoodAsk, ShortageChange, AskLine, Ask, Call, GoodCall, OfOneLine, Kind, Whole

\* Changing the view sends at most a load.
LEMMA ChangeKeeps ==
  ASSUME CallsOK, ViewOK, NEW t \in Tab, ChangeTo(t), saved' = saved
  PROVE  CallsOK' /\ ViewOK'
<1>1. tab' \in Tab /\ painted' \in BOOLEAN /\ listed' \subseteq Tab
  BY DEF ChangeTo, Show, ViewOK
<1>2. CASE LoadOf(t) = None
  <2>1. UNCHANGED <<call, blind>> BY <1>2 DEF ChangeTo
  <2> QED BY <1>1, <2>1 DEF CallsOK, GoodCall, Whole, ViewOK
<1>3. CASE LoadOf(t) # None
  <2>1. Send(LoadOf(t)) BY <1>3 DEF ChangeTo
  <2>2. LoadOf(t) = [Ask("load") EXCEPT !.list = t] BY <1>3 DEF LoadOf
  <2>3. GoodAsk(LoadOf(t))
    BY <2>2, AsksAreGood
  <2>4. CallsOK' /\ blind' \in BOOLEAN BY <2>1, <2>3, SendKeeps
  <2> QED BY <1>1, <2>4 DEF ViewOK
<1> QED BY <1>2, <1>3

-----------------------------------------------------------------------------
\* What a step leaves alone stays right, part by part.
LEMMA Frame ==
  ASSUME IInv
  PROVE  /\ UNCHANGED order => OrderOK'
         /\ UNCHANGED call => CallsOK'
         /\ UNCHANGED panel => PanelsOK'
         /\ UNCHANGED <<tab, painted, listed>> /\ blind' \in BOOLEAN /\ saved' \in BOOLEAN
              => ViewOK'
         /\ UNCHANGED status /\ box' \in Seq(Box) /\ acts' \in 0..MaxActs /\ page' \in Page
              => RestOK'
<1>1. UNCHANGED order => OrderOK' BY DEF IInv, OrderOK, Whole
<1>2. UNCHANGED call => CallsOK'
  <2> SUFFICES ASSUME CallsOK, UNCHANGED call PROVE CallsOK' BY DEF IInv
  <2> QED BY DEF CallsOK, GoodCall, Whole
<1>3. UNCHANGED panel => PanelsOK' BY DEF IInv, PanelsOK, GoodPanel, Whole
<1>4. UNCHANGED <<tab, painted, listed>> /\ blind' \in BOOLEAN /\ saved' \in BOOLEAN => ViewOK'
  BY DEF IInv, ViewOK
<1>5. UNCHANGED status /\ box' \in Seq(Box) /\ acts' \in 0..MaxActs /\ page' \in Page => RestOK'
  BY DEF IInv, RestOK
<1> QED BY <1>1, <1>2, <1>3, <1>4, <1>5

\* The user's count stays in its bound.
LEMMA ActsCount == ASSUME IInv, UserActs PROVE acts' \in 0..MaxActs
BY BoundAssumption DEF IInv, RestOK, UserActs

\* When the screen is opened: the lines are whole and nothing was answered yet.
LEMMA InitOK == Init => IInv
<1> SUFFICES ASSUME Init PROVE IInv OBVIOUS
<1>1. PICK lines \in Openings : order = lines BY DEF Init
<1>2. OrderOK
  <2>1. \A l \in Line : order[l].qty \in Nat /\ order[l].picked \in Nat /\ order[l].short \in Nat
    BY <1>1, OpeningAssumption DEF OrderLine
  <2> QED BY <1>1, <2>1, OpeningAssumption, LineAssumption DEF OrderOK, Whole, OrderLine
<1>3. CallsOK
  <2>1. LoadOf("shortItems") = [Ask("load") EXCEPT !.list = "shortItems"]
    BY DEF LoadOf, ShowsUnloaded
  <2>2. GoodAsk(LoadOf("shortItems")) BY <2>1, AsksAreGood DEF Tab
  <2> QED BY <2>2 DEF Init, CallsOK, GoodAsk
<1>4. PanelsOK
  <2>1. \A l \in Line : PanelOf(order[l]) \in Panel /\ GoodPanel(l, PanelOf(order[l]))
    BY <1>2 DEF OrderOK, OrderLine, PanelOf, Panel, GoodPanel, Whole
  <2> QED BY <2>1 DEF Init, PanelsOK
<1>5. ViewOK BY DEF Init, ViewOK, Tab
<1>6. RestOK
  <2>1. <<>> \in Seq(Box) BY EmptySeq
  <2> QED BY <2>1, BoundAssumption DEF Init, RestOK, Page
<1> QED BY <1>2, <1>3, <1>4, <1>5, <1>6 DEF IInv

-----------------------------------------------------------------------------
(* What the user does *)

\* A call about the whole shipment that leaves everything else alone.
LEMMA OnlySends ==
  ASSUME IInv, UserActs, NEW c, GoodAsk(c), Send(c), UNCHANGED <<server, screen, listed>>
  PROVE  IInv'
<1>1. CallsOK' /\ blind' \in BOOLEAN BY SendKeeps DEF IInv
<1> QED BY <1>1, Frame, ActsCount DEF IInv, ViewOK, RestOK, server, screen

\* A box opened or closed without asking the server for anything.
LEMMA OnlyBox ==
  ASSUME IInv, UserActs, box' \in Seq(Box),
         UNCHANGED <<server, call, panel, tab, painted, saved, listed, blind>>,
         page' \in Page
  PROVE  IInv'
BY Frame, ActsCount DEF IInv, ViewOK, server

\* Typing and editing disturb the text of one panel only.
LEMMA TypedKeeps ==
  ASSUME PanelsOK, NEW t \in Tab, NEW l \in Line, NEW v \in Nat \cup {None},
         panel[t][l] # None, panel' = [panel EXCEPT ![t][l].typed = v]
  PROVE  PanelsOK'
<1>1. [panel[t][l] EXCEPT !.typed = v] \in Panel /\ GoodPanel(l, [panel[t][l] EXCEPT !.typed = v])
  BY DEF PanelsOK, Panel, GoodPanel, Whole
<1>2. panel' \in [Tab -> [Line -> Panel \cup {None}]] BY <1>1 DEF PanelsOK
<1>3. \A u \in Tab, k \in Line : panel'[u][k] = IF u = t /\ k = l
        THEN [panel[t][l] EXCEPT !.typed = v] ELSE panel[u][k]
  BY DEF PanelsOK
<1> QED BY <1>1, <1>2, <1>3 DEF PanelsOK, GoodPanel, Whole

\* Every change a user makes is well formed, from whichever list it is sent.
LEMMA UserKeeps == ASSUME IInv, User PROVE IInv'
<1> USE DEF UserEnds, UserWorks
<1>a. CallsOK /\ PanelsOK /\ ViewOK /\ RestOK /\ OrderOK BY DEF IInv
<1>b. box \in Seq(Box) /\ page \in Page /\ saved \in BOOLEAN BY <1>a DEF RestOK, ViewOK
<1>1. ASSUME NEW b \in Line \cup {None}, Scan(b) PROVE IInv'
  BY <1>1, AsksAreGood, OnlySends DEF Scan
<1>2. CASE ScanBlank
  <2>1. [name |-> "error", line |-> None] \in Box BY DEF Box
  <2> QED BY <1>2, <1>a, <1>b, <2>1, BoxTypes, OnlyBox DEF ScanBlank
<1>3. CASE PickAll BY <1>3, AsksAreGood, OnlySends DEF PickAll, Kind, OfOneLine
<1>4. CASE BeforeHide
  <2>1. CASE Dirty(tab)
    <3>1. [name |-> "dirtyTab", line |-> None] \in Box BY DEF Box
    <3> QED BY <1>4, <1>a, <1>b, <2>1, <3>1, BoxTypes, OnlyBox DEF BeforeHide, Stay
  <2>2. CASE ~Dirty(tab)
    <3>1. Other(tab) \in Tab /\ ChangeTo(Other(tab)) /\ UNCHANGED <<server, panel, saved, page, box>>
      BY <1>4, <2>2 DEF BeforeHide, Other, Tab
    <3>2. CallsOK' /\ ViewOK' BY <1>a, <3>1, ChangeKeeps
    <3> QED BY <1>4, <1>b, <3>1, <3>2, Frame, ActsCount DEF IInv, BeforeHide, server
  <2> QED BY <2>1, <2>2
<1>5. CASE HandleReloadScreen BY <1>5, AsksAreGood, OnlySends DEF HandleReloadScreen, Kind, OfOneLine
<1>6. ASSUME NEW l \in Line, NEW v \in Quantities(l), Enter(l, v) PROVE IInv'
  <2>1. v \in Nat BY LineAssumption DEF Quantities
  <2>2. tab \in Tab BY <1>a DEF ViewOK
  <2>3. PanelsOK' BY <1>6, <1>a, <2>1, <2>2, TypedKeeps DEF Enter, UserEdits
  <2> QED BY <1>6, <1>a, <1>b, <2>3, Frame, ActsCount DEF IInv, Enter, UserEdits, server, ViewOK
<1>7. ASSUME NEW l \in Line, NEW step \in {-1, 0, 1}, ValidateAndUpdate(l, step) PROVE IInv'
  <2> DEFINE v == TextOf(panel[tab][l]) + step
             t == IF step = 0 THEN panel[tab][l].typed ELSE v
             plus == step = 1 /\ panel[tab][l].typed = None
  <2>1. tab \in Tab /\ panel[tab][l] # None /\ panel[tab][l] \in Panel
    BY <1>7, <1>a DEF ViewOK, PanelsOK, ValidateAndUpdate, UserEdits
  <2>2. InRange(v, panel[tab][l]) /\ UpdateShipmentLineDetails(PickLine(l, v, plus))
    BY <1>7 DEF ValidateAndUpdate
  <2>3. v \in Nat BY <2>1, <2>2 DEF InRange, Panel
  <2>4. t \in Nat \cup {None} BY <2>1, <2>3 DEF Panel
  <2>5. panel' = [panel EXCEPT ![tab][l].typed = t] BY <1>7 DEF ValidateAndUpdate
  <2>6. PanelsOK' BY <1>a, <2>1, <2>4, <2>5, TypedKeeps
  <2>7. GoodAsk(PickLine(l, v, plus)) BY <2>3, AsksAreGood
  <2>8. CallsOK' /\ blind' \in BOOLEAN /\ saved' \in BOOLEAN
    BY <1>a, <2>2, <2>7, SendKeeps DEF UpdateShipmentLineDetails
  <2>9. UNCHANGED <<server, tab, painted, box, page, listed>> /\ UserActs
    BY <1>7 DEF ValidateAndUpdate, UserEdits
  <2> QED BY <1>b, <2>6, <2>8, <2>9, Frame, ActsCount DEF IInv, server
<1>8. ASSUME NEW l \in Line, PickAllQuantity(l) PROVE IInv'
  <2>1. CallsOK' /\ blind' \in BOOLEAN /\ saved' \in BOOLEAN
    BY <1>8, <1>a, AsksAreGood, SendKeeps DEF PickAllQuantity, UpdateShipmentLineDetails
  <2> QED BY <1>8, <1>b, <2>1, Frame, ActsCount DEF IInv, server, PickAllQuantity, UserEdits
<1>9. ASSUME NEW l \in Line, OpenShortageResolutionPopup(l) PROVE IInv'
  <2>1. [name |-> "shortage", line |-> l] \in Box BY DEF Box
  <2> QED BY <1>9, <1>a, <1>b, <2>1, BoxTypes, OnlyBox DEF OpenShortageResolutionPopup, UserEdits
<1>10. ASSUME NEW all \in BOOLEAN, OnShortageReasonSelection(all) PROVE IInv'
  <2> DEFINE l == Head(box).line
             p == panel[tab][l]
  <2>1. box # <<>> /\ Head(box) \in Box /\ Head(box).name = "shortage" /\ box' \in Seq(Box)
    BY <1>10, <1>a, BoxTypes DEF OnShortageReasonSelection, Top
  <2>2. l \in Line BY <2>1 DEF Box
  <2>3. p # None BY <1>10 DEF OnShortageReasonSelection
  <2>4. tab \in Tab BY <1>a DEF ViewOK
  <2>5. p \in Panel /\ GoodPanel(l, p) BY <1>a, <2>2, <2>3, <2>4 DEF PanelsOK
  <2>6. GoodAsk(Ask("MarkAllLinesShortage")) BY AsksAreGood DEF Kind, OfOneLine
  <2>7. GoodAsk(ShortageChange(l, p)) BY <2>2, <2>5, ShortageIsGood
  <2>8. UpdateShipmentLineDetails(IF all THEN Ask("MarkAllLinesShortage") ELSE ShortageChange(l, p))
    BY <1>10 DEF OnShortageReasonSelection
  <2>9. CallsOK' /\ blind' \in BOOLEAN /\ saved' \in BOOLEAN
    BY <1>a, <2>6, <2>7, <2>8, SendKeeps DEF UpdateShipmentLineDetails
  <2>10. UNCHANGED <<server, panel, tab, painted, page, listed>> /\ UserActs
    BY <1>10 DEF OnShortageReasonSelection
  <2> QED BY <1>b, <2>1, <2>9, <2>10, Frame, ActsCount DEF IInv, server
<1>11. CASE CloseShortagePopup
  BY <1>11, <1>a, <1>b, BoxTypes, OnlyBox DEF CloseShortagePopup, Top
<1>12. CASE CloseError BY <1>12, <1>a, <1>b, BoxTypes, OnlyBox DEF CloseError, Top
<1>13. CASE HandleCancelOrderConfirmation
  BY <1>13, <1>a, BoxTypes, OnlyBox DEF HandleCancelOrderConfirmation, Top, Page
<1>14. CASE Save
  <2>1. CASE \E t \in Tab : Dirty(t)
    <3>1. [name |-> "dirtyNext", line |-> None] \in Box BY DEF Box
    <3> QED BY <1>14, <1>a, <1>b, <2>1, <3>1, BoxTypes, OnlyBox DEF Save
  <2>2. CASE ~\E t \in Tab : Dirty(t)
    <3>1. GoodAsk(Ask("next")) BY AsksAreGood DEF Kind, OfOneLine
    <3> QED BY <1>14, <2>2, <3>1, OnlySends DEF Save, screen
  <2> QED BY <2>1, <2>2
<1>15. CASE MoveAhead BY <1>15, AsksAreGood, OnlySends DEF MoveAhead, Kind, OfOneLine
<1>16. ASSUME NEW ok \in BOOLEAN, HandleDirtyForView(ok) PROVE IInv'
  <2>1. box' \in Seq(Box) /\ UserActs /\ UNCHANGED <<server, saved, page>>
    BY <1>16, <1>a, BoxTypes DEF HandleDirtyForView, Top
  <2>2. CASE ok
    <3>1. panel' = ClearDirty(Other(tab)) /\ ChangeTo(Other(tab)) /\ Other(tab) \in Tab
      BY <1>16, <2>2 DEF HandleDirtyForView, Other, Tab
    <3>2. CallsOK' /\ ViewOK' BY <1>a, <2>1, <3>1, ChangeKeeps
    <3>3. PanelsOK' BY <1>a, <3>1 DEF PanelsOK, ClearDirty, Panel, GoodPanel, Whole
    <3> QED BY <1>b, <2>1, <3>2, <3>3, Frame, ActsCount DEF IInv, server
  <2>3. CASE ~ok
    BY <1>16, <1>b, <2>1, <2>3, OnlyBox, <1>a DEF HandleDirtyForView, Stay
  <2> QED BY <2>2, <2>3
<1>17. ASSUME NEW ok \in BOOLEAN, HandleNextDirtyConfirmation(ok) PROVE IInv'
  <2>1. box' \in Seq(Box) /\ UserActs
    BY <1>17, <1>a, BoxTypes DEF HandleNextDirtyConfirmation, Top
  <2>2. GoodAsk(Ask("next")) BY AsksAreGood DEF Kind, OfOneLine
  <2>3. CallsOK' /\ blind' \in BOOLEAN
    BY <1>17, <1>a, <2>2, SendKeeps, Frame DEF HandleNextDirtyConfirmation, ViewOK
  <2> QED BY <1>17, <1>b, <2>1, <2>3, Frame, ActsCount
          DEF IInv, server, HandleNextDirtyConfirmation
<1>18. ASSUME NEW ok \in BOOLEAN, HandleNotPickedLinesConfirmation(ok) PROVE IInv'
  <2>1. box' \in Seq(Box) /\ UserActs /\ UNCHANGED <<server, panel, saved>>
    BY <1>18, <1>a, BoxTypes DEF HandleNotPickedLinesConfirmation, Top
  <2>2. CASE ok
    BY <1>18, <1>a, <2>1, <2>2, OnlyBox
       DEF HandleNotPickedLinesConfirmation, GotoNextScreen, Stay, Page
  <2>3. CASE ~ok
    <3>1. CallsOK' /\ ViewOK' /\ UNCHANGED page
      BY <1>18, <1>a, <2>1, <2>3, ChangeKeeps DEF HandleNotPickedLinesConfirmation, Tab
    <3> QED BY <1>b, <2>1, <3>1, Frame, ActsCount DEF IInv, server
  <2> QED BY <2>2, <2>3
<1>19. ASSUME NEW ok \in BOOLEAN, HandlePickAllConfirmation(ok) PROVE IInv'
  <2>1. box' \in Seq(Box) /\ UserActs /\ UNCHANGED <<server, panel, saved, page>>
    BY <1>19, <1>a, BoxTypes DEF HandlePickAllConfirmation, Top
  <2>2. GoodAsk(Ask("status")) BY AsksAreGood DEF Kind, OfOneLine
  <2>3. CASE ok
    <3>1. CallsOK' /\ blind' \in BOOLEAN /\ Stay
      BY <1>19, <1>a, <2>2, <2>3, SendKeeps DEF HandlePickAllConfirmation
    <3> QED BY <1>b, <2>1, <3>1, Frame, ActsCount DEF IInv, server, Stay
  <2>4. CASE ~ok
    <3>1. CallsOK' /\ ViewOK'
      BY <1>19, <1>a, <2>1, <2>4, ChangeKeeps DEF HandlePickAllConfirmation, Tab
    <3> QED BY <1>b, <2>1, <3>1, Frame, ActsCount DEF IInv, server
  <2> QED BY <2>3, <2>4
<1> QED
  BY <1>1, <1>2, <1>3, <1>4, <1>5, <1>6, <1>7, <1>8, <1>9, <1>10, <1>11, <1>12, <1>13, <1>14,
     <1>15, <1>16, <1>17, <1>18, <1>19 DEF User, PageEvents, LineEvents, WizardEvents

-----------------------------------------------------------------------------
(* The server *)

\* Lines an answer can carry.
GoodLines(lines) ==
  /\ lines \in [Line -> OrderLine \cup {None}]
  /\ \A l \in Line : lines[l] # None => Whole(l, lines[l]) /\ lines[l].picked <= Ordered[l]

\* An answer that carries good lines is a good call.
LEMMA RespondKeeps ==
  ASSUME CallsOK, NEW s \in Slot, call[s] # None, NEW code \in Code, NEW lines,
         GoodLines(lines), Respond(s, code, lines)
  PROVE  CallsOK'
<1> DEFINE c == [call[s] EXCEPT !.reply = Answer(code, lines)]
<1>1. call[s] \in Call /\ GoodCall(call[s]) BY DEF CallsOK
<1>2. Answer(code, lines) \in Reply BY DEF Answer, Reply, GoodLines
<1>3. c \in Call BY <1>1, <1>2 DEF Call
<1>4. /\ c.kind = call[s].kind /\ c.line = call[s].line /\ c.qty = call[s].qty
      /\ c.short = call[s].short /\ c.reply.lines = lines
  BY <1>1 DEF Call, Answer
<1>5. GoodCall(c) BY <1>1, <1>4 DEF GoodCall, GoodLines, Whole
<1>6. call' = [call EXCEPT ![s] = c] BY DEF Respond
<1>7. call' \in [Slot -> Call \cup {None}] BY <1>3, <1>6 DEF CallsOK
<1>8. \A k \in Slot : call'[k] # None => GoodCall(call'[k]) BY <1>5, <1>6 DEF CallsOK
<1> QED BY <1>7, <1>8 DEF CallsOK, GoodCall, Whole

\* What is recorded of one line.
LEMMA RecordKeeps ==
  ASSUME OrderOK, NEW l \in Line, NEW r \in OrderLine, Whole(l, r), r.picked <= Ordered[l],
         order' = [order EXCEPT ![l] = r]
  PROVE  OrderOK' /\ GoodLines(Only(l, order'))
<1>1. \A k \in Line : order'[k] = IF k = l THEN r ELSE order[k] BY DEF OrderOK
<1>2. order' \in [Line -> OrderLine] BY DEF OrderOK
<1>3. \A k \in Line : Whole(k, order'[k]) /\ order'[k].picked <= Ordered[k]
  BY <1>1 DEF OrderOK
<1>4. OrderOK' BY <1>2, <1>3 DEF OrderOK, Whole
<1>5. GoodLines(Only(l, order')) BY <1>2, <1>3 DEF GoodLines, Only
<1> QED BY <1>4, <1>5

LEMMA NoLinesAreGood == GoodLines(NoLines)
BY DEF GoodLines, NoLines

\* A count stays in the line: a server refuses what exceeds it.
LEMMA CountKeeps ==
  ASSUME OrderOK, NEW l \in Line, NEW n \in Nat, n <= order[l].qty, order' = Counted(l, n)
  PROVE  OrderOK' /\ GoodLines(Only(l, order'))
<1> DEFINE r == [order[l] EXCEPT !.picked = n, !.done = (n = order[l].qty)]
<1>1. order[l] \in OrderLine /\ Whole(l, order[l]) /\ Ordered[l] \in Nat
  BY LineAssumption DEF OrderOK
<1>2. r \in OrderLine /\ Whole(l, r) /\ r.picked <= Ordered[l]
  <2>1. order[l].qty \in Nat /\ order[l].short \in Nat /\ order[l].qty + order[l].short = Ordered[l]
    BY <1>1 DEF OrderLine, Whole
  <2>2. \A b \in BOOLEAN : LET q == [order[l] EXCEPT !.picked = n, !.done = b] IN
          q \in OrderLine /\ q.qty = order[l].qty /\ q.short = order[l].short /\ q.picked = n
    BY <1>1 DEF OrderLine
  <2>3. r \in OrderLine /\ r.qty = order[l].qty /\ r.short = order[l].short /\ r.picked = n
    BY <2>2
  <2>4. n <= Ordered[l] BY <2>1, <1>1
  <2> QED BY <2>1, <2>3, <2>4 DEF Whole
<1>3. order' = [order EXCEPT ![l] = r] BY DEF Counted, OrderOK
<1> QED BY <1>2, <1>3, RecordKeeps

\* What a step of the server leaves to prove: the record, and that its answer is good.
LEMMA ServedKeeps ==
  ASSUME IInv, OrderOK', NEW s \in Slot, ~Free(s), NEW code \in Code, NEW lines,
         GoodLines(lines), Respond(s, code, lines), status' \in {"picking", "picked"},
         UNCHANGED <<screen, acts, listed, blind>>
  PROVE  IInv'
<1>1. CallsOK' BY RespondKeeps DEF IInv, Free
<1>2. RestOK' BY DEF IInv, RestOK, screen
<1>3. PanelsOK' BY Frame DEF screen
<1>4. ViewOK' BY DEF IInv, ViewOK, screen
<1> QED BY <1>1, <1>2, <1>3, <1>4 DEF IInv

LEMMA ServeKeeps == ASSUME IInv, NEW s \in Slot, Serve(s) PROVE IInv'
<1>a. OrderOK /\ CallsOK BY DEF IInv
<1>b. ~Free(s) => call[s] \in Call /\ GoodCall(call[s]) BY <1>a DEF CallsOK, Free
<1>c. UNCHANGED <<screen, acts, listed, blind>> BY DEF Serve
<1>d. UNCHANGED order => OrderOK' BY Frame
<1>e. status \in {"picking", "picked"} BY DEF IInv, RestOK
<1>f. \A l \in Line : order[l] \in OrderLine /\ Whole(l, order[l]) /\ Ordered[l] \in Nat
  BY <1>a, LineAssumption DEF OrderOK
<1>1. CASE ServeQuantity(s)
  <2> DEFINE l == call[s].line
             n == IF call[s].kind = "PickLine" THEN call[s].picked ELSE order[l].qty
  <2>1. ~Free(s) /\ l \in Line
    BY <1>1, <1>b DEF ServeQuantity, Asked, GoodCall, OfOneLine
  <2>2. n \in Nat BY <1>b, <1>f, <2>1 DEF Call, OrderLine
  <2>3. CASE n <= order[l].qty
    <3>1. order' = Counted(l, n) /\ Respond(s, "ok", Only(l, order')) /\ UNCHANGED status
      BY <1>1, <2>3 DEF ServeQuantity
    <3>2. OrderOK' /\ GoodLines(Only(l, order')) BY <1>a, <2>1, <2>2, <2>3, <3>1, CountKeeps
    <3> QED BY <1>c, <1>e, <2>1, <3>1, <3>2, ServedKeeps DEF Code
  <2>4. CASE ~(n <= order[l].qty)
    <3>1. UNCHANGED <<order, status>> /\ Respond(s, "error", NoLines)
      BY <1>1, <2>4 DEF ServeQuantity
    <3> QED BY <1>c, <1>d, <1>e, <2>1, <3>1, NoLinesAreGood, ServedKeeps DEF Code
  <2> QED BY <2>3, <2>4
<1>2. CASE ServePickAll(s)
  <2>1. \A l \in Line : LET r == [order[l] EXCEPT !.picked = order[l].qty, !.done = TRUE] IN
          r \in OrderLine /\ Whole(l, r) /\ r.picked <= Ordered[l]
    <3> TAKE l \in Line
    <3> DEFINE o == order[l]
               r == [o EXCEPT !.picked = o.qty, !.done = TRUE]
    <3>1. o.qty \in Nat /\ o.short \in Nat /\ o.qty + o.short = Ordered[l] /\ o \in OrderLine
      BY <1>f DEF OrderLine, Whole
    <3>2. r \in OrderLine /\ r.qty = o.qty /\ r.short = o.short /\ r.picked = o.qty
      BY <3>1 DEF OrderLine
    <3>3. o.qty <= Ordered[l] BY <3>1, <1>f
    <3> QED BY <3>1, <3>2, <3>3 DEF Whole
  <2>2. OrderOK' BY <1>2, <2>1 DEF ServePickAll, OrderOK, Whole
  <2> QED BY <1>2, <1>c, <1>e, <2>2, NoLinesAreGood, ServedKeeps DEF ServePickAll, Asked, Code
<1>3. CASE ServeShortage(s)
  <2> DEFINE c == call[s]
             r == Shortened(c.qty, c.short)
             code == IF Cancelled(order') THEN "ShowCancelPopup" ELSE "ok"
  <2>1. ~Free(s) /\ c.line \in Line /\ c \in Call /\ Whole(c.line, c)
    BY <1>3, <1>b DEF ServeShortage, Asked, GoodCall, OfOneLine
  <2>2. r \in OrderLine /\ Whole(c.line, r) /\ r.picked <= Ordered[c.line]
    BY <1>f, <2>1 DEF Shortened, OrderLine, Whole, Call
  <2>3. order' = [order EXCEPT ![c.line] = r] /\ Respond(s, code, Only(c.line, order'))
        /\ UNCHANGED status
    BY <1>3 DEF ServeShortage
  <2>4. OrderOK' /\ GoodLines(Only(c.line, order')) BY <1>a, <2>1, <2>2, <2>3, RecordKeeps
  <2>5. code \in Code BY DEF Code
  <2> QED BY <1>c, <1>e, <2>1, <2>3, <2>4, <2>5, ServedKeeps
<1>4. CASE ServeAllShortages(s)
  <2> DEFINE code == IF Cancelled(order') THEN "ShowCancelPopup" ELSE "MarkAllLinesShortage"
  <2>1. \A l \in Line : ~order[l].done =>
          LET r == Shortened(order[l].picked, (order[l].qty - order[l].picked) + order[l].short)
          IN  r \in OrderLine /\ Whole(l, r) /\ r.picked <= Ordered[l]
    BY <1>a, <1>f DEF OrderOK, OrderLine, Whole, Shortened
  <2>2. OrderOK' BY <1>4, <1>a, <2>1 DEF ServeAllShortages, OrderOK, Whole
  <2>3. code \in Code /\ Respond(s, code, NoLines) BY <1>4 DEF ServeAllShortages, Code
  <2> QED BY <1>4, <1>c, <1>e, <2>2, <2>3, NoLinesAreGood, ServedKeeps DEF ServeAllShortages, Asked
<1>5. CASE ServeBarcode(s)
  <2> DEFINE l == call[s].line
  <2>1. ~Free(s) /\ l \in Line \cup {None} BY <1>5, <1>b DEF ServeBarcode, Asked, Call
  <2>2. CASE l # None /\ order[l].picked < order[l].qty
    <3>1. order' = Counted(l, order[l].picked + 1) /\ Respond(s, "ok", Only(l, order'))
          /\ UNCHANGED status
      BY <1>5, <2>2 DEF ServeBarcode
    <3>2. l \in Line BY <2>1, <2>2
    <3>3. order[l].picked + 1 \in Nat /\ order[l].picked + 1 <= order[l].qty
      BY <1>f, <2>2, <3>2 DEF OrderLine
    <3>4. OrderOK' /\ GoodLines(Only(l, order')) BY <1>a, <3>1, <3>2, <3>3, CountKeeps
    <3> QED BY <1>c, <1>e, <2>1, <3>1, <3>4, ServedKeeps DEF Code
  <2>3. CASE ~(l # None /\ order[l].picked < order[l].qty)
    <3>1. UNCHANGED <<order, status>> /\ Respond(s, "error", NoLines)
      BY <1>5, <2>3 DEF ServeBarcode
    <3> QED BY <1>c, <1>d, <1>e, <2>1, <3>1, NoLinesAreGood, ServedKeeps DEF Code
  <2> QED BY <2>2, <2>3
<1>6. CASE ServeList(s)
  <2> DEFINE lines == [l \in Line |-> IF call[s].list = "allItems" /\ order[l].done
                                      THEN None ELSE order[l]]
  <2>1. GoodLines(lines) BY <1>a DEF OrderOK, GoodLines
  <2>2. UNCHANGED <<order, status>> /\ Respond(s, "ok", lines) /\ ~Free(s)
    BY <1>6 DEF ServeList, server, Asked
  <2> QED BY <1>c, <1>d, <1>e, <2>1, <2>2, ServedKeeps DEF Code
<1>7. CASE ServeCount(s)
  <2>1. PICK code \in Code : Respond(s, code, NoLines) BY <1>7 DEF ServeCount, Code
  <2>2. UNCHANGED <<order, status>> /\ ~Free(s) BY <1>7 DEF ServeCount, server, Asked
  <2> QED BY <1>c, <1>d, <1>e, <2>1, <2>2, NoLinesAreGood, ServedKeeps
<1>8. CASE ServeNext(s)
  <2>1. PICK code \in Code : Respond(s, code, NoLines) BY <1>8 DEF ServeNext, Code
  <2>2. UNCHANGED order /\ ~Free(s) /\ status' \in {"picking", "picked"}
    BY <1>8, <1>e DEF ServeNext, Asked
  <2> QED BY <1>c, <1>d, <2>1, <2>2, NoLinesAreGood, ServedKeeps
<1>9. CASE ServeStatus(s)
  <2>1. Respond(s, "ok", NoLines) /\ UNCHANGED order /\ ~Free(s) /\ status' = "picked"
    BY <1>9 DEF ServeStatus, Asked
  <2> QED BY <1>c, <1>d, <2>1, NoLinesAreGood, ServedKeeps DEF Code
<1>10. CASE ServePrint(s)
  <2>1. PICK code \in Code : Respond(s, code, NoLines) BY <1>10 DEF ServePrint, Code
  <2>2. UNCHANGED <<order, status>> /\ ~Free(s) BY <1>10 DEF ServePrint, server, Asked
  <2> QED BY <1>c, <1>d, <1>e, <2>1, <2>2, NoLinesAreGood, ServedKeeps
<1> QED BY <1>1, <1>2, <1>3, <1>4, <1>5, <1>6, <1>7, <1>8, <1>9, <1>10 DEF Serve

-----------------------------------------------------------------------------
(* Answers *)

\* A panel made from a line that is whole is whole.
LEMMA PanelOfKeeps ==
  ASSUME NEW l \in Line, NEW r \in OrderLine, Whole(l, r), r.picked <= Ordered[l]
  PROVE  PanelOf(r) \in Panel /\ GoodPanel(l, PanelOf(r))
BY DEF OrderLine, PanelOf, Panel, GoodPanel, Whole

\* Quantity and shortage are refreshed together, or neither of them is.
LEMMA RefreshedKeeps ==
  ASSUME NEW l \in Line, NEW p \in Panel, GoodPanel(l, p),
         NEW r \in OrderLine, Whole(l, r), r.picked <= Ordered[l]
  PROVE  Refreshed(p, r) \in Panel /\ GoodPanel(l, Refreshed(p, r))
<1>1. CASE r.short >= 1
  <2>1. Refreshed(p, r) = [qty |-> r.qty, short |-> r.short, shown |-> r.picked,
                           done |-> r.done, typed |-> None]
    BY <1>1 DEF Refreshed
  <2> QED BY <2>1 DEF OrderLine, Panel, GoodPanel, Whole
<1>2. CASE ~(r.short >= 1)
  <2>1. Refreshed(p, r) = [qty |-> p.qty, short |-> p.short, shown |-> r.picked,
                           done |-> r.done, typed |-> None]
    BY <1>2 DEF Refreshed
  <2> QED BY <2>1 DEF OrderLine, Panel, GoodPanel, Whole
<1> QED BY <1>1, <1>2

\* What an answer carries (Answered).
LEMMA AnswerIsGood ==
  ASSUME CallsOK, NEW s \in Slot, NEW kinds, Answered(s, kinds)
  PROVE  /\ call[s] \in Call /\ GoodLines(LinesOf(s))
         /\ \A l \in Line : LinesOf(s)[l] = None \/ LinesOf(s)[l] \in OrderLine
<1>1. call[s] \in Call /\ GoodCall(call[s]) /\ call[s].reply # None
  BY DEF CallsOK, Answered, Free
<1>2. call[s].reply \in Reply BY <1>1 DEF Call
<1>3. call[s].reply.lines \in [Line -> OrderLine \cup {None}] BY <1>2 DEF Reply
<1> QED BY <1>1, <1>3 DEF GoodCall, GoodLines, LinesOf

\* A call that is done leaves the others.
LEMMA DoneKeeps ==
  ASSUME CallsOK, ViewOK, NEW s \in Slot, Done(s)
  PROVE  CallsOK' /\ blind' \in BOOLEAN
<1>1. call' \in [Slot -> Call \cup {None}] BY DEF CallsOK, Done
<1>2. \A k \in Slot : call'[k] # None => GoodCall(call'[k]) BY DEF CallsOK, Done
<1> QED BY <1>1, <1>2 DEF CallsOK, GoodCall, Whole, Done, ViewOK

\* What an answer leaves to prove.
LEMMA ReceivedKeeps ==
  ASSUME IInv, PanelsOK', NEW s \in Slot, Done(s), Stay, UNCHANGED <<server, acts>>,
         saved' \in BOOLEAN, box' \in Seq(Box), page' \in Page
  PROVE  IInv'
<1>1. CallsOK' /\ blind' \in BOOLEAN BY DoneKeeps DEF IInv
<1>2. acts' \in 0..MaxActs BY DEF IInv, RestOK
<1> QED BY <1>1, <1>2, Frame DEF IInv, Stay, server

\* Every answer leaves whole lines on the screen, whichever list it finds there.
LEMMA ReceiveKeeps == ASSUME IInv, NEW s \in Slot, HandleMashupOutput(s) PROVE IInv'
<1>a. CallsOK /\ PanelsOK /\ ViewOK /\ RestOK BY DEF IInv
<1>b. box \in Seq(Box) /\ page \in Page /\ saved \in BOOLEAN /\ tab \in Tab
  BY <1>a DEF RestOK, ViewOK
<1>c. UNCHANGED <<server, acts>> BY DEF HandleMashupOutput
<1>d. UNCHANGED panel => PanelsOK' BY Frame
<1>e. \A b \in {"error", "dirtyTab", "dirtyNext", "notPicked", "cancel", "pickAll"} :
        Open(b, None) => box' \in Seq(Box)
  BY <1>a, BoxTypes DEF Box
<1>1. CASE ReceiveList(s)
  <2> DEFINE t == call[s].list
             new == [l \in Line |-> IF LinesOf(s)[l] = None THEN None ELSE PanelOf(LinesOf(s)[l])]
  <2>1. Answered(s, {"load"}) /\ panel' = [panel EXCEPT ![t] = new] /\ Done(s) /\ Stay
        /\ UNCHANGED <<saved, box, page>>
    BY <1>1 DEF ReceiveList
  <2>2. GoodLines(LinesOf(s)) /\ \A l \in Line : LinesOf(s)[l] = None \/ LinesOf(s)[l] \in OrderLine
    BY <1>a, <2>1, AnswerIsGood
  <2>3. \A l \in Line : new[l] \in Panel \cup {None} /\ (new[l] # None => GoodPanel(l, new[l]))
    BY <2>2, PanelOfKeeps DEF GoodLines
  <2>4. new \in [Line -> Panel \cup {None}] BY <2>3
  <2>5. PanelsOK' BY <1>a, <2>1, <2>3, <2>4 DEF PanelsOK, GoodPanel, Whole
  <2> QED BY <1>b, <1>c, <2>1, <2>5, ReceivedKeeps
<1>2. CASE CustomError(s) BY <1>2, <1>b, <1>c, <1>d, <1>e, ReceivedKeeps DEF CustomError
<1>3. CASE UpdateProductQuantity(s)
  <2> DEFINE new == [l \in Line |-> IF LinesOf(s)[l] = None \/ panel[tab][l] = None
                                    THEN panel[tab][l] ELSE PanelOf(LinesOf(s)[l])]
  <2>1. Answered(s, {"scan"}) /\ panel' = [panel EXCEPT ![tab] = new] /\ Done(s) /\ Stay
        /\ UNCHANGED <<saved, box, page>>
    BY <1>3 DEF UpdateProductQuantity
  <2>2. GoodLines(LinesOf(s)) /\ \A l \in Line : LinesOf(s)[l] = None \/ LinesOf(s)[l] \in OrderLine
    BY <1>a, <2>1, AnswerIsGood
  <2>3. \A l \in Line : new[l] \in Panel \cup {None} /\ (new[l] # None => GoodPanel(l, new[l]))
    BY <1>a, <1>b, <2>2, PanelOfKeeps DEF GoodLines, PanelsOK
  <2>4. new \in [Line -> Panel \cup {None}] BY <2>3
  <2>5. PanelsOK' BY <1>a, <2>1, <2>3, <2>4 DEF PanelsOK, GoodPanel, Whole
  <2> QED BY <1>b, <1>c, <2>1, <2>5, ReceivedKeeps
<1>4. CASE RefreshShipmentLine(s)
  <2> DEFINE new == [l \in Line |-> IF LinesOf(s)[l] = None \/ panel[tab][l] = None
                                    THEN panel[tab][l] ELSE Refreshed(panel[tab][l], LinesOf(s)[l])]
  <2>1. Answered(s, LineKinds) /\ Done(s) /\ Stay /\ UNCHANGED <<saved, page>>
    BY <1>4 DEF RefreshShipmentLine
  <2>2. CASE UNCHANGED panel /\ (Open("pickAll", None) \/ Open("cancel", None))
    BY <1>b, <1>c, <1>d, <1>e, <2>1, <2>2, ReceivedKeeps
  <2>3. CASE UNCHANGED box /\ panel' = [panel EXCEPT ![tab] = new]
    <3>1. GoodLines(LinesOf(s)) /\ \A l \in Line : LinesOf(s)[l] = None \/ LinesOf(s)[l] \in OrderLine
      BY <1>a, <2>1, AnswerIsGood
    <3>2. \A l \in Line : new[l] \in Panel \cup {None} /\ (new[l] # None => GoodPanel(l, new[l]))
      BY <1>a, <1>b, <3>1, RefreshedKeeps DEF GoodLines, PanelsOK
    <3>3. new \in [Line -> Panel \cup {None}] BY <3>2
    <3>4. PanelsOK' BY <1>a, <2>3, <3>2, <3>3 DEF PanelsOK, GoodPanel, Whole
    <3> QED BY <1>b, <1>c, <2>1, <2>3, <3>4, ReceivedKeeps
  <2> QED BY <1>4, <2>2, <2>3 DEF RefreshShipmentLine
<1>5. CASE ShowConfirmMsgBoxAfterPickAll(s)
  BY <1>5, <1>b, <1>c, <1>d, <1>e, ReceivedKeeps DEF ShowConfirmMsgBoxAfterPickAll
<1>6. CASE ShowHideShipmentLineList(s)
  <2>1. CASE page' = "label" /\ Done(s) /\ Stay
    BY <1>6, <1>b, <1>c, <1>d, <2>1, ReceivedKeeps DEF ShowHideShipmentLineList, Page
  <2>2. CASE Show("shortItems") /\ UNCHANGED page
             /\ call' = [call EXCEPT ![s] = LoadOf("shortItems")]
             /\ blind' = (blind \/ Blind(LoadOf("shortItems")))
    <3>1. LoadOf("shortItems") = [Ask("load") EXCEPT !.list = "shortItems"]
      BY DEF LoadOf, ShowsUnloaded
    <3>2. GoodAsk(LoadOf("shortItems")) BY <3>1, AsksAreGood DEF Tab
    <3>3. call' \in [Slot -> Call \cup {None}] BY <1>a, <2>2, <3>2 DEF CallsOK, GoodAsk
    <3>4. \A k \in Slot : call'[k] # None => GoodCall(call'[k])
      BY <1>a, <2>2, <3>2 DEF CallsOK, GoodAsk
    <3>5. CallsOK' BY <3>3, <3>4 DEF CallsOK, GoodCall, Whole
    <3>6. UNCHANGED <<panel, saved, box>> BY <1>6 DEF ShowHideShipmentLineList
    <3>7. ViewOK' BY <1>a, <2>2, <3>6 DEF ViewOK, Show, Tab
    <3> QED BY <1>c, <1>d, <2>2, <3>5, <3>6, <3>7, <1>a, Frame DEF IInv, RestOK, server
  <2> QED BY <1>6, <2>1, <2>2 DEF ShowHideShipmentLineList
<1>7. CASE CanProceedToNextScreen(s)
  BY <1>7, <1>b, <1>c, <1>d, <1>e, ReceivedKeeps DEF CanProceedToNextScreen, GotoNextScreen, Page
<1>8. CASE StatusSaved(s)
  BY <1>8, <1>b, <1>c, <1>d, ReceivedKeeps DEF StatusSaved, GotoNextScreen, Page
<1>9. CASE PrintDetails(s)
  BY <1>9, <1>b, <1>c, <1>d, ReceivedKeeps DEF PrintDetails, Page
<1> QED BY <1>1, <1>2, <1>3, <1>4, <1>5, <1>6, <1>7, <1>8, <1>9 DEF HandleMashupOutput

-----------------------------------------------------------------------------
\* The invariant is inductive.
LEMMA StepKeeps == IInv /\ [Next]_vars => IInv'
<1> SUFFICES ASSUME IInv, [Next]_vars PROVE IInv' OBVIOUS
<1>1. CASE UNCHANGED vars
  BY <1>1, Frame DEF IInv, ViewOK, RestOK, vars, server, screen
<1>2. CASE Next BY <1>2, UserKeeps, ServeKeeps, ReceiveKeeps DEF Next
<1> QED BY <1>1, <1>2

\* Every variable keeps to its set of values, for every shipment and every number of
\* calls on their way (SortScanPick, SortLineDetails).
THEOREM TypesHold == Spec => []TypeOK
<1>1. IInv => TypeOK BY IInvIs
<1> QED BY InitOK, StepKeeps, <1>1, PTL DEF Spec

\* No unit of a line is lost or made up between the server, the calls, the answers
\* and the panels of both lists, in whatever order they cross.
THEOREM ConservedHolds == Spec => []Conserved
<1>1. IInv => Conserved BY IInvIs
<1> QED BY InitOK, StepKeeps, <1>1, PTL DEF Spec

-----------------------------------------------------------------------------
(* What the server records is PickLedger *)

\* One line counted is a record of the ledger.
LEMMA CountRecorded ==
  ASSUME OrderOK, NEW l \in Line, NEW n \in Nat, n <= order[l].qty, order' = Counted(l, n),
         UNCHANGED status
  PROVE  Ledger!Record
<1> DEFINE r == [order[l] EXCEPT !.picked = n, !.done = (n = order[l].qty)]
<1>1. order[l].qty \in Nat BY DEF OrderOK, OrderLine
<1>2. order' = [order EXCEPT ![l] = r] BY DEF Counted, OrderOK
<1>3. order' = [k \in Line |-> order'[k]] BY <1>2 DEF OrderOK
<1>4. order'[l] = r BY <1>2 DEF OrderOK
<1>5. n \in 0..order[l].qty BY <1>1
<1>6. Ledger!Count(l) BY <1>4, <1>5 DEF Ledger!Count
<1>7. \A k \in Line \ {l} : order'[k] = order[k] BY <1>2 DEF OrderOK
<1> QED BY <1>3, <1>6, <1>7 DEF Ledger!Record

\* A line cut to what was picked of it is a shortage of the ledger.
LEMMA ShortenedIsShorten ==
  ASSUME NEW l \in Line, NEW n \in Nat, NEW lack \in Nat, n + lack = Ordered[l],
         order'[l] = Shortened(n, lack)
  PROVE  Ledger!Shorten(l)
<1>1. n \in 0..Ordered[l] /\ lack = Ordered[l] - n BY LineAssumption
<1> QED BY <1>1 DEF Ledger!Shorten, Shortened

LEMMA ServeRecorded ==
  ASSUME IInv, NEW s \in Slot, Serve(s)
  PROVE  Ledger!Next \/ UNCHANGED <<order, status>>
<1>a. OrderOK /\ CallsOK BY DEF IInv
<1>b. ~Free(s) => call[s] \in Call /\ GoodCall(call[s]) BY <1>a DEF CallsOK, Free
<1>c. \A l \in Line : /\ order[l] \in OrderLine /\ order[l].qty \in Nat /\ order[l].short \in Nat
                      /\ order[l].picked \in Nat /\ Whole(l, order[l]) /\ Ordered[l] \in Nat
                      /\ order[l].picked <= Ordered[l]
  BY <1>a, LineAssumption DEF OrderOK, OrderLine
<1>1. CASE ServeQuantity(s)
  <2> DEFINE l == call[s].line
             n == IF call[s].kind = "PickLine" THEN call[s].picked ELSE order[l].qty
  <2>1. ~Free(s) /\ l \in Line
    BY <1>1, <1>b DEF ServeQuantity, Asked, GoodCall, OfOneLine
  <2>2. n \in Nat BY <1>b, <1>c, <2>1 DEF Call
  <2>3. CASE n <= order[l].qty
    <3>1. order' = Counted(l, n) /\ UNCHANGED status BY <1>1, <2>3 DEF ServeQuantity
    <3> QED BY <1>a, <2>1, <2>2, <2>3, <3>1, CountRecorded DEF Ledger!Next
  <2>4. CASE ~(n <= order[l].qty) BY <1>1, <2>4 DEF ServeQuantity
  <2> QED BY <2>3, <2>4
<1>2. CASE ServePickAll(s)
  <2>1. order' = [l \in Line |-> [order[l] EXCEPT !.picked = order[l].qty, !.done = TRUE]]
        /\ UNCHANGED status
    BY <1>2 DEF ServePickAll
  <2>2. ASSUME NEW l \in Line PROVE Ledger!Count(l)
    <3>1. order'[l] = [order[l] EXCEPT !.picked = order[l].qty, !.done = (order[l].qty = order[l].qty)]
      BY <2>1
    <3>2. order[l].qty \in 0..order[l].qty BY <1>c
    <3> QED BY <3>1, <3>2 DEF Ledger!Count
  <2>3. order' = [l \in Line |-> order'[l]] BY <2>1
  <2> QED BY <2>1, <2>2, <2>3 DEF Ledger!Record, Ledger!Next
<1>3. CASE ServeShortage(s)
  <2> DEFINE c == call[s]
  <2>1. ~Free(s) /\ c.line \in Line /\ c \in Call /\ Whole(c.line, c)
    BY <1>3, <1>b DEF ServeShortage, Asked, GoodCall, OfOneLine
  <2>2. order' = [order EXCEPT ![c.line] = Shortened(c.qty, c.short)] /\ UNCHANGED status
    BY <1>3 DEF ServeShortage
  <2>3. order' = [l \in Line |-> order'[l]] /\ order'[c.line] = Shortened(c.qty, c.short)
        /\ \A l \in Line \ {c.line} : order'[l] = order[l]
    BY <1>a, <2>1, <2>2 DEF OrderOK
  <2>4. c.qty \in Nat /\ c.short \in Nat /\ c.qty + c.short = Ordered[c.line]
    BY <2>1 DEF Call, Whole
  <2>5. Ledger!Shorten(c.line) BY <2>1, <2>3, <2>4, ShortenedIsShorten
  <2> QED BY <2>1, <2>2, <2>3, <2>5 DEF Ledger!Record, Ledger!Next
<1>4. CASE ServeAllShortages(s)
  <2> DEFINE lack(l) == (order[l].qty - order[l].picked) + order[l].short
  <2>1. order' = [l \in Line |-> IF order[l].done THEN order[l]
                                 ELSE Shortened(order[l].picked, lack(l))] /\ UNCHANGED status
    BY <1>4 DEF ServeAllShortages
  <2>2. ASSUME NEW l \in Line, ~order[l].done PROVE Ledger!Shorten(l)
    <3>1. lack(l) \in Nat /\ order[l].picked + lack(l) = Ordered[l] BY <1>c DEF Whole
    <3>2. order'[l] = Shortened(order[l].picked, lack(l)) BY <2>1, <2>2
    <3> QED BY <1>c, <3>1, <3>2, ShortenedIsShorten
  <2>3. order' = [l \in Line |-> order'[l]] BY <2>1
  <2>4. \A l \in Line : order[l].done => order'[l] = order[l] BY <2>1
  <2> QED BY <2>1, <2>2, <2>3, <2>4 DEF Ledger!Record, Ledger!Next
<1>5. CASE ServeBarcode(s)
  <2> DEFINE l == call[s].line
  <2>1. l \in Line \cup {None} BY <1>5, <1>b DEF ServeBarcode, Asked, Call
  <2>2. CASE l # None /\ order[l].picked < order[l].qty
    <3>1. order' = Counted(l, order[l].picked + 1) /\ UNCHANGED status
      BY <1>5, <2>2 DEF ServeBarcode
    <3>2. l \in Line BY <2>1, <2>2
    <3>3. order[l].picked + 1 \in Nat /\ order[l].picked + 1 <= order[l].qty BY <1>c, <2>2, <3>2
    <3> QED BY <1>a, <3>1, <3>2, <3>3, CountRecorded DEF Ledger!Next
  <2>3. CASE ~(l # None /\ order[l].picked < order[l].qty) BY <1>5, <2>3 DEF ServeBarcode
  <2> QED BY <2>2, <2>3
<1>6. CASE ServeList(s) \/ ServeCount(s) \/ ServePrint(s)
  BY <1>6 DEF ServeList, ServeCount, ServePrint, server
<1>7. CASE ServeNext(s) BY <1>7 DEF ServeNext, Ledger!Next, Ledger!Finish
<1>8. CASE ServeStatus(s) BY <1>8 DEF ServeStatus, Ledger!Next, Ledger!Finish
<1> QED BY <1>1, <1>2, <1>3, <1>4, <1>5, <1>6, <1>7, <1>8 DEF Serve

\* The user and the handlers of answers leave the server's record alone.
LEMMA ScreenRecordsNothing ==
  ASSUME User \/ \E s \in Slot : HandleMashupOutput(s)
  PROVE  UNCHANGED <<order, status>>
<1>1. User => UNCHANGED <<order, status>>
  BY DEF User, PageEvents, LineEvents, WizardEvents, server, Scan, ScanBlank, PickAll, BeforeHide,
         HandleReloadScreen, Enter,
         ValidateAndUpdate, PickAllQuantity, OpenShortageResolutionPopup,
         OnShortageReasonSelection, CloseShortagePopup, CloseError,
         HandleCancelOrderConfirmation, Save, MoveAhead, HandleDirtyForView,
         HandleNextDirtyConfirmation, HandleNotPickedLinesConfirmation,
         HandlePickAllConfirmation
<1>2. ASSUME NEW s \in Slot, HandleMashupOutput(s) PROVE UNCHANGED <<order, status>>
  BY <1>2 DEF HandleMashupOutput, server
<1> QED BY <1>1, <1>2

LEMMA InitRecorded == Init => Ledger!Init
<1> SUFFICES ASSUME Init PROVE Ledger!Init OBVIOUS
<1>1. order \in Openings /\ status = "picking" BY DEF Init
<1>2. order \in [Line -> OrderLine]
      /\ \A l \in Line : Whole(l, order[l]) /\ order[l].picked <= order[l].qty
  BY <1>1, OpeningAssumption
<1> QED BY <1>1, <1>2 DEF Ledger!Init, Ledger!OrderLine, OrderLine, Whole

\* Whatever the screen sends, and however its calls cross, the server's record of the
\* lines is that of PickLedger: units are neither lost nor made up, no count exceeds
\* what is required, and a finished shipment stays finished.
THEOREM LedgerImplemented == Spec => LedgerSpec
<1>1. Init => Ledger!Init BY InitRecorded
<1>2. IInv /\ [Next]_vars => [Ledger!Next]_(Ledger!vars)
  <2> SUFFICES ASSUME IInv, [Next]_vars PROVE Ledger!Next \/ UNCHANGED <<order, status>>
    BY DEF Ledger!vars
  <2>1. CASE UNCHANGED vars BY <2>1 DEF vars, server
  <2>2. CASE Next BY <2>2, ServeRecorded, ScreenRecordsNothing DEF Next
  <2> QED BY <2>1, <2>2
<1> QED BY <1>1, <1>2, InitOK, StepKeeps, PTL DEF Spec, LedgerSpec, Ledger!Spec
-----------------------------------------------------------------------------
(* What the screen says of its lines and of a picked shipment *)

Served(s) == ~Free(s) /\ call[s].reply # None

\* A call that changes something has the server to itself, slips apart.
Alone == ~blind => \A s, k \in Slot :
  s # k /\ ~Free(s) /\ ~Free(k) /\ call[s].kind \in Changing => call[k].kind = "print"

\* The server's lines: done means that all is picked.
CountsOK == \A l \in Line : /\ order[l].picked <= order[l].qty
                            /\ order[l].done => order[l].picked = order[l].qty

\* Which call can be answered how.
CodeFits(c) ==
  /\ c.reply.code = "error" => c.kind \in {"scan", "PickLine", "PickAllLine"}
  /\ c.reply.code = "MarkAllLinesShortage" => c.kind = "MarkAllLinesShortage"
  /\ c.kind = "MarkAllLinesShortage" => c.reply.code # "ok"
CodesOK == \A s \in Slot : Served(s) => CodeFits(call[s])

\* Answers after which nothing is left to pick.
EndsPicking(c) ==
  \/ c.kind \in {"PickAll", "status"}
  \/ c.kind = "MarkAllLinesShortage" /\ c.reply.code = "MarkAllLinesShortage"
  \/ c.kind = "count" /\ c.reply.code = "0"
  \/ c.kind = "next" /\ c.reply.code = "GotoNextScreen"
Tells(s) == Served(s) /\ EndsPicking(call[s])

Quiet == Completed(order) /\ ~\E s \in Slot : Asked(s, "PickLine")
InBox(names) == \E i \in 1..Len(box) : box[i].name \in names
Leaves(s) == Tells(s) /\ call[s].kind \in {"next", "status"}

Told == ~blind =>
  /\ \A s \in Slot : Tells(s) \/ Asked(s, "status") => Completed(order)
  /\ saved \/ page = "label" \/ InBox({"pickAll"}) => Quiet
  /\ status = "picked" => Quiet /\ (page \in {"open", "label"} => \E s \in Slot : Leaves(s))

TInv == IInv /\ Alone /\ CountsOK /\ CodesOK /\ Told

-----------------------------------------------------------------------------
(* Calls *)

\* A call joins the others in a slot of its own; unless it is blind, one of two
\* calls that meet is a slip, or neither changes anything.
LEMMA SendAdds ==
  ASSUME CallsOK, NEW c \in Call, Send(c)
  PROVE  /\ \E s \in Slot : /\ Free(s) /\ call'[s] = c
                            /\ \A k \in Slot \ {s} : call'[k] = call[k]
         /\ blind => blind'
         /\ ~blind' => \A k \in Slot : ~Free(k) =>
              \/ c.kind \notin Changing /\ call[k].kind \notin Changing
              \/ "print" \in {c.kind, call[k].kind}
<1>1. PICK s \in Slot : Free(s) /\ call' = [call EXCEPT ![s] = c] /\ blind' = (blind \/ Blind(c))
  BY DEF Send
<1>2. call'[s] = c /\ \A k \in Slot \ {s} : call'[k] = call[k] BY <1>1 DEF CallsOK
<1>3. ~blind' => ~Blind(c) BY <1>1
<1>4. ~Blind(c) => \A k \in Slot : ~Free(k) =>
        {c.kind, call[k].kind} \cap Changing = {} \/ "print" \in {c.kind, call[k].kind}
  BY DEF Blind
<1> QED BY <1>1, <1>2, <1>3, <1>4

\* A call that was sent has the server to itself.
LEMMA SendKeepsAlone ==
  ASSUME CallsOK, Alone, NEW c \in Call, Send(c)
  PROVE  Alone'
<1>1. PICK s \in Slot : /\ Free(s) /\ call'[s] = c
                        /\ \A k \in Slot \ {s} : call'[k] = call[k]
  BY SendAdds
<1>2. ~blind' => ~blind /\ \A k \in Slot : ~Free(k) =>
        \/ c.kind \notin Changing /\ call[k].kind \notin Changing
        \/ "print" \in {c.kind, call[k].kind}
  BY SendAdds
<1>3. "print" \notin Changing BY DEF Changing
<1> SUFFICES ASSUME ~blind', NEW i \in Slot, NEW k \in Slot, i # k, ~Free(i)', ~Free(k)',
                    call'[i].kind \in Changing
             PROVE  call'[k].kind = "print"
  BY DEF Alone
<1>4. CASE i = s BY <1>1, <1>2, <1>3, <1>4 DEF Free
<1>5. CASE k = s BY <1>1, <1>2, <1>3, <1>5 DEF Free
<1>6. CASE i # s /\ k # s BY <1>1, <1>2, <1>6 DEF Free, Alone
<1> QED BY <1>4, <1>5, <1>6

-----------------------------------------------------------------------------
(* What the user does *)

\* Boxes are put on the stack and taken from it one at a time.
LEMMA BoxNames ==
  ASSUME RestOK, NEW names
  PROVE  /\ \A b, l : [name |-> b, line |-> l] \in Box /\ Open(b, l) =>
              (InBox(names)' <=> b \in names \/ InBox(names))
         /\ box # <<>> /\ Close /\ InBox(names)' => InBox(names)
         /\ \A b : Top(b) /\ Close /\ b \notin names /\ InBox(names) => InBox(names)'
         /\ \A b : Top(b) /\ b \in names => InBox(names)
<1>a. box \in Seq(Box) BY DEF RestOK
<1>1. ASSUME NEW b, NEW l, [name |-> b, line |-> l] \in Box, Open(b, l)
      PROVE  InBox(names)' <=> b \in names \/ InBox(names)
  <2> DEFINE r == [name |-> b, line |-> l]
  <2>1. box' = <<r>> \o box /\ r.name = b BY <1>1 DEF Open
  <2>2. Len(box') = Len(box) + 1 /\ Len(box) \in Nat /\ box'[1] = r
        /\ \A i \in 1..Len(box) : box'[i + 1] = box[i]
    BY <1>a, <1>1, <2>1
  <2>3. ASSUME InBox(names)' PROVE b \in names \/ InBox(names)
    <3>1. PICK i \in 1..Len(box') : box'[i].name \in names BY <2>3 DEF InBox
    <3>2. CASE i = 1 BY <2>1, <2>2, <3>1, <3>2
    <3>3. CASE i # 1
      <4>1. i - 1 \in 1..Len(box) /\ box'[(i - 1) + 1] = box[i - 1] BY <2>2, <3>1, <3>3
      <4> QED BY <3>1, <4>1 DEF InBox
    <3> QED BY <3>2, <3>3
  <2>4. ASSUME b \in names PROVE InBox(names)'
    <3>1. 1 \in 1..Len(box') BY <2>2
    <3> QED BY <2>1, <2>2, <2>4, <3>1 DEF InBox
  <2>5. ASSUME InBox(names) PROVE InBox(names)'
    <3>1. PICK i \in 1..Len(box) : box[i].name \in names BY <2>5 DEF InBox
    <3>2. i + 1 \in 1..Len(box') BY <2>2, <3>1
    <3> QED BY <2>2, <3>1, <3>2 DEF InBox
  <2> QED BY <2>3, <2>4, <2>5
<1>b. box # <<>> => /\ Len(Tail(box)) = Len(box) - 1 /\ Len(box) \in Nat /\ Len(box) >= 1
                    /\ \A i \in 1..(Len(box) - 1) : Tail(box)[i] = box[i + 1]
                    /\ Head(box) = box[1]
  BY <1>a
<1>2. ASSUME box # <<>>, Close, InBox(names)' PROVE InBox(names)
  <2>1. PICK i \in 1..Len(box') : box'[i].name \in names BY <1>2 DEF InBox
  <2>2. i + 1 \in 1..Len(box) /\ box'[i] = box[i + 1] BY <1>b, <1>2, <2>1 DEF Close
  <2> QED BY <2>1, <2>2 DEF InBox
<1>3. ASSUME NEW b, Top(b), Close, b \notin names, InBox(names) PROVE InBox(names)'
  <2>1. PICK i \in 1..Len(box) : box[i].name \in names BY <1>3 DEF InBox
  <2>2. i # 1 BY <1>b, <1>3, <2>1 DEF Top
  <2>3. i - 1 \in 1..Len(box') /\ box'[i - 1] = box[(i - 1) + 1] BY <1>b, <1>3, <2>1, <2>2 DEF Top, Close
  <2> QED BY <2>1, <2>3 DEF InBox
<1>4. ASSUME NEW b, Top(b), b \in names PROVE InBox(names)
  <2>1. 1 \in 1..Len(box) /\ box[1].name = b BY <1>b, <1>4 DEF Top
  <2> QED BY <1>4, <2>1 DEF InBox
<1> QED BY <1>1, <1>2, <1>3, <1>4

\* What all steps of the user have in common: at most one call, a quantity only
\* from the lists and with the flag of "pick all" taken back, the status only from
\* the box of "pick all", which no user opens.
UserShape ==
  /\ page \in {"open", "label"} /\ UNCHANGED server
  /\ \/ UNCHANGED <<call, blind>>
     \/ \E c \in Call : /\ Send(c) /\ c.reply = None
                        /\ c.kind = "PickLine" =>
                             /\ page = "open" /\ box = <<>> /\ UNCHANGED <<page, box>>
                             /\ ~saved'
                        /\ c.kind = "status" => InBox({"pickAll"})
  /\ saved' => saved
  /\ page' \in {page, "confirmed", "closed"}
  /\ InBox({"pickAll"})' => InBox({"pickAll"})

\* The calls that show a list, or send something else than a quantity or the status.
LEMMA OtherAsks ==
  /\ \A kind \in Kind \ OfOneLine : Ask(kind) \in Call /\ Ask(kind).kind = kind
                                    /\ Ask(kind).reply = None
  /\ \A l \in Line \cup {None} : AskLine("scan", l) \in Call /\ AskLine("scan", l).kind = "scan"
                                 /\ AskLine("scan", l).reply = None
  /\ \A l \in Line : AskLine("PickAllLine", l) \in Call /\ AskLine("PickAllLine", l).reply = None
                     /\ AskLine("PickAllLine", l).kind = "PickAllLine"
  /\ \A t \in Tab : LoadOf(t) # None =>
       LoadOf(t) \in Call /\ LoadOf(t).kind = "load" /\ LoadOf(t).reply = None /\ LoadOf(t).list = t
BY AsksAreGood DEF GoodAsk, AskLine, Ask, LoadOf

LEMMA ShowsShape ==
  ASSUME NEW t \in Tab, ChangeTo(t)
  PROVE  \/ UNCHANGED <<call, blind>>
         \/ \E c \in Call : Send(c) /\ c.kind = "load" /\ c.reply = None
<1>1. CASE LoadOf(t) = None BY <1>1 DEF ChangeTo
<1>2. CASE LoadOf(t) # None
  <2>1. Send(LoadOf(t)) BY <1>2 DEF ChangeTo
  <2> QED BY <1>2, <2>1, OtherAsks
<1> QED BY <1>1, <1>2

LEMMA UserShapes == ASSUME IInv, User PROVE UserShape
<1> USE DEF UserShape, UserEnds, UserWorks
<1>a. RestOK /\ PanelsOK /\ ViewOK /\ tab \in Tab BY DEF IInv, ViewOK
<1>b. UNCHANGED box => (InBox({"pickAll"})' => InBox({"pickAll"})) BY DEF InBox
<1>c. \A b \in {"error", "dirtyTab", "dirtyNext"} : Open(b, None) =>
        (InBox({"pickAll"})' => InBox({"pickAll"}))
  <2> TAKE b \in {"error", "dirtyTab", "dirtyNext"}
  <2>1. [name |-> b, line |-> None] \in Box BY DEF Box
  <2> QED BY <1>a, <2>1, BoxNames
<1>d. \A b : Top(b) /\ Close => (InBox({"pickAll"})' => InBox({"pickAll"}))
  BY <1>a, BoxNames DEF Top
<1>e. UserActs => page \in {"open", "label"} BY DEF UserActs
<1>1. ASSUME NEW b \in Line \cup {None}, Scan(b) PROVE UserShape
  BY <1>1, <1>b, <1>e, OtherAsks DEF Scan, screen
<1>2. CASE ScanBlank BY <1>2, <1>c, <1>e DEF ScanBlank
<1>3. CASE PickAll BY <1>3, <1>b, <1>e, OtherAsks DEF PickAll, Kind, OfOneLine, screen
<1>4. CASE BeforeHide
  <2>1. Other(tab) \in Tab BY DEF Other, Tab
  <2>2. CASE Dirty(tab) BY <1>4, <1>c, <1>e, <2>2 DEF BeforeHide
  <2>3. CASE ~Dirty(tab) BY <1>4, <1>b, <1>e, <2>1, <2>3, ShowsShape DEF BeforeHide
  <2> QED BY <2>2, <2>3
<1>5. CASE HandleReloadScreen
  BY <1>5, <1>b, <1>e, OtherAsks DEF HandleReloadScreen, Kind, OfOneLine, screen
<1>6. ASSUME NEW l \in Line, NEW v \in Quantities(l), Enter(l, v) PROVE UserShape
  BY <1>6, <1>b, <1>e DEF Enter, UserEdits
<1>7. ASSUME NEW l \in Line, NEW step \in {-1, 0, 1}, ValidateAndUpdate(l, step) PROVE UserShape
  <2> DEFINE v == TextOf(panel[tab][l]) + step
             plus == step = 1 /\ panel[tab][l].typed = None
  <2>1. panel[tab][l] \in Panel
    BY <1>7, <1>a DEF PanelsOK, ValidateAndUpdate, UserEdits
  <2>2. v \in Nat
    BY <1>7, <2>1 DEF ValidateAndUpdate, InRange, Panel
  <2>3. PickLine(l, v, plus) \in Call /\ PickLine(l, v, plus).reply = None
        /\ PickLine(l, v, plus).kind = "PickLine"
    BY <2>2, AsksAreGood DEF GoodAsk, PickLine, AskLine, Ask
  <2>4. Send(PickLine(l, v, plus)) /\ ~saved'
    BY <1>7 DEF ValidateAndUpdate, UpdateShipmentLineDetails
  <2>5. page = "open" /\ box = <<>> /\ UNCHANGED <<server, page, box>>
    BY <1>7 DEF ValidateAndUpdate, UserEdits
  <2> QED BY <1>b, <2>3, <2>4, <2>5
<1>8. ASSUME NEW l \in Line, PickAllQuantity(l) PROVE UserShape
  BY <1>8, <1>b, <1>e, OtherAsks DEF PickAllQuantity, UpdateShipmentLineDetails, UserEdits
<1>9. ASSUME NEW l \in Line, OpenShortageResolutionPopup(l) PROVE UserShape
  <2>1. [name |-> "shortage", line |-> l] \in Box BY DEF Box
  <2> QED BY <1>9, <1>a, <1>e, <2>1, BoxNames DEF OpenShortageResolutionPopup, UserEdits
<1>10. ASSUME NEW all \in BOOLEAN, OnShortageReasonSelection(all) PROVE UserShape
  <2> DEFINE l == Head(box).line
             p == panel[tab][l]
             c == IF all THEN Ask("MarkAllLinesShortage") ELSE ShortageChange(l, p)
  <2>1. l \in Line
    BY <1>10, <1>a, BoxTypes DEF OnShortageReasonSelection, Top, Box
  <2>2. p \in Panel /\ GoodPanel(l, p)
    BY <1>10, <1>a, <2>1 DEF PanelsOK, OnShortageReasonSelection
  <2>3. GoodAsk(Ask("MarkAllLinesShortage")) /\ GoodAsk(ShortageChange(l, p))
    BY <2>1, <2>2, AsksAreGood, ShortageIsGood DEF Kind, OfOneLine
  <2>4. c \in Call /\ c.reply = None /\ c.kind \notin {"PickLine", "status"}
    BY <2>3 DEF GoodAsk, Ask, AskLine, ShortageChange
  <2>5. Send(c) /\ ~saved' BY <1>10 DEF OnShortageReasonSelection, UpdateShipmentLineDetails
  <2>6. UserActs /\ Top("shortage") /\ Close /\ UNCHANGED <<server, page>>
    BY <1>10 DEF OnShortageReasonSelection
  <2> QED BY <1>d, <1>e, <2>4, <2>5, <2>6
<1>11. CASE CloseShortagePopup BY <1>11, <1>d, <1>e DEF CloseShortagePopup
<1>12. CASE CloseError BY <1>12, <1>d, <1>e DEF CloseError
<1>13. CASE HandleCancelOrderConfirmation
  BY <1>13, <1>d, <1>e DEF HandleCancelOrderConfirmation
<1>14. CASE Save
  BY <1>14, <1>b, <1>c, <1>e, OtherAsks DEF Save, Kind, OfOneLine
<1>15. CASE MoveAhead BY <1>15, <1>b, <1>e, OtherAsks DEF MoveAhead, Kind, OfOneLine, screen
<1>16. ASSUME NEW ok \in BOOLEAN, HandleDirtyForView(ok) PROVE UserShape
  <2>1. Other(tab) \in Tab BY DEF Other, Tab
  <2> QED BY <1>16, <1>d, <1>e, <2>1, ShowsShape DEF HandleDirtyForView
<1>17. ASSUME NEW ok \in BOOLEAN, HandleNextDirtyConfirmation(ok) PROVE UserShape
  BY <1>17, <1>d, <1>e, OtherAsks DEF HandleNextDirtyConfirmation, Kind, OfOneLine
<1>18. ASSUME NEW ok \in BOOLEAN, HandleNotPickedLinesConfirmation(ok) PROVE UserShape
  BY <1>18, <1>d, <1>e, ShowsShape DEF HandleNotPickedLinesConfirmation, GotoNextScreen, Tab
<1>19. ASSUME NEW ok \in BOOLEAN, HandlePickAllConfirmation(ok) PROVE UserShape
  <2>1. Top("pickAll") /\ Close /\ UserActs /\ UNCHANGED <<server, saved, page>>
    BY <1>19 DEF HandlePickAllConfirmation
  <2>2. InBox({"pickAll"}) BY <1>a, <2>1, BoxNames
  <2> QED BY <1>19, <1>d, <1>e, <2>1, <2>2, OtherAsks, ShowsShape
          DEF HandlePickAllConfirmation, Kind, OfOneLine, Tab
<1> QED
  BY <1>1, <1>2, <1>3, <1>4, <1>5, <1>6, <1>7, <1>8, <1>9, <1>10, <1>11, <1>12, <1>13, <1>14,
     <1>15, <1>16, <1>17, <1>18, <1>19 DEF User, PageEvents, LineEvents, WizardEvents

\* A call that is sent was not answered, and answers nothing.
LEMMA SendTells ==
  ASSUME CallsOK, NEW c \in Call, Send(c), c.reply = None
  PROVE  \A k \in Slot : /\ Tells(k)' => Tells(k)
                         /\ Leaves(k) => Leaves(k)'
                         /\ Served(k)' => Served(k) /\ call'[k] = call[k]
                         /\ \A kind : Asked(k, kind)' => Asked(k, kind) \/ c.kind = kind
<1>1. PICK s \in Slot : /\ Free(s) /\ call'[s] = c
                        /\ \A k \in Slot \ {s} : call'[k] = call[k]
  BY SendAdds
<1> SUFFICES ASSUME NEW k \in Slot
             PROVE  /\ Tells(k)' => Tells(k)
                    /\ Leaves(k) => Leaves(k)'
                    /\ Served(k)' => Served(k) /\ call'[k] = call[k]
                    /\ \A kind : Asked(k, kind)' => Asked(k, kind) \/ c.kind = kind
  OBVIOUS
<1>2. CASE k = s BY <1>1, <1>2 DEF Tells, Leaves, Served, Asked, Free
<1>3. CASE k # s BY <1>1, <1>3 DEF Tells, Leaves, Served, Asked, Free, EndsPicking
<1> QED BY <1>2, <1>3

\* Whatever the user does, what was told stays true: a quantity, the only call that
\* can undo it, takes back the flag, is sent from the lists with no box open, and past
\* an answer that ends picking only blindly.
LEMMA UserTells == ASSUME TInv, UserShape PROVE Alone' /\ CountsOK' /\ CodesOK' /\ Told'
<1> USE DEF UserShape
<1>a. CallsOK /\ Alone /\ CountsOK /\ CodesOK /\ Told BY DEF TInv, IInv
<1>b. UNCHANGED <<order, status>> BY DEF server
<1>c. CountsOK' BY <1>a, <1>b DEF CountsOK
<1>d. Completed(order)' <=> Completed(order) BY <1>b DEF Completed
<1>1. CASE UNCHANGED <<call, blind>>
  <2>1. \A k \in Slot : /\ Tells(k)' <=> Tells(k)
                        /\ Leaves(k)' <=> Leaves(k)
                        /\ \A kind : Asked(k, kind)' <=> Asked(k, kind)
    BY <1>1 DEF Tells, Leaves, Served, Asked, Free, EndsPicking
  <2>2. Alone' /\ CodesOK'
    BY <1>1, <1>a DEF Alone, CodesOK, CodeFits, Served, Free
  <2>3. Told' BY <1>1, <1>a, <1>b, <1>d, <2>1 DEF Told, Quiet
  <2> QED BY <1>c, <2>2, <2>3
<1>2. ASSUME NEW c \in Call, Send(c), c.reply = None,
             c.kind = "PickLine" =>
               page = "open" /\ box = <<>> /\ UNCHANGED <<page, box>> /\ ~saved',
             c.kind = "status" => InBox({"pickAll"})
      PROVE  Alone' /\ CountsOK' /\ CodesOK' /\ Told'
  <2>1. \A k \in Slot : /\ Tells(k)' => Tells(k)
                        /\ Leaves(k) => Leaves(k)'
                        /\ Served(k)' => Served(k) /\ call'[k] = call[k]
                        /\ \A kind : Asked(k, kind)' => Asked(k, kind) \/ c.kind = kind
    BY <1>2, <1>a, SendTells
  <2>2. Alone' BY <1>2, <1>a, SendKeepsAlone
  <2>3. CodesOK' BY <1>a, <2>1 DEF CodesOK, CodeFits
  <2>4. Told'
    <3> SUFFICES ASSUME ~blind' PROVE Told' BY DEF Told
    <3>1. ~blind /\ \A k \in Slot : ~Free(k) =>
            \/ c.kind \notin Changing /\ call[k].kind \notin Changing
            \/ "print" \in {c.kind, call[k].kind}
      BY <1>2, <1>a, SendAdds
    <3>2. c.kind # "PickLine" => (Quiet => Quiet') BY <1>d, <2>1 DEF Quiet
    <3>3. c.kind = "PickLine" => ~saved' /\ page' # "label" /\ ~InBox({"pickAll"})'
      BY <1>2 DEF InBox
    <3>4. c.kind = "PickLine" => \A k \in Slot : ~Leaves(k)
      BY <3>1 DEF Leaves, Tells, Served, Changing, Kind
    <3>5. \A k \in Slot : Tells(k)' \/ Asked(k, "status")' => Completed(order)'
      BY <1>2, <1>a, <1>d, <2>1, <3>1 DEF Told, Quiet
    <3>6. (saved \/ page = "label" \/ InBox({"pickAll"}) => Quiet)'
      BY <1>a, <3>1, <3>2, <3>3 DEF Told
    <3>7. (status = "picked" => /\ Quiet
                                /\ page \in {"open", "label"} => \E k \in Slot : Leaves(k))'
      <4>1. status = "picked" => Quiet /\ \E k \in Slot : Leaves(k)
        BY <1>a, <3>1 DEF Told
      <4>2. status = "picked" => Quiet' BY <3>2, <3>4, <4>1
      <4> QED BY <1>b, <2>1, <4>1, <4>2
    <3> QED BY <3>5, <3>6, <3>7 DEF Told
  <2> QED BY <1>c, <2>2, <2>3, <2>4
<1> QED BY <1>1, <1>2

-----------------------------------------------------------------------------
(* The server *)

\* An answer goes into the slot of its call.
LEMMA RespondSets ==
  ASSUME CallsOK, NEW s \in Slot, ~Free(s), NEW code \in Code, NEW lines, GoodLines(lines),
         Respond(s, code, lines)
  PROVE  /\ \A k \in Slot \ {s} : call'[k] = call[k]
         /\ ~Free(s)' /\ call'[s].kind = call[s].kind /\ call'[s].line = call[s].line
         /\ call'[s].list = call[s].list
         /\ call'[s].reply.code = code /\ call'[s].reply.lines = lines
         /\ Served(s)'
<1>1. call[s] \in Call BY DEF CallsOK, Free
<1>2. Answer(code, lines) \in Reply BY DEF Answer, Reply, GoodLines
<1>3. call'[s] = [call[s] EXCEPT !.reply = Answer(code, lines)] BY DEF Respond, CallsOK
<1>4. call'[s] \in Call BY <1>1, <1>2, <1>3 DEF Call
<1>5. call'[s] # None /\ Answer(code, lines) # None BY <1>2, <1>4, RecordAssumption
<1>6. call'[s].reply = Answer(code, lines) BY <1>1, <1>3 DEF Call
<1> QED BY <1>1, <1>3, <1>5, <1>6 DEF Answer, Respond, CallsOK, Free, Served, Call

\* What all steps of the server have in common: only a quantity undoes what is
\* complete, an answer that ends picking is true, and the status changes only with one.
ServeShape(s) ==
  /\ ~Free(s) /\ call[s].reply = None /\ UNCHANGED <<screen, acts, listed, blind>>
  /\ \E code \in Code : \E lines : GoodLines(lines) /\ Respond(s, code, lines)
  /\ CountsOK' /\ CodeFits(call[s])'
  /\ call[s].kind # "PickLine" /\ Completed(order) => Completed(order)'
  /\ EndsPicking(call[s])' /\ (call[s].kind = "status" => Completed(order)) => Completed(order)'
  /\ status' = "picked" => status = "picked" \/ (EndsPicking(call[s])' /\ call[s].kind \in {"next", "status"})

\* Counting a line keeps it in its bounds.
LEMMA CountFits ==
  ASSUME OrderOK, CountsOK, NEW l \in Line, NEW n \in Nat, n <= order[l].qty,
         order' = Counted(l, n)
  PROVE  /\ CountsOK' /\ OrderOK' /\ GoodLines(Only(l, order'))
         /\ n = order[l].qty /\ Completed(order) => Completed(order)'
<1>1. order' = [order EXCEPT ![l] = [order[l] EXCEPT !.picked = n, !.done = (n = order[l].qty)]]
  BY DEF Counted, OrderOK
<1>2. \A k \in Line \ {l} : order'[k] = order[k] BY <1>1 DEF OrderOK
<1>3. order'[l] = [order[l] EXCEPT !.picked = n, !.done = (n = order[l].qty)]
  BY <1>1 DEF OrderOK
<1>4. order[l] \in OrderLine BY DEF OrderOK
<1>5. order'[l].picked = n /\ order'[l].qty = order[l].qty /\ order'[l].done = (n = order[l].qty)
  BY <1>3, <1>4 DEF OrderLine
<1> QED BY <1>2, <1>5, CountKeeps DEF CountsOK, Completed

LEMMA ServeShapes == ASSUME TInv, NEW s \in Slot, Serve(s) PROVE ServeShape(s)
<1> USE DEF ServeShape
<1>a. OrderOK /\ CallsOK /\ CountsOK BY DEF TInv, IInv
<1>b. ~Free(s) => call[s] \in Call /\ GoodCall(call[s]) BY <1>a DEF CallsOK, Free
<1>c. UNCHANGED <<screen, acts, listed, blind>> BY DEF Serve
<1>d. UNCHANGED order => CountsOK' /\ (Completed(order)' <=> Completed(order))
  BY <1>a DEF CountsOK, Completed
<1>e. \A code \in Code : \A lines : GoodLines(lines) /\ Respond(s, code, lines) /\ ~Free(s) =>
        call'[s].kind = call[s].kind /\ call'[s].reply.code = code
  BY <1>a, RespondSets
<1>f. \A code \in Code : ~Free(s) /\ Respond(s, code, NoLines) =>
        /\ \E c \in Code : \E lines : GoodLines(lines) /\ Respond(s, c, lines)
        /\ call'[s].kind = call[s].kind /\ call'[s].reply.code = code
  BY <1>e, NoLinesAreGood
<1>g. \A l \in Line : order[l] \in OrderLine /\ order[l].qty \in Nat /\ order[l].picked \in Nat
                      /\ Whole(l, order[l]) /\ Ordered[l] \in Nat
  BY <1>a, LineAssumption DEF OrderOK, OrderLine
<1>1. CASE ServeQuantity(s)
  <2> DEFINE l == call[s].line
             n == IF call[s].kind = "PickLine" THEN call[s].picked ELSE order[l].qty
  <2>1. ~Free(s) /\ l \in Line /\ call[s].reply = None /\ call[s].kind \in {"PickLine", "PickAllLine"}
    BY <1>1, <1>b DEF ServeQuantity, Asked, GoodCall, OfOneLine
  <2>2. n \in Nat BY <1>b, <1>g, <2>1 DEF Call
  <2>3. CASE n <= order[l].qty
    <3>1. order' = Counted(l, n) /\ Respond(s, "ok", Only(l, order')) /\ UNCHANGED status
      BY <1>1, <2>3 DEF ServeQuantity
    <3>2. CountsOK' /\ GoodLines(Only(l, order'))
          /\ (n = order[l].qty /\ Completed(order) => Completed(order)')
      BY <1>a, <2>1, <2>2, <2>3, <3>1, CountFits
    <3>3. call'[s].kind = call[s].kind /\ call'[s].reply.code = "ok"
      BY <1>e, <2>1, <3>1, <3>2 DEF Code
    <3>4. CodeFits(call[s])' /\ ~EndsPicking(call[s])'
      BY <2>1, <3>3 DEF CodeFits, EndsPicking
    <3> QED BY <1>c, <2>1, <3>1, <3>2, <3>4 DEF Code
  <2>4. CASE ~(n <= order[l].qty)
    <3>1. UNCHANGED <<order, status>> /\ Respond(s, "error", NoLines)
      BY <1>1, <2>4 DEF ServeQuantity
    <3>2. CodeFits(call[s])' /\ ~EndsPicking(call[s])'
      BY <1>f, <2>1, <3>1 DEF CodeFits, EndsPicking, Code
    <3> QED BY <1>c, <1>d, <1>f, <2>1, <3>1, <3>2 DEF Code
  <2> QED BY <2>3, <2>4
<1>2. CASE ServePickAll(s)
  <2>1. order' = [l \in Line |-> [order[l] EXCEPT !.picked = order[l].qty, !.done = TRUE]]
        /\ Respond(s, "ok", NoLines) /\ UNCHANGED status
        /\ ~Free(s) /\ call[s].reply = None /\ call[s].kind = "PickAll"
    BY <1>2 DEF ServePickAll, Asked
  <2>2. ASSUME NEW l \in Line
        PROVE  order'[l].picked = order[l].qty /\ order'[l].qty = order[l].qty /\ order'[l].done
    <3>1. order'[l] = [order[l] EXCEPT !.picked = order[l].qty, !.done = TRUE] BY <2>1
    <3> QED BY <1>g, <3>1 DEF OrderLine
  <2>3. CountsOK' /\ Completed(order)' BY <1>g, <2>2 DEF CountsOK, Completed
  <2>4. CodeFits(call[s])' BY <1>f, <2>1 DEF CodeFits, Code
  <2> QED BY <1>c, <1>f, <2>1, <2>3, <2>4 DEF Code
<1>3. CASE ServeShortage(s)
  <2> DEFINE c == call[s]
             r == Shortened(c.qty, c.short)
             code == IF Cancelled(order') THEN "ShowCancelPopup" ELSE "ok"
  <2>1. ~Free(s) /\ c.line \in Line /\ c \in Call /\ Whole(c.line, c) /\ c.reply = None
        /\ c.kind = "MarkLineAsShortage"
    BY <1>3, <1>b DEF ServeShortage, Asked, GoodCall, OfOneLine
  <2>2. r \in OrderLine /\ Whole(c.line, r) /\ r.picked <= Ordered[c.line]
        /\ r.picked = r.qty /\ r.qty \in Nat /\ r.done
    BY <1>g, <2>1 DEF Shortened, OrderLine, Whole, Call
  <2>3. order' = [order EXCEPT ![c.line] = r] /\ Respond(s, code, Only(c.line, order'))
        /\ UNCHANGED status
    BY <1>3 DEF ServeShortage
  <2>4. GoodLines(Only(c.line, order')) BY <1>a, <2>1, <2>2, <2>3, RecordKeeps
  <2>5. \A l \in Line : order'[l] = IF l = c.line THEN r ELSE order[l] BY <1>a, <2>1, <2>3 DEF OrderOK
  <2>6. CountsOK' /\ (Completed(order) => Completed(order)')
    BY <1>a, <2>2, <2>5 DEF CountsOK, Completed
  <2>7. code \in Code BY DEF Code
  <2>8. call'[s].kind = c.kind /\ call'[s].reply.code = code BY <1>e, <2>1, <2>3, <2>4, <2>7
  <2>9. CodeFits(call[s])' /\ ~EndsPicking(call[s])'
    BY <2>1, <2>8 DEF CodeFits, EndsPicking
  <2> QED BY <1>c, <2>1, <2>3, <2>4, <2>6, <2>7, <2>9
<1>4. CASE ServeAllShortages(s)
  <2> DEFINE code == IF Cancelled(order') THEN "ShowCancelPopup" ELSE "MarkAllLinesShortage"
             r(l) == Shortened(order[l].picked, (order[l].qty - order[l].picked) + order[l].short)
  <2>1. /\ order' = [l \in Line |-> IF order[l].done THEN order[l] ELSE r(l)]
        /\ Respond(s, code, NoLines) /\ UNCHANGED status
        /\ ~Free(s) /\ call[s].reply = None /\ call[s].kind = "MarkAllLinesShortage"
    BY <1>4 DEF ServeAllShortages, Asked
  <2>2. code \in Code BY DEF Code
  <2>3. ASSUME NEW l \in Line
        PROVE  order'[l].done /\ order'[l].picked = order'[l].qty /\ order'[l].picked \in Nat
    <3>1. CASE order[l].done BY <1>a, <1>g, <2>1, <3>1 DEF CountsOK
    <3>2. CASE ~order[l].done BY <1>g, <2>1, <3>2 DEF Shortened
    <3> QED BY <3>1, <3>2
  <2>4. CountsOK' /\ Completed(order)' BY <2>3 DEF CountsOK, Completed
  <2>5. CodeFits(call[s])' BY <1>f, <2>1, <2>2 DEF CodeFits
  <2> QED BY <1>c, <1>f, <2>1, <2>2, <2>4, <2>5
<1>5. CASE ServeBarcode(s)
  <2> DEFINE l == call[s].line
  <2>1. ~Free(s) /\ l \in Line \cup {None} /\ call[s].reply = None /\ call[s].kind = "scan"
    BY <1>5, <1>b DEF ServeBarcode, Asked, Call
  <2>2. CASE l # None /\ order[l].picked < order[l].qty
    <3>1. order' = Counted(l, order[l].picked + 1) /\ Respond(s, "ok", Only(l, order'))
          /\ UNCHANGED status
      BY <1>5, <2>2 DEF ServeBarcode
    <3>2. l \in Line BY <2>1, <2>2
    <3>3. order[l].picked + 1 \in Nat /\ order[l].picked + 1 <= order[l].qty
      BY <1>g, <2>2, <3>2
    <3>4. CountsOK' /\ GoodLines(Only(l, order')) BY <1>a, <3>1, <3>2, <3>3, CountFits
    <3>5. ~Completed(order) BY <1>a, <1>g, <2>2, <3>2 DEF CountsOK, Completed
    <3>6. CodeFits(call[s])' /\ ~EndsPicking(call[s])'
      BY <1>e, <2>1, <3>1, <3>4 DEF CodeFits, EndsPicking, Code
    <3> QED BY <1>c, <2>1, <3>1, <3>4, <3>5, <3>6 DEF Code
  <2>3. CASE ~(l # None /\ order[l].picked < order[l].qty)
    <3>1. UNCHANGED <<order, status>> /\ Respond(s, "error", NoLines)
      BY <1>5, <2>3 DEF ServeBarcode
    <3>2. CodeFits(call[s])' /\ ~EndsPicking(call[s])'
      BY <1>f, <2>1, <3>1 DEF CodeFits, EndsPicking, Code
    <3> QED BY <1>c, <1>d, <1>f, <2>1, <3>1, <3>2 DEF Code
  <2> QED BY <2>2, <2>3
<1>6. CASE ServeList(s)
  <2> DEFINE lines == [l \in Line |-> IF call[s].list = "allItems" /\ order[l].done
                                      THEN None ELSE order[l]]
  <2>1. GoodLines(lines) BY <1>a DEF OrderOK, GoodLines
  <2>2. UNCHANGED <<order, status>> /\ Respond(s, "ok", lines) /\ ~Free(s)
        /\ call[s].reply = None /\ call[s].kind = "load"
    BY <1>6 DEF ServeList, server, Asked
  <2>3. CodeFits(call[s])' /\ ~EndsPicking(call[s])'
    BY <1>e, <2>1, <2>2 DEF CodeFits, EndsPicking, Code
  <2> QED BY <1>c, <1>d, <2>1, <2>2, <2>3 DEF Code
<1>7. CASE ServeCount(s)
  <2> DEFINE code == IF Completed(order) THEN "0" ELSE "left"
  <2>1. Respond(s, code, NoLines) /\ code \in Code BY <1>7 DEF ServeCount, Code
  <2>2. UNCHANGED <<order, status>> /\ ~Free(s) /\ call[s].reply = None /\ call[s].kind = "count"
    BY <1>7 DEF ServeCount, server, Asked
  <2>3. CodeFits(call[s])' /\ (EndsPicking(call[s])' => Completed(order))
    BY <1>f, <2>1, <2>2 DEF CodeFits, EndsPicking
  <2> QED BY <1>c, <1>d, <1>f, <2>1, <2>2, <2>3
<1>8. CASE ServeNext(s)
  <2>1. UNCHANGED order /\ ~Free(s) /\ call[s].reply = None /\ call[s].kind = "next"
    BY <1>8 DEF ServeNext, Asked
  <2>2. PICK code \in {"ShowCancelPopup", "GotoNextScreen", "ShowLinesNotPickedPopup"} :
          /\ Respond(s, code, NoLines)
          /\ code = "GotoNextScreen" => Completed(order)
          /\ code # "GotoNextScreen" => UNCHANGED status
    BY <1>8 DEF ServeNext
  <2>3. CodeFits(call[s])' /\ (EndsPicking(call[s])' <=> code = "GotoNextScreen")
    BY <1>f, <2>1, <2>2 DEF CodeFits, EndsPicking, Code
  <2> QED BY <1>c, <1>d, <1>f, <2>1, <2>2, <2>3 DEF Code
<1>9. CASE ServeStatus(s)
  <2>1. Respond(s, "ok", NoLines) /\ UNCHANGED order /\ ~Free(s) /\ status' = "picked"
        /\ call[s].reply = None /\ call[s].kind = "status"
    BY <1>9 DEF ServeStatus, Asked
  <2>2. CodeFits(call[s])' /\ EndsPicking(call[s])'
    BY <1>f, <2>1 DEF CodeFits, EndsPicking, Code
  <2> QED BY <1>c, <1>d, <1>f, <2>1, <2>2 DEF Code
<1>10. CASE ServePrint(s)
  <2>1. PICK code \in {"ok", "noOrder"} : Respond(s, code, NoLines) BY <1>10 DEF ServePrint
  <2>2. UNCHANGED <<order, status>> /\ ~Free(s) /\ call[s].reply = None /\ call[s].kind = "print"
    BY <1>10 DEF ServePrint, server, Asked
  <2>3. CodeFits(call[s])' /\ ~EndsPicking(call[s])'
    BY <1>f, <2>1, <2>2 DEF CodeFits, EndsPicking, Code
  <2> QED BY <1>c, <1>d, <1>f, <2>1, <2>2, <2>3 DEF Code
<1> QED BY <1>1, <1>2, <1>3, <1>4, <1>5, <1>6, <1>7, <1>8, <1>9, <1>10 DEF Serve

\* Whatever is served, what was told stays true: no quantity is on its way while an
\* answer that ends picking is, or while something was concluded from one.
LEMMA ServeTells ==
  ASSUME TInv, NEW s \in Slot, ServeShape(s)
  PROVE  Alone' /\ CountsOK' /\ CodesOK' /\ Told'
<1> USE DEF ServeShape
<1>a. CallsOK /\ Alone /\ CountsOK /\ CodesOK /\ Told BY DEF TInv, IInv
<1>b. UNCHANGED <<blind, saved, box, page>> BY DEF screen
<1>1. PICK code, lines : code \in Code /\ GoodLines(lines) /\ Respond(s, code, lines) OBVIOUS
<1>2. /\ \A k \in Slot \ {s} : call'[k] = call[k]
      /\ ~Free(s)' /\ Served(s)' /\ call'[s].kind = call[s].kind
  BY <1>1, <1>a, RespondSets
<1>3. \A k \in Slot : (Free(k)' <=> Free(k)) /\ (~Free(k) => call'[k].kind = call[k].kind)
  BY <1>2 DEF Free
<1>4. Alone' BY <1>a, <1>b, <1>3 DEF Alone
<1>5. CodesOK' BY <1>a, <1>2 DEF CodesOK, CodeFits, Served, Free
<1>6. \A k \in Slot \ {s} : /\ Tells(k)' <=> Tells(k)
                            /\ Leaves(k)' <=> Leaves(k)
                            /\ \A kind : Asked(k, kind)' <=> Asked(k, kind)
  BY <1>2 DEF Tells, Leaves, Served, Asked, Free, EndsPicking
<1>7. /\ \A kind : ~Asked(s, kind)' /\ (call[s].kind = kind => Asked(s, kind))
      /\ ~Tells(s) /\ (Tells(s)' <=> EndsPicking(call[s])')
  BY <1>2 DEF Asked, Served, Tells
<1>8. ASSUME ~blind PROVE Told'
  <2>1. ASSUME NEW k \in Slot, Tells(k)' \/ Asked(k, "status")' PROVE Completed(order)'
    <3>1. CASE k = s BY <1>7, <1>8, <1>a, <2>1, <3>1 DEF Told
    <3>2. CASE k # s
      <4>1. ~Free(k) /\ call[k].kind # "print" /\ Completed(order)
        BY <1>6, <1>8, <1>a, <2>1, <3>2 DEF Told, Tells, Served, Asked, EndsPicking
      <4>2. call[s].kind # "PickLine" BY <1>8, <1>a, <3>2, <4>1 DEF Alone, Changing, Kind
      <4> QED BY <4>1, <4>2
    <3> QED BY <3>1, <3>2
  <2>2. Quiet => Quiet' BY <1>6, <1>7 DEF Quiet
  <2>3. (saved \/ page = "label" \/ InBox({"pickAll"}) => Quiet)'
    BY <1>8, <1>a, <1>b, <2>2 DEF Told, InBox
  <2>4. ASSUME status' = "picked"
        PROVE  Quiet' /\ (page' \in {"open", "label"} => \E k \in Slot : Leaves(k)')
    <3>1. CASE status = "picked"
      <4>1. \A k \in Slot : Leaves(k) => k # s BY <1>7 DEF Leaves
      <4> QED BY <1>6, <1>8, <1>a, <1>b, <2>2, <3>1, <4>1 DEF Told
    <3>2. CASE EndsPicking(call[s])' /\ call[s].kind \in {"next", "status"}
      <4>1. Leaves(s)' /\ Completed(order)' BY <1>2, <1>7, <2>1, <3>2 DEF Leaves
      <4>2. ASSUME NEW k \in Slot, Asked(k, "PickLine")' PROVE FALSE
        <5>1. k # s /\ Asked(k, "PickLine") BY <1>6, <1>7, <4>2
        <5> QED BY <1>8, <1>a, <3>2, <5>1 DEF Alone, Asked, Changing, Kind
      <4> QED BY <4>1, <4>2 DEF Quiet
    <3> QED BY <2>4, <3>1, <3>2
  <2> QED BY <2>1, <2>3, <2>4 DEF Told
<1> QED BY <1>4, <1>5, <1>8, <1>b DEF Told

-----------------------------------------------------------------------------
(* Answers *)

\* What all answers have in common: a flag, a label and the box of "pick all" follow
\* only from an answer that ends picking, and the page is left with a final one.
ReceiveShape(s) ==
  /\ Served(s) /\ page \in {"open", "label"} /\ UNCHANGED <<server, acts>>
  /\ \/ Done(s)
     \/ /\ call[s].kind = "count"
        /\ \E c \in Call : /\ c.kind = "load" /\ c.reply = None
                           /\ call' = [call EXCEPT ![s] = c] /\ blind' = (blind \/ Blind(c))
  /\ Leaves(s) => page' \notin {"open", "label"}
  /\ page' \in {page, "confirmed", "hold"} \/ (page' = "label" /\ Tells(s))
  /\ saved' => saved \/ Tells(s)
  /\ InBox({"pickAll"})' => InBox({"pickAll"}) \/ Tells(s)

LEMMA ReceiveShapes == ASSUME TInv, NEW s \in Slot, HandleMashupOutput(s) PROVE ReceiveShape(s)
<1> USE DEF ReceiveShape
<1>a. RestOK /\ CodesOK BY DEF TInv, IInv
<1>b. UNCHANGED <<server, acts>> BY DEF HandleMashupOutput
<1>c. \A kinds : Answered(s, kinds) =>
        Served(s) /\ page \in {"open", "label"} /\ call[s].kind \in kinds /\ CodeFits(call[s])
  BY <1>a DEF Answered, Served, CodesOK
<1>d. UNCHANGED box => (InBox({"pickAll"})' => InBox({"pickAll"})) BY DEF InBox
<1>e. \A b \in {"error", "notPicked", "cancel"} : Open(b, None) =>
        (InBox({"pickAll"})' => InBox({"pickAll"}))
  <2> TAKE b \in {"error", "notPicked", "cancel"}
  <2>1. [name |-> b, line |-> None] \in Box BY DEF Box
  <2> QED BY <1>a, <2>1, BoxNames
<1>1. CASE ReceiveList(s) BY <1>1, <1>b, <1>c, <1>d DEF ReceiveList, Leaves
<1>2. CASE CustomError(s)
  BY <1>2, <1>b, <1>c, <1>e DEF CustomError, Leaves, CodeFits, CodeOf
<1>3. CASE UpdateProductQuantity(s) BY <1>3, <1>b, <1>c, <1>d DEF UpdateProductQuantity, Leaves
<1>4. CASE RefreshShipmentLine(s)
  <2>1. Served(s) /\ page \in {"open", "label"} /\ call[s].kind \in LineKinds /\ CodeFits(call[s])
        /\ Done(s) /\ UNCHANGED <<saved, page>>
    BY <1>4, <1>c DEF RefreshShipmentLine
  <2>2. ~Leaves(s) BY <2>1 DEF Leaves, LineKinds
  <2>3. CodeOf(s) = "MarkAllLinesShortage" => Tells(s)
    BY <2>1 DEF CodeFits, CodeOf, Tells, EndsPicking
  <2>4. InBox({"pickAll"})' => InBox({"pickAll"}) \/ Tells(s)
    BY <1>4, <1>d, <1>e, <2>3 DEF RefreshShipmentLine
  <2> QED BY <1>b, <2>1, <2>2, <2>4
<1>5. CASE ShowConfirmMsgBoxAfterPickAll(s)
  BY <1>5, <1>b, <1>c DEF ShowConfirmMsgBoxAfterPickAll, Tells, EndsPicking, Leaves
<1>6. CASE ShowHideShipmentLineList(s)
  <2>1. Served(s) /\ page \in {"open", "label"} /\ call[s].kind = "count" /\ ~Leaves(s)
        /\ UNCHANGED <<saved, box>>
    BY <1>6, <1>c DEF ShowHideShipmentLineList, Leaves
  <2>2. CASE CodeOf(s) = "0" /\ page' = "label" /\ Done(s)
    <3>1. Tells(s) BY <2>1, <2>2 DEF Tells, EndsPicking, CodeOf
    <3> QED BY <1>b, <1>d, <2>1, <2>2, <3>1
  <2>3. CASE /\ UNCHANGED page /\ call' = [call EXCEPT ![s] = LoadOf("shortItems")]
             /\ blind' = (blind \/ Blind(LoadOf("shortItems")))
    <3>1. LoadOf("shortItems") = [Ask("load") EXCEPT !.list = "shortItems"]
      BY DEF LoadOf, ShowsUnloaded
    <3>2. LoadOf("shortItems") \in Call /\ LoadOf("shortItems").kind = "load"
          /\ LoadOf("shortItems").reply = None
      BY <3>1, AsksAreGood DEF GoodAsk, Tab, Ask
    <3> QED BY <1>b, <1>d, <2>1, <2>3, <3>2
  <2> QED BY <1>6, <2>2, <2>3 DEF ShowHideShipmentLineList
<1>7. CASE CanProceedToNextScreen(s)
  <2>1. Served(s) /\ page \in {"open", "label"} /\ call[s].kind = "next" /\ Done(s) /\ UNCHANGED saved
    BY <1>7, <1>c DEF CanProceedToNextScreen
  <2>2. \/ page' = "confirmed" /\ UNCHANGED box
        \/ CodeOf(s) # "GotoNextScreen" /\ UNCHANGED page
           /\ (Open("cancel", None) \/ Open("notPicked", None))
    BY <1>7 DEF CanProceedToNextScreen, GotoNextScreen
  <2>3. Leaves(s) => CodeOf(s) = "GotoNextScreen" BY <2>1 DEF Leaves, Tells, EndsPicking, CodeOf
  <2> QED BY <1>b, <1>d, <1>e, <2>1, <2>2, <2>3
<1>8. CASE StatusSaved(s) BY <1>8, <1>b, <1>c, <1>d DEF StatusSaved, GotoNextScreen
<1>9. CASE PrintDetails(s) BY <1>9, <1>b, <1>c, <1>d DEF PrintDetails, Leaves
<1> QED BY <1>1, <1>2, <1>3, <1>4, <1>5, <1>6, <1>7, <1>8, <1>9 DEF HandleMashupOutput

LEMMA ReceiveTells ==
  ASSUME TInv, NEW s \in Slot, ReceiveShape(s)
  PROVE  Alone' /\ CountsOK' /\ CodesOK' /\ Told'
<1> USE DEF ReceiveShape
<1>a. CallsOK /\ Alone /\ CountsOK /\ CodesOK /\ Told BY DEF TInv, IInv
<1>b. UNCHANGED <<order, status>> BY DEF server
<1>c. CountsOK' BY <1>a, <1>b DEF CountsOK
<1>1. \A k \in Slot \ {s} : call'[k] = call[k] BY <1>a DEF CallsOK, Done
<1>2. Free(s)' \/ (call'[s].kind = "load" /\ call'[s].reply = None)
  BY <1>a DEF CallsOK, Done, Free
<1>3. blind => blind' BY DEF Done
<1>4. /\ \A k \in Slot \ {s} : /\ Tells(k)' <=> Tells(k)
                               /\ Leaves(k)' <=> Leaves(k)
                               /\ \A kind : Asked(k, kind)' <=> Asked(k, kind)
      /\ ~Served(s)' /\ ~Tells(s)' /\ \A kind : Asked(s, kind)' => kind = "load"
  BY <1>1, <1>2 DEF Tells, Leaves, Served, Asked, Free, EndsPicking
<1>5. CodesOK' BY <1>a, <1>1, <1>4 DEF CodesOK, CodeFits, Served, Free
<1>6. Alone'
  <2> SUFFICES ASSUME ~blind', NEW i \in Slot, NEW k \in Slot, i # k, ~Free(i)', ~Free(k)',
                      call'[i].kind \in Changing
               PROVE  call'[k].kind = "print"
    BY DEF Alone
  <2>1. CASE i # s /\ k # s BY <1>1, <1>3, <1>a, <2>1 DEF Alone, Free
  <2>2. CASE i = s BY <1>2, <2>2 DEF Changing
  <2>3. CASE k = s
    <3>1. PICK c \in Call : c.kind = "load" /\ blind' = (blind \/ Blind(c))
      BY <2>3, <1>a DEF Done, CallsOK, Free
    <3>2. ~Free(i) /\ call[i].kind \in Changing BY <1>1, <2>3 DEF Free
    <3>3. Blind(c) BY <3>1, <3>2 DEF Blind, Changing
    <3> QED BY <3>1, <3>3
  <2> QED BY <2>1, <2>2, <2>3
<1>7. ASSUME ~blind' PROVE Told'
  <2>1. Completed(order)' <=> Completed(order) BY <1>b DEF Completed
  <2>2. Quiet => Quiet' BY <1>4, <2>1 DEF Quiet
  <2>3. Tells(s) => Quiet
    <3> SUFFICES ASSUME Tells(s), NEW k \in Slot, Asked(k, "PickLine") PROVE FALSE
      BY <1>3, <1>7, <1>a DEF Told, Quiet
    <3>1. k # s BY DEF Tells, Served, Asked
    <3>2. call[s].kind = "print" BY <1>3, <1>7, <1>a, <3>1 DEF Alone, Asked, Tells, Served, Changing, Kind
    <3> QED BY <3>2 DEF Tells, EndsPicking
  <2>4. \A k \in Slot : Tells(k)' \/ Asked(k, "status")' => Completed(order)'
    BY <1>3, <1>4, <1>7, <1>a, <2>1 DEF Told
  <2>5. (saved \/ page = "label" \/ InBox({"pickAll"}) => Quiet)'
    BY <1>3, <1>7, <1>a, <2>2, <2>3 DEF Told
  <2>6. (status = "picked" => /\ Quiet
                              /\ page \in {"open", "label"} => \E k \in Slot : Leaves(k))'
    BY <1>b, <1>3, <1>4, <1>7, <1>a, <2>2 DEF Told
  <2> QED BY <2>4, <2>5, <2>6 DEF Told
<1> QED BY <1>5, <1>6, <1>7, <1>c DEF Told

-----------------------------------------------------------------------------
\* Nothing was told when the screen is opened.
LEMMA InitTells == Init => TInv
<1> SUFFICES ASSUME Init PROVE TInv OBVIOUS
<1>1. IInv BY InitOK
<1>2. LoadOf("shortItems").kind = "load" /\ LoadOf("shortItems").reply = None
  BY DEF LoadOf, ShowsUnloaded, Ask
<1>3. \A s \in Slot : ~Free(s) => call[s].kind = "load" /\ call[s].reply = None /\ s = 1
  BY <1>2 DEF Init, Free
<1>4. Alone BY <1>3 DEF Alone
<1>5. CountsOK BY OpeningAssumption DEF Init, CountsOK
<1>6. CodesOK BY <1>3 DEF CodesOK, Served
<1>7. Told
  <2>1. ~InBox({"pickAll"}) BY DEF Init, InBox
  <2> QED BY <1>3, <2>1 DEF Init, Told, Tells, Served, Asked
<1> QED BY <1>1, <1>4, <1>5, <1>6, <1>7 DEF TInv

LEMMA StepTells == TInv /\ [Next]_vars => TInv'
<1> SUFFICES ASSUME TInv, [Next]_vars PROVE TInv' OBVIOUS
<1>1. IInv /\ IInv' BY StepKeeps DEF TInv
<1>2. CASE UNCHANGED vars
  <2>1. UNCHANGED <<order, status, call, blind, saved, page, box>>
    BY <1>2 DEF vars, server, screen
  <2>2. Alone' BY <2>1 DEF TInv, Alone, Free
  <2>3. CountsOK' BY <2>1 DEF TInv, CountsOK
  <2>4. CodesOK' BY <2>1 DEF TInv, CodesOK, CodeFits, Served, Free
  <2>5. Told'
    BY <2>1 DEF TInv, Told, Tells, Leaves, Served, EndsPicking, Asked, Free, Quiet, Completed, InBox
  <2> QED BY <1>1, <2>2, <2>3, <2>4, <2>5 DEF TInv
<1>3. CASE User BY <1>1, <1>3, UserShapes, UserTells DEF TInv
<1>4. ASSUME NEW s \in Slot, Serve(s) PROVE TInv'
  BY <1>1, <1>4, ServeShapes, ServeTells DEF TInv
<1>5. ASSUME NEW s \in Slot, HandleMashupOutput(s) PROVE TInv'
  BY <1>1, <1>5, ReceiveShapes, ReceiveTells DEF TInv
<1> QED BY <1>2, <1>3, <1>4, <1>5 DEF Next

\* The message that all lines are picked completely, and the label that takes the place
\* of the lists, tell the truth (pickAll, showHideShipmentLineList), unless a change was
\* sent past another call.
THEOREM AllPickedIsTrueHolds == Spec => []AllPickedIsTrue
<1>1. TInv => AllPickedIsTrue BY DEF TInv, Told, Quiet, AllPickedIsTrue
<1> QED BY InitTells, StepTells, <1>1, PTL DEF Spec

\* A shipment gets the status that ends picking only with every line picked or short,
\* whichever way it is finished (canProceedToNextScreen, handlePickAllConfirmation).
THEOREM PickedMeansCompleteHolds == Spec => []PickedMeansComplete
<1>1. TInv => PickedMeansComplete BY DEF TInv, Told, Quiet, PickedMeansComplete
<1> QED BY InitTells, StepTells, <1>1, PTL DEF Spec

-----------------------------------------------------------------------------
(* The panels *)

(***************************************************************************)
(* For every shipment and every number of outstanding calls: the panels of *)
(* the sort screen show the server's lines, and the + of a panel picks one *)
(* more, unless a change was sent past another call or from a list that    *)
(* was not loaded.                                                         *)
(*                                                                         *)
(* A panel may differ from its line only while the reason is still there   *)
(* (Synced): the list is being loaded, the answer with the line is on its  *)
(* way, or the list is about to be left, because the shipment is complete  *)
(* or cancelled.  Whoever changes a line past such a reason is blind, so a *)
(* change that is not blind was made from panels that show the lines.      *)
(***************************************************************************)

SameNumbers(p, q) == /\ p.qty = q.qty /\ p.short = q.short
                     /\ p.shown = q.shown /\ p.done = q.done
Agrees(p, line) == SameNumbers(p, PanelOf(line))

InSync == \A l \in Line : panel[tab][l] # None => Agrees(panel[tab][l], order[l])

\* The list is being loaded.
Reloads(s) == ~Free(s) /\ call[s].kind = "load" /\ call[s].list = tab

\* The list is about to be left.
Last(c) == \/ c.kind \in {"PickAll", "MarkAllLinesShortage"}
           \/ c.kind = "MarkLineAsShortage" /\ c.reply.code = "ShowCancelPopup"
Closes(s) == ~Free(s) /\ (call[s].kind = "status" \/ (call[s].reply # None /\ Last(call[s])))
Closers == {"pickAll", "cancel"}

\* The answer on its way brings the numbers in which a panel differs.
OneOf == OfOneLine \cup {"scan"}
Near(s) ==
  /\ Served(s) /\ call[s].kind \in OneOf /\ CodeOf(s) = "ok"
  /\ \A l \in Line : panel[tab][l] # None =>
       IF LinesOf(s)[l] = None THEN Agrees(panel[tab][l], order[l])
       ELSE \/ order[l].short >= 1
            \/ panel[tab][l].qty = order[l].qty /\ panel[tab][l].short = order[l].short

Explained == InBox(Closers) \/ \E s \in Slot : Reloads(s) \/ Closes(s) \/ Near(s)
OnLists == page \in {"open", "label"} /\ tab \in listed

Synced == ~blind /\ OnLists => InSync \/ Explained

\* Answers carry the lines as they are.
Carries == ~blind => \A s \in Slot : Served(s) => \A l \in Line :
  /\ LinesOf(s)[l] \in {None, order[l]}
  /\ call[s].kind = "print" => LinesOf(s)[l] = None

\* What is asked was right when it was sent, and still is.
Fits(c) ==
  /\ c.kind = "MarkLineAsShortage" => c.short >= order[c.line].short
  /\ c.kind = "PickLine" /\ c.plus =>
       c.picked = order[c.line].picked + 1 /\ c.picked <= order[c.line].qty
Wants == ~blind => \A s \in Slot : ~Free(s) /\ call[s].reply = None => Fits(call[s])

\* The popup of a shortage is below all other boxes; a list that is listed is loaded
\* whenever it is shown.
ShortLast == \A i \in 1..Len(box) : box[i].name = "shortage" => i = Len(box)
ListedOK == "allItems" \in listed => painted

PInv == TInv /\ Synced /\ Carries /\ Wants /\ ShortLast /\ ListedOK

-----------------------------------------------------------------------------
\* A panel agrees with its line when only what was typed differs.
LEMMA AgreesIs ==
  ASSUME NEW p \in Panel, NEW r
  PROVE  Agrees(p, r) <=> [p EXCEPT !.typed = None] = PanelOf(r)
BY DEF Agrees, SameNumbers, Panel, PanelOf

\* Every list but the one that was there from the start is loaded when it is shown.
LEMMA ChangeReloads ==
  ASSUME CallsOK, ListedOK, NEW t \in Tab, ChangeTo(t)
  PROVE  ListedOK' /\ tab' = t /\ (t \in listed' => \E s \in Slot : Reloads(s)')
<1>1. tab' = t /\ painted' = (painted \/ t = "allItems")
      /\ listed' = IF LoadOf(t) = None THEN listed ELSE listed \cup {t}
  BY DEF ChangeTo, Show
<1>2. ListedOK' BY <1>1 DEF ListedOK
<1>3. CASE LoadOf(t) = None
  <2>1. ShowsUnloaded(t)
    <3>1. [Ask("load") EXCEPT !.list = t] \in Call BY AsksAreGood DEF GoodAsk
    <3> QED BY <1>3, <3>1, RecordAssumption DEF LoadOf
  <2>2. t \notin listed BY <2>1 DEF ShowsUnloaded, ListedOK
  <2> QED BY <1>1, <1>2, <1>3, <2>2
<1>4. CASE LoadOf(t) # None
  <2>1. Send(LoadOf(t)) BY <1>4 DEF ChangeTo
  <2>2. LoadOf(t) \in Call /\ LoadOf(t).kind = "load" /\ LoadOf(t).list = t
    BY <1>4, OtherAsks
  <2>3. PICK s \in Slot : call'[s] = LoadOf(t) BY <2>1, <2>2, <1>4, SendAdds
  <2>4. Reloads(s)' BY <1>1, <1>4, <2>2, <2>3 DEF Reloads, Free
  <2> QED BY <1>1, <1>2, <2>4
<1> QED BY <1>3, <1>4

\* A change of a line that is not blind is sent from panels that show the lines.
LEMMA SeesLines ==
  ASSUME PInv, NEW c \in Call, Send(c), ~blind', c.kind \in OfOneLine, c.line # None,
         page \in {"open", "label"}, ~InBox(Closers)
  PROVE  InSync
<1>1. CallsOK /\ Synced BY DEF PInv, TInv, IInv
<1>2. ~blind /\ \A k \in Slot : ~Free(k) =>
        \/ c.kind \notin Changing /\ call[k].kind \notin Changing
        \/ "print" \in {c.kind, call[k].kind}
  BY <1>1, SendAdds
<1>3. c.kind \in Changing /\ c.kind \notin {"print", "scan"} BY DEF OfOneLine, Changing, Kind
<1>4. \A k \in Slot : ~Free(k) => call[k].kind = "print" BY <1>2, <1>3
<1>5. \A k \in Slot : ~Reloads(k) /\ ~Closes(k) /\ ~Near(k)
  BY <1>4 DEF Reloads, Closes, Last, Near, Served, OneOf, OfOneLine
<1>6. tab \in listed BY <1>3 DEF Send, Blind
<1> QED BY <1>1, <1>2, <1>5, <1>6 DEF Synced, Explained, OnLists

\* The shortage popup stays at the bottom.
LEMMA ShortStays ==
  ASSUME RestOK, ShortLast
  PROVE  /\ UNCHANGED box => ShortLast'
         /\ \A b, l : [name |-> b, line |-> l] \in Box /\ Open(b, l)
                      /\ (b = "shortage" => box = <<>>) => ShortLast'
         /\ box # <<>> /\ Close => ShortLast'
         /\ Top("shortage") => ~InBox(Closers)
<1>a. box \in Seq(Box) BY DEF RestOK
<1>1. UNCHANGED box => ShortLast' BY DEF ShortLast
<1>2. ASSUME NEW b, NEW l, [name |-> b, line |-> l] \in Box, Open(b, l),
             b = "shortage" => box = <<>>
      PROVE  ShortLast'
  <2> DEFINE r == [name |-> b, line |-> l]
  <2>1. box' = <<r>> \o box /\ r.name = b BY <1>2 DEF Open
  <2>2. Len(box') = Len(box) + 1 /\ Len(box) \in Nat /\ box'[1] = r
        /\ \A i \in 1..Len(box) : box'[i + 1] = box[i]
    BY <1>a, <1>2, <2>1
  <2> SUFFICES ASSUME NEW i \in 1..Len(box'), box'[i].name = "shortage" PROVE i = Len(box')
    BY DEF ShortLast
  <2>3. CASE i = 1
    <3>1. box = <<>> BY <1>2, <2>1, <2>2, <2>3
    <3>2. Len(box) = 0 BY <3>1
    <3> QED BY <2>2, <2>3, <3>2
  <2>4. CASE i # 1
    <3>1. i - 1 \in 1..Len(box) /\ box'[(i - 1) + 1] = box[i - 1] BY <2>2, <2>4
    <3>2. i - 1 = Len(box) BY <3>1 DEF ShortLast
    <3> QED BY <2>2, <3>2
  <2> QED BY <2>3, <2>4
<1>3. box # <<>> => /\ Len(Tail(box)) = Len(box) - 1 /\ Len(box) \in Nat /\ Len(box) >= 1
                    /\ \A i \in 1..(Len(box) - 1) : Tail(box)[i] = box[i + 1]
                    /\ Head(box) = box[1]
  BY <1>a
<1>4. ASSUME box # <<>>, Close PROVE ShortLast'
  <2> SUFFICES ASSUME NEW i \in 1..Len(box'), box'[i].name = "shortage" PROVE i = Len(box')
    BY DEF ShortLast
  <2>1. i + 1 \in 1..Len(box) /\ box'[i] = box[i + 1] BY <1>3, <1>4 DEF Close
  <2>2. i + 1 = Len(box) BY <2>1 DEF ShortLast
  <2> QED BY <1>3, <1>4, <2>2 DEF Close
<1>5. ASSUME Top("shortage") PROVE ~InBox(Closers)
  <2>1. Len(box) = 1 /\ box[1].name = "shortage" BY <1>3, <1>5 DEF Top, ShortLast
  <2> QED BY <2>1 DEF InBox, Closers
<1> QED BY <1>1, <1>2, <1>4, <1>5

-----------------------------------------------------------------------------
(* What the user does *)

\* What all steps of the user have in common: only the texts of panels are touched, a
\* call fits the lines, and a reason for a difference stays or another takes its place.
TextsOnly == \A t \in Tab, l \in Line : panel'[t][l] # None =>
               panel[t][l] # None /\ SameNumbers(panel'[t][l], panel[t][l])
SendsFit == \/ UNCHANGED <<call, blind>>
            \/ \E c \in Call : Send(c) /\ c.reply = None /\ (~blind' => Fits(c))
KeepsReasons == \/ Stay /\ (InBox(Closers) => InBox(Closers)')
                \/ OnLists' => \E s \in Slot : Reloads(s)' \/ Closes(s)'
PanelShape == /\ page \in {"open", "label"} /\ UNCHANGED server /\ TextsOnly /\ SendsFit /\ KeepsReasons
              /\ ShortLast' /\ ListedOK'

LEMMA TextsKept == UNCHANGED panel => TextsOnly
BY DEF TextsOnly, SameNumbers

LEMMA StayKeeps == ListedOK /\ Stay => ListedOK'
BY DEF ListedOK, Stay

\* A call of another kind than a quantity or a shortage of one line fits.
LEMMA OthersFit ==
  ASSUME NEW c \in Call, c.reply = None, c.kind \notin {"PickLine", "MarkLineAsShortage"}, Send(c)
  PROVE  SendsFit
BY DEF SendsFit, Fits

LEMMA ShowsFit == ASSUME NEW t \in Tab, ChangeTo(t) PROVE SendsFit
<1>1. CASE LoadOf(t) = None BY <1>1 DEF ChangeTo, SendsFit
<1>2. CASE LoadOf(t) # None BY <1>2, OtherAsks, OthersFit DEF ChangeTo
<1> QED BY <1>1, <1>2

\* The + sends one more than is picked, unless it is blind.
LEMMA QuantityFits ==
  ASSUME PInv, NEW l \in Line, NEW step \in {-1, 0, 1}, ValidateAndUpdate(l, step)
  PROVE  SendsFit
<1> DEFINE p == panel[tab][l]
           v == TextOf(p) + step
           plus == step = 1 /\ p.typed = None
           c == PickLine(l, v, plus)
<1>1. p \in Panel /\ p # None
  BY DEF PInv, TInv, IInv, ViewOK, PanelsOK, ValidateAndUpdate, UserEdits
<1>2. v \in Nat /\ v <= p.qty BY <1>1 DEF ValidateAndUpdate, InRange, Panel
<1>3. c \in Call /\ c.reply = None /\ c.kind = "PickLine" /\ c.line = l /\ c.plus = plus
      /\ c.picked = v
  BY <1>2, AsksAreGood DEF GoodAsk, PickLine, AskLine, Ask
<1>4. Send(c) BY DEF ValidateAndUpdate, UpdateShipmentLineDetails
<1>5. ASSUME ~blind', plus PROVE v = order[l].picked + 1 /\ v <= order[l].qty
  <2>1. page \in {"open", "label"} /\ ~InBox(Closers)
    BY DEF ValidateAndUpdate, UserEdits, UserWorks, UserEnds, InBox
  <2>2. InSync BY <1>3, <1>4, <1>5, <2>1, SeesLines, LineAssumption DEF OfOneLine
  <2>3. p.shown = order[l].picked /\ p.qty = order[l].qty
    BY <1>1, <2>2 DEF InSync, Agrees, SameNumbers, PanelOf
  <2>4. v = p.shown + 1 BY <1>5 DEF TextOf
  <2> QED BY <1>2, <2>3, <2>4
<1> QED BY <1>3, <1>4, <1>5 DEF SendsFit, Fits

\* A shortage takes what is short already along, unless it is blind.
LEMMA ShortageFits ==
  ASSUME PInv, NEW all \in BOOLEAN, OnShortageReasonSelection(all)
  PROVE  SendsFit
<1> DEFINE l == Head(box).line
           p == panel[tab][l]
           c == IF all THEN Ask("MarkAllLinesShortage") ELSE ShortageChange(l, p)
<1>a. RestOK /\ PanelsOK /\ tab \in Tab /\ OrderOK /\ CountsOK
  BY DEF PInv, TInv, IInv, ViewOK
<1>1. l \in Line BY <1>a, BoxTypes DEF OnShortageReasonSelection, Top, Box
<1>2. p # None /\ p \in Panel /\ GoodPanel(l, p)
  BY <1>a, <1>1 DEF PanelsOK, OnShortageReasonSelection
<1>3. Send(c) BY DEF OnShortageReasonSelection, UpdateShipmentLineDetails
<1>4. CASE all
  <2>1. c \in Call /\ c.reply = None /\ c.kind = "MarkAllLinesShortage"
    BY <1>4, OtherAsks DEF Kind, OfOneLine
  <2> QED BY <1>3, <2>1, OthersFit
<1>5. CASE ~all
  <2>1. c \in Call /\ c.reply = None /\ c.kind = "MarkLineAsShortage" /\ c.line = l
        /\ c.short = (p.qty - p.shown) + p.short
    BY <1>1, <1>2, <1>5, ShortageIsGood DEF GoodAsk, ShortageChange, AskLine, Ask
  <2>2. ASSUME ~blind' PROVE c.short >= order[l].short
    <3>1. page \in {"open", "label"} /\ ~InBox(Closers)
      BY <1>a, ShortStays DEF OnShortageReasonSelection, UserActs, PInv
    <3>2. InSync BY <1>1, <1>3, <2>1, <2>2, <3>1, SeesLines, LineAssumption DEF OfOneLine
    <3>3. p.shown = order[l].picked /\ p.qty = order[l].qty /\ p.short = order[l].short
      BY <1>1, <1>2, <3>2 DEF InSync, Agrees, SameNumbers, PanelOf
    <3>4. order[l].picked \in Nat /\ order[l].qty \in Nat /\ order[l].short \in Nat
          /\ order[l].picked <= order[l].qty
      BY <1>a, <1>1 DEF OrderOK, OrderLine, CountsOK
    <3> QED BY <2>1, <3>3, <3>4
  <2> QED BY <1>3, <2>1, <2>2 DEF SendsFit, Fits
<1> QED BY <1>4, <1>5

\* Typing, and forgetting what was typed, change texts only.
LEMMA TypedOnly ==
  ASSUME PanelsOK, NEW t \in Tab, NEW l \in Line, NEW v, panel[t][l] # None,
         panel' = [panel EXCEPT ![t][l].typed = v]
  PROVE  TextsOnly
<1>1. \A u \in Tab, k \in Line : panel'[u][k] =
        IF u = t /\ k = l THEN [panel[t][l] EXCEPT !.typed = v] ELSE panel[u][k]
  BY DEF PanelsOK
<1>2. panel[t][l] \in Panel BY DEF PanelsOK
<1>3. SameNumbers([panel[t][l] EXCEPT !.typed = v], panel[t][l]) BY <1>2 DEF Panel, SameNumbers
<1> QED BY <1>1, <1>3 DEF TextsOnly, SameNumbers

LEMMA ClearOnly ==
  ASSUME PanelsOK, NEW t \in Tab, panel' = ClearDirty(t)
  PROVE  TextsOnly
<1>1. \A u \in Tab, l \in Line : panel'[u][l] =
        IF u = t /\ panel[t][l] # None THEN [panel[t][l] EXCEPT !.typed = None] ELSE panel[u][l]
  BY DEF PanelsOK, ClearDirty
<1>2. \A l \in Line : panel[t][l] # None => panel[t][l] \in Panel BY DEF PanelsOK
<1>3. \A l \in Line : panel[t][l] # None =>
        SameNumbers([panel[t][l] EXCEPT !.typed = None], panel[t][l])
  BY <1>2 DEF Panel, SameNumbers
<1> QED BY <1>1, <1>3 DEF TextsOnly, SameNumbers

\* No step of the user takes a reason away without putting another in its place: the box
\* of "pick all" is followed by the status or by a list, that of a cancellation by the end.
LEMMA UserPanels == ASSUME PInv, User PROVE PanelShape
<1> USE DEF PanelShape, UserEnds, UserWorks
<1>a. RestOK /\ PanelsOK /\ CallsOK /\ tab \in Tab /\ ShortLast /\ ListedOK
  BY DEF PInv, TInv, IInv, ViewOK
<1>b. page \in {"open", "label"} /\ UNCHANGED server
  BY UserShapes DEF PInv, TInv, UserShape
<1>c. UNCHANGED box /\ Stay => KeepsReasons /\ ShortLast' /\ ListedOK'
  BY <1>a, ShortStays, StayKeeps DEF KeepsReasons, InBox
<1>d. \A b \in {"error", "dirtyTab", "dirtyNext"} : Open(b, None) =>
        ShortLast' /\ (InBox(Closers) => InBox(Closers)')
  <2> TAKE b \in {"error", "dirtyTab", "dirtyNext"}
  <2>1. [name |-> b, line |-> None] \in Box BY DEF Box
  <2> QED BY <1>a, <2>1, BoxNames, ShortStays
<1>e. \A b : Top(b) /\ Close =>
        ShortLast' /\ (b \notin Closers /\ InBox(Closers) => InBox(Closers)')
  BY <1>a, BoxNames, ShortStays DEF Top
<1>f. \A t \in Tab : ChangeTo(t) => KeepsReasons /\ ListedOK' /\ SendsFit
  BY <1>a, ChangeReloads, ShowsFit DEF KeepsReasons, OnLists
<1>g. "shortage" \notin Closers /\ "error" \notin Closers /\ "dirtyTab" \notin Closers
      /\ "dirtyNext" \notin Closers /\ "notPicked" \notin Closers
  BY DEF Closers
<1>h. UNCHANGED <<tab, painted, listed>> => Stay BY DEF Stay
<1>i. UNCHANGED <<call, blind>> => SendsFit BY DEF SendsFit
<1>1. ASSUME NEW b \in Line \cup {None}, Scan(b) PROVE PanelShape
  <2>1. SendsFit BY <1>1, OtherAsks, OthersFit DEF Scan
  <2> QED BY <1>1, <1>b, <1>c, <1>h, <2>1, TextsKept DEF Scan, screen
<1>2. CASE ScanBlank
  BY <1>2, <1>a, <1>b, <1>d, <1>h, <1>i, TextsKept, StayKeeps DEF ScanBlank, KeepsReasons
<1>3. CASE PickAll
  <2>1. SendsFit BY <1>3, OtherAsks, OthersFit DEF PickAll, Kind, OfOneLine
  <2> QED BY <1>3, <1>b, <1>c, <1>h, <2>1, TextsKept DEF PickAll, screen
<1>4. CASE BeforeHide
  <2>1. Other(tab) \in Tab BY DEF Other, Tab
  <2>2. CASE Dirty(tab)
    BY <1>4, <1>a, <1>b, <1>d, <1>i, <2>2, TextsKept, StayKeeps DEF BeforeHide, KeepsReasons
  <2>3. CASE ~Dirty(tab)
    BY <1>4, <1>a, <1>b, <1>f, <2>1, <2>3, TextsKept, ShortStays DEF BeforeHide
  <2> QED BY <2>2, <2>3
<1>5. CASE HandleReloadScreen
  <2>1. SendsFit BY <1>5, OtherAsks, OthersFit DEF HandleReloadScreen, Kind, OfOneLine
  <2> QED BY <1>5, <1>b, <1>c, <1>h, <2>1, TextsKept DEF HandleReloadScreen, screen
<1>6. ASSUME NEW l \in Line, NEW v \in Quantities(l), Enter(l, v) PROVE PanelShape
  <2>1. TextsOnly BY <1>6, <1>a, TypedOnly DEF Enter, UserEdits
  <2> QED BY <1>6, <1>b, <1>c, <1>h, <1>i, <2>1 DEF Enter
<1>7. ASSUME NEW l \in Line, NEW step \in {-1, 0, 1}, ValidateAndUpdate(l, step) PROVE PanelShape
  <2>1. TextsOnly
    <3> DEFINE t == IF step = 0 THEN panel[tab][l].typed ELSE TextOf(panel[tab][l]) + step
    <3>1. panel[tab][l] # None /\ panel' = [panel EXCEPT ![tab][l].typed = t]
      BY <1>7 DEF ValidateAndUpdate, UserEdits
    <3> QED BY <1>a, <3>1, TypedOnly
  <2>2. SendsFit BY <1>7, QuantityFits
  <2> QED BY <1>7, <1>b, <1>c, <1>h, <2>1, <2>2 DEF ValidateAndUpdate
<1>8. ASSUME NEW l \in Line, PickAllQuantity(l) PROVE PanelShape
  <2>1. SendsFit
    BY <1>8, OtherAsks, OthersFit DEF PickAllQuantity, UpdateShipmentLineDetails
  <2> QED BY <1>8, <1>b, <1>c, <1>h, <2>1, TextsKept DEF PickAllQuantity
<1>9. ASSUME NEW l \in Line, OpenShortageResolutionPopup(l) PROVE PanelShape
  <2>1. [name |-> "shortage", line |-> l] \in Box BY DEF Box
  <2>2. Open("shortage", l) /\ box = <<>> /\ UNCHANGED <<call, blind, panel>> /\ Stay
    BY <1>9, <1>h DEF OpenShortageResolutionPopup, UserEdits
  <2>3. ~InBox(Closers) BY <2>2 DEF InBox
  <2>4. ShortLast' BY <1>a, <2>1, <2>2, ShortStays
  <2> QED BY <1>a, <1>b, <1>i, <2>2, <2>3, <2>4, TextsKept, StayKeeps DEF KeepsReasons
<1>10. ASSUME NEW all \in BOOLEAN, OnShortageReasonSelection(all) PROVE PanelShape
  <2>1. SendsFit BY <1>10, ShortageFits
  <2>2. Top("shortage") /\ Close /\ UNCHANGED panel /\ Stay
    BY <1>10, <1>h DEF OnShortageReasonSelection
  <2> QED BY <1>a, <1>b, <1>e, <1>g, <2>1, <2>2, TextsKept, StayKeeps DEF KeepsReasons
<1>11. CASE CloseShortagePopup
  BY <1>11, <1>a, <1>b, <1>e, <1>g, <1>h, <1>i, TextsKept, StayKeeps
     DEF CloseShortagePopup, KeepsReasons
<1>12. CASE CloseError
  BY <1>12, <1>a, <1>b, <1>e, <1>g, <1>h, <1>i, TextsKept, StayKeeps DEF CloseError, KeepsReasons
<1>13. CASE HandleCancelOrderConfirmation
  BY <1>13, <1>a, <1>b, <1>e, <1>h, <1>i, TextsKept, StayKeeps
     DEF HandleCancelOrderConfirmation, KeepsReasons, OnLists
<1>14. CASE Save
  <2>1. UNCHANGED panel /\ Stay BY <1>14, <1>h DEF Save
  <2>2. SendsFit BY <1>14, <1>i, OtherAsks, OthersFit DEF Save, Kind, OfOneLine
  <2>3. UNCHANGED box \/ Open("dirtyNext", None) BY <1>14 DEF Save
  <2> QED BY <1>a, <1>b, <1>c, <1>d, <2>1, <2>2, <2>3, TextsKept, StayKeeps DEF KeepsReasons
<1>15. CASE MoveAhead
  <2>1. SendsFit BY <1>15, OtherAsks, OthersFit DEF MoveAhead, Kind, OfOneLine
  <2> QED BY <1>15, <1>b, <1>c, <1>h, <2>1, TextsKept DEF MoveAhead, screen
<1>16. ASSUME NEW ok \in BOOLEAN, HandleDirtyForView(ok) PROVE PanelShape
  <2>1. Other(tab) \in Tab BY DEF Other, Tab
  <2>2. Top("dirtyTab") /\ Close BY <1>16 DEF HandleDirtyForView
  <2>3. CASE ok
    BY <1>16, <1>a, <1>b, <1>e, <1>f, <2>1, <2>2, <2>3, ClearOnly DEF HandleDirtyForView
  <2>4. CASE ~ok
    BY <1>16, <1>a, <1>b, <1>e, <1>g, <1>i, <2>2, <2>4, TextsKept, StayKeeps
       DEF HandleDirtyForView, KeepsReasons
  <2> QED BY <2>3, <2>4
<1>17. ASSUME NEW ok \in BOOLEAN, HandleNextDirtyConfirmation(ok) PROVE PanelShape
  <2>1. SendsFit
    BY <1>17, <1>i, OtherAsks, OthersFit DEF HandleNextDirtyConfirmation, Kind, OfOneLine
  <2>2. Top("dirtyNext") /\ Close /\ UNCHANGED panel /\ Stay
    BY <1>17, <1>h DEF HandleNextDirtyConfirmation
  <2> QED BY <1>a, <1>b, <1>e, <1>g, <2>1, <2>2, TextsKept, StayKeeps DEF KeepsReasons
<1>18. ASSUME NEW ok \in BOOLEAN, HandleNotPickedLinesConfirmation(ok) PROVE PanelShape
  <2>1. Top("notPicked") /\ Close /\ UNCHANGED panel
    BY <1>18 DEF HandleNotPickedLinesConfirmation
  <2>2. CASE ok
    BY <1>18, <1>a, <1>b, <1>e, <1>g, <1>i, <2>1, <2>2, TextsKept, StayKeeps
       DEF HandleNotPickedLinesConfirmation, KeepsReasons
  <2>3. CASE ~ok
    BY <1>18, <1>b, <1>e, <1>f, <2>1, <2>3, TextsKept
       DEF HandleNotPickedLinesConfirmation, Tab
  <2> QED BY <2>2, <2>3
<1>19. ASSUME NEW ok \in BOOLEAN, HandlePickAllConfirmation(ok) PROVE PanelShape
  <2>1. Top("pickAll") /\ Close /\ UNCHANGED panel
    BY <1>19 DEF HandlePickAllConfirmation
  <2>2. CASE ok
    <3>1. Ask("status") \in Call /\ Ask("status").kind = "status" /\ Ask("status").reply = None
      BY OtherAsks DEF Kind, OfOneLine
    <3>2. Send(Ask("status")) /\ Stay BY <1>19, <2>2 DEF HandlePickAllConfirmation
    <3>3. SendsFit BY <3>1, <3>2, OthersFit
    <3>4. PICK s \in Slot : call'[s] = Ask("status") BY <1>a, <3>1, <3>2, SendAdds
    <3>5. Closes(s)' BY <3>1, <3>4, RecordAssumption DEF Closes, Free
    <3>6. KeepsReasons BY <3>5 DEF KeepsReasons
    <3> QED BY <1>a, <1>b, <1>e, <2>1, <3>2, <3>3, <3>6, TextsKept, StayKeeps
  <2>3. CASE ~ok
    BY <1>19, <1>b, <1>e, <1>f, <2>1, <2>3, TextsKept DEF HandlePickAllConfirmation, Tab
  <2> QED BY <2>2, <2>3
<1> QED
  BY <1>1, <1>2, <1>3, <1>4, <1>5, <1>6, <1>7, <1>8, <1>9, <1>10, <1>11, <1>12, <1>13, <1>14,
     <1>15, <1>16, <1>17, <1>18, <1>19 DEF User, PageEvents, LineEvents, WizardEvents

\* Numbers that a panel keeps agree with its line as before.
LEMMA SameAgrees ==
  ASSUME NEW p, NEW q, SameNumbers(p, q), NEW r
  PROVE  (Agrees(p, r) <=> Agrees(q, r)) /\ p.qty = q.qty /\ p.short = q.short
BY DEF SameNumbers, Agrees

\* Where nothing but texts changed, reasons stay.
LEMMA ReasonsStay ==
  ASSUME UNCHANGED <<order, tab>>, tab \in Tab, TextsOnly, NEW s \in Slot, ~Free(s),
         call'[s] = call[s]
  PROVE  /\ Reloads(s) => Reloads(s)'
         /\ Closes(s) => Closes(s)'
         /\ Near(s) => Near(s)'
<1>1. Reloads(s) => Reloads(s)' BY DEF Reloads, Free
<1>2. Closes(s) => Closes(s)' BY DEF Closes, Last, Free
<1>3. ASSUME Near(s) PROVE Near(s)'
  <2>1. Served(s)' /\ call'[s].kind \in OneOf /\ CodeOf(s)' = "ok" /\ LinesOf(s)' = LinesOf(s)
    BY <1>3 DEF Near, Served, Free, CodeOf, LinesOf
  <2>2. ASSUME NEW l \in Line, panel'[tab][l] # None
        PROVE  IF LinesOf(s)[l] = None THEN Agrees(panel'[tab][l], order[l])
               ELSE \/ order[l].short >= 1
                    \/ panel'[tab][l].qty = order[l].qty /\ panel'[tab][l].short = order[l].short
    <3>1. panel[tab][l] # None /\ SameNumbers(panel'[tab][l], panel[tab][l]) BY <2>2 DEF TextsOnly
    <3> QED BY <1>3, <3>1, SameAgrees DEF Near
  <2> QED BY <2>1, <2>2 DEF Near, Agrees, SameNumbers
<1> QED BY <1>1, <1>2, <1>3

LEMMA InSyncStays ==
  ASSUME UNCHANGED <<order, tab>>, tab \in Tab, TextsOnly, InSync
  PROVE  InSync'
<1> SUFFICES ASSUME NEW l \in Line, panel'[tab][l] # None PROVE Agrees(panel'[tab][l], order[l])
  BY DEF InSync, Agrees, SameNumbers
<1>1. panel[tab][l] # None /\ SameNumbers(panel'[tab][l], panel[tab][l]) BY DEF TextsOnly
<1> QED BY <1>1, SameAgrees DEF InSync

\* At most one call was added, and it fits.
OneCallAdded ==
  /\ \A k \in Slot : ~Free(k) => call'[k] = call[k]
  /\ \A k \in Slot : Served(k)' => Served(k) /\ call'[k] = call[k]
  /\ ~blind' => ~blind /\ \A k \in Slot : ~Free(k)' => (call'[k] = call[k] /\ ~Free(k))
                                                       \/ Fits(call'[k])

LEMMA UserSyncs ==
  ASSUME PInv, PanelShape
  PROVE  Synced' /\ Carries' /\ Wants'
<1> USE DEF PanelShape, OneCallAdded
<1>a. CallsOK /\ tab \in Tab /\ Synced /\ Carries /\ Wants BY DEF PInv, TInv, IInv, ViewOK
<1>b. UNCHANGED <<order, status>> BY DEF server
<1>1. OneCallAdded
  <2>1. CASE UNCHANGED <<call, blind>> BY <2>1 DEF Served, Free
  <2>2. ASSUME NEW c \in Call, Send(c), c.reply = None, ~blind' => Fits(c)
        PROVE  OneCallAdded
    <3>1. PICK s \in Slot : /\ Free(s) /\ call'[s] = c
                            /\ \A k \in Slot \ {s} : call'[k] = call[k]
      BY <1>a, <2>2, SendAdds
    <3>2. blind => blind' BY <1>a, <2>2, SendAdds
    <3> QED BY <2>2, <3>1, <3>2 DEF Served, Free
  <2> QED BY <2>1, <2>2 DEF SendsFit
<1>2. Carries'
  BY <1>a, <1>b, <1>1 DEF Carries, LinesOf
<1>3. Wants'
  <2> SUFFICES ASSUME ~blind', NEW s \in Slot, ~Free(s)', call'[s].reply = None
               PROVE  Fits(call[s])'
    BY DEF Wants
  <2>1. CASE call'[s] = call[s] /\ ~Free(s) BY <1>a, <1>b, <1>1, <2>1 DEF Wants, Fits
  <2>2. CASE Fits(call'[s]) BY <1>b, <2>2 DEF Fits
  <2> QED BY <1>1, <2>1, <2>2
<1>4. Synced'
  <2> SUFFICES ASSUME ~blind', OnLists' PROVE InSync' \/ Explained' BY DEF Synced
  <2>1. CASE OnLists' => \E s \in Slot : Reloads(s)' \/ Closes(s)'
    BY <2>1 DEF Explained
  <2>2. CASE Stay /\ (InBox(Closers) => InBox(Closers)')
    <3>1. InSync \/ Explained BY <1>1, <1>a, <2>2 DEF Stay, OnLists, Synced
    <3>2. InSync => InSync' BY <1>a, <1>b, <2>2, InSyncStays DEF Stay
    <3>3. ASSUME NEW s \in Slot, Reloads(s) \/ Closes(s) \/ Near(s) PROVE Explained'
      <4>1. ~Free(s) BY <3>3 DEF Reloads, Closes, Near, Served
      <4>2. Reloads(s)' \/ Closes(s)' \/ Near(s)'
        BY <1>1, <1>a, <1>b, <2>2, <3>3, <4>1, ReasonsStay DEF Stay
      <4> QED BY <4>2 DEF Explained
    <3>4. InBox(Closers) => Explained' BY <2>2 DEF Explained
    <3> QED BY <3>1, <3>2, <3>3, <3>4 DEF Explained
  <2> QED BY <2>1, <2>2 DEF KeepsReasons
<1> QED BY <1>2, <1>3, <1>4

-----------------------------------------------------------------------------
(* The server *)

\* A line that was served and is on its way explains the panel that does not show it.
LEMMA LineServed ==
  ASSUME IInv, NEW s \in Slot, ~Free(s), call[s].kind \in OneOf,
         NEW l \in Line, NEW r \in OrderLine, order' = [order EXCEPT ![l] = r],
         GoodLines(Only(l, order')), Respond(s, "ok", Only(l, order')), UNCHANGED screen,
         r.short >= 1 \/ (r.qty = order[l].qty /\ r.short = order[l].short)
  PROVE  InSync => Near(s)'
<1>a. OrderOK /\ CallsOK BY DEF IInv
<1>1. order'[l] = r /\ \A k \in Line \ {l} : order'[k] = order[k] BY <1>a DEF OrderOK
<1>2. Served(s)' /\ call'[s].kind = call[s].kind /\ call'[s].reply.code = "ok"
      /\ call'[s].reply.lines = Only(l, order')
  BY <1>a, RespondSets DEF Code
<1>3. r # None BY RecordAssumption
<1>4. UNCHANGED <<panel, tab>> BY DEF screen
<1>5. ASSUME InSync, NEW k \in Line, panel[tab][k] # None
      PROVE  IF Only(l, order')[k] = None THEN Agrees(panel[tab][k], order'[k])
             ELSE \/ order'[k].short >= 1
                  \/ panel[tab][k].qty = order'[k].qty /\ panel[tab][k].short = order'[k].short
  <2>1. panel[tab][k].qty = order[k].qty /\ panel[tab][k].short = order[k].short
        /\ Agrees(panel[tab][k], order[k])
    BY <1>5 DEF InSync, Agrees, SameNumbers, PanelOf
  <2>2. CASE k = l BY <1>1, <1>3, <2>1, <2>2 DEF Only
  <2>3. CASE k # l BY <1>1, <2>1, <2>3 DEF Only
  <2> QED BY <2>2, <2>3
<1> QED BY <1>2, <1>4, <1>5 DEF Near, CodeOf, LinesOf, Agrees, SameNumbers

\* What the server does to the panels that show its lines: the answer explains them, or
\* the list is about to be left.
ServeEffect(s) ==
  /\ UNCHANGED order \/ call[s].kind \in Changing
  /\ \A l \in Line : /\ call'[s].reply.lines[l] \in {None, order'[l]}
                     /\ call[s].kind = "print" => call'[s].reply.lines[l] = None
  /\ ~blind /\ InSync => InSync' \/ Near(s)' \/ Closes(s)'

LEMMA ServeEffects == ASSUME PInv, NEW s \in Slot, Serve(s) PROVE ServeEffect(s)
<1> USE DEF ServeEffect
<1>a. IInv /\ OrderOK /\ CallsOK BY DEF PInv, TInv, IInv
<1>b. ~Free(s) => call[s] \in Call /\ GoodCall(call[s]) BY <1>a DEF CallsOK, Free
<1>c. UNCHANGED screen BY DEF Serve
<1>d. UNCHANGED order => (InSync => InSync')
  BY <1>c DEF InSync, Agrees, SameNumbers, screen
<1>e. \A code \in Code : \A lines : GoodLines(lines) /\ Respond(s, code, lines) /\ ~Free(s) =>
        /\ Served(s)' /\ call'[s].kind = call[s].kind
        /\ call'[s].reply.code = code /\ call'[s].reply.lines = lines
  BY <1>a, RespondSets
<1>f. \A code \in Code : ~Free(s) /\ Respond(s, code, NoLines) =>
        /\ \A l \in Line : call'[s].reply.lines[l] = None
        /\ Served(s)' /\ call'[s].kind = call[s].kind /\ call'[s].reply.code = code
  BY <1>e, NoLinesAreGood DEF NoLines
<1>g. \A l \in Line : order[l] \in OrderLine /\ order[l].qty \in Nat /\ order[l].picked \in Nat
                      /\ order[l].short \in Nat /\ Whole(l, order[l]) /\ Ordered[l] \in Nat
  BY <1>a, LineAssumption DEF OrderOK, OrderLine
<1>h. \A l \in Line, code \in Code :
        GoodLines(Only(l, order')) /\ Respond(s, code, Only(l, order')) /\ ~Free(s) =>
          \A k \in Line : call'[s].reply.lines[k] \in {None, order'[k]}
  BY <1>e DEF Only
<1>i. \A kind \in OneOf : kind \in Changing /\ kind # "print" BY DEF OneOf, OfOneLine, Changing, Kind
<1>1. ASSUME NEW l \in Line, NEW n \in Nat, n <= order[l].qty, order' = Counted(l, n),
             Respond(s, "ok", Only(l, order')), ~Free(s), call[s].kind \in OneOf
      PROVE  ServeEffect(s)
  <2> DEFINE r == [order[l] EXCEPT !.picked = n, !.done = (n = order[l].qty)]
  <2>1. order' = [order EXCEPT ![l] = r] BY <1>1, <1>a DEF Counted, OrderOK
  <2>2. r \in OrderLine /\ r.qty = order[l].qty /\ r.short = order[l].short
    <3>1. \A b \in BOOLEAN : LET q == [order[l] EXCEPT !.picked = n, !.done = b] IN
            q \in OrderLine /\ q.qty = order[l].qty /\ q.short = order[l].short
      BY <1>g DEF OrderLine
    <3> QED BY <3>1
  <2>3. GoodLines(Only(l, order')) BY <1>1, <1>a, CountKeeps
  <2>4. InSync => Near(s)' BY <1>1, <1>a, <1>c, <2>1, <2>2, <2>3, LineServed
  <2>5. \A k \in Line : call'[s].reply.lines[k] \in {None, order'[k]}
    BY <1>1, <1>h, <2>3 DEF Code
  <2> QED BY <1>1, <1>i, <2>4, <2>5
<1>2. CASE ServeQuantity(s)
  <2> DEFINE l == call[s].line
             n == IF call[s].kind = "PickLine" THEN call[s].picked ELSE order[l].qty
  <2>1. ~Free(s) /\ l \in Line /\ call[s].kind \in OneOf
    BY <1>2, <1>b DEF ServeQuantity, Asked, GoodCall, OfOneLine, OneOf
  <2>2. n \in Nat BY <1>b, <1>g, <2>1 DEF Call
  <2>3. CASE n <= order[l].qty
    <3>1. order' = Counted(l, n) /\ Respond(s, "ok", Only(l, order'))
      BY <1>2, <2>3 DEF ServeQuantity
    <3> QED BY <1>1, <2>1, <2>2, <2>3, <3>1
  <2>4. CASE ~(n <= order[l].qty)
    <3>1. UNCHANGED order /\ Respond(s, "error", NoLines) BY <1>2, <2>4 DEF ServeQuantity
    <3> QED BY <1>d, <1>f, <2>1, <3>1 DEF Code
  <2> QED BY <2>3, <2>4
<1>3. CASE ServePickAll(s)
  <2>1. Respond(s, "ok", NoLines) /\ ~Free(s) /\ call[s].kind = "PickAll"
    BY <1>3 DEF ServePickAll, Asked
  <2>2. Closes(s)' BY <1>f, <2>1 DEF Closes, Last, Served, Code
  <2> QED BY <1>f, <2>1, <2>2 DEF Code, Changing, Kind
<1>4. CASE ServeShortage(s)
  <2> DEFINE c == call[s]
             l == c.line
             r == Shortened(c.qty, c.short)
             code == IF Cancelled(order') THEN "ShowCancelPopup" ELSE "ok"
  <2>1. ~Free(s) /\ l \in Line /\ c \in Call /\ Whole(l, c) /\ c.reply = None
        /\ c.kind = "MarkLineAsShortage"
    BY <1>4, <1>b DEF ServeShortage, Asked, GoodCall, OfOneLine
  <2>2. c.qty \in Nat /\ c.short \in Nat BY <2>1 DEF Call
  <2>3. r \in OrderLine /\ Whole(l, r) /\ r.picked <= Ordered[l] /\ r.qty = c.qty /\ r.short = c.short
    BY <1>g, <2>1, <2>2 DEF Shortened, OrderLine, Whole
  <2>4. order' = [order EXCEPT ![l] = r] /\ Respond(s, code, Only(l, order'))
    BY <1>4 DEF ServeShortage
  <2>5. GoodLines(Only(l, order')) BY <1>a, <2>1, <2>3, <2>4, RecordKeeps
  <2>6. code \in Code BY DEF Code
  <2>7. \A k \in Line : call'[s].reply.lines[k] \in {None, order'[k]}
    BY <1>h, <2>1, <2>4, <2>5, <2>6
  <2>8. ~blind => r.short >= 1 \/ (r.qty = order[l].qty /\ r.short = order[l].short)
    <3> SUFFICES ASSUME ~blind, ~(r.short >= 1)
                 PROVE  r.qty = order[l].qty /\ r.short = order[l].short
      OBVIOUS
    <3>1. c.short >= order[l].short BY <2>1 DEF PInv, Wants, Fits
    <3>2. c.short = 0 /\ order[l].short = 0 BY <1>g, <2>1, <2>2, <2>3, <3>1
    <3>3. c.qty = Ordered[l] /\ order[l].qty = Ordered[l]
      BY <1>g, <2>1, <2>2, <3>2 DEF Whole
    <3> QED BY <2>3, <3>2, <3>3
  <2>9. CASE code = "ok"
    <3>1. Respond(s, "ok", Only(l, order')) BY <2>4, <2>9
    <3>2. ~blind /\ InSync => Near(s)'
      BY <1>a, <1>c, <2>1, <2>3, <2>4, <2>5, <2>8, <3>1, LineServed DEF OneOf, OfOneLine
    <3> QED BY <2>1, <2>7, <3>2, <1>i DEF OneOf, OfOneLine
  <2>10. CASE code = "ShowCancelPopup"
    <3>1. Closes(s)' BY <1>e, <2>1, <2>4, <2>5, <2>6, <2>10 DEF Closes, Last, Served
    <3> QED BY <2>1, <2>7, <3>1, <1>i DEF OneOf, OfOneLine
  <2> QED BY <2>9, <2>10
<1>5. CASE ServeAllShortages(s)
  <2> DEFINE code == IF Cancelled(order') THEN "ShowCancelPopup" ELSE "MarkAllLinesShortage"
  <2>1. Respond(s, code, NoLines) /\ code \in Code /\ ~Free(s) /\ call[s].kind = "MarkAllLinesShortage"
    BY <1>5 DEF ServeAllShortages, Asked, Code
  <2>2. Closes(s)' BY <1>f, <2>1 DEF Closes, Last, Served
  <2> QED BY <1>f, <2>1, <2>2 DEF Changing, Kind
<1>6. CASE ServeBarcode(s)
  <2> DEFINE l == call[s].line
  <2>1. ~Free(s) /\ l \in Line \cup {None} /\ call[s].kind \in OneOf
    BY <1>6, <1>b DEF ServeBarcode, Asked, Call, OneOf
  <2>2. CASE l # None /\ order[l].picked < order[l].qty
    <3>1. order' = Counted(l, order[l].picked + 1) /\ Respond(s, "ok", Only(l, order'))
      BY <1>6, <2>2 DEF ServeBarcode
    <3>2. l \in Line BY <2>1, <2>2
    <3>3. order[l].picked + 1 \in Nat /\ order[l].picked + 1 <= order[l].qty
      BY <1>g, <2>2, <3>2
    <3> QED BY <1>1, <2>1, <3>1, <3>2, <3>3
  <2>3. CASE ~(l # None /\ order[l].picked < order[l].qty)
    <3>1. UNCHANGED order /\ Respond(s, "error", NoLines) BY <1>6, <2>3 DEF ServeBarcode
    <3> QED BY <1>d, <1>f, <2>1, <3>1 DEF Code
  <2> QED BY <2>2, <2>3
<1>7. CASE ServeList(s)
  <2> DEFINE lines == [l \in Line |-> IF call[s].list = "allItems" /\ order[l].done
                                      THEN None ELSE order[l]]
  <2>1. GoodLines(lines) BY <1>a DEF OrderOK, GoodLines
  <2>2. UNCHANGED order /\ Respond(s, "ok", lines) /\ ~Free(s) /\ call[s].kind = "load"
    BY <1>7 DEF ServeList, server, Asked
  <2>3. call'[s].reply.lines = lines BY <1>e, <2>1, <2>2 DEF Code
  <2> QED BY <1>d, <2>2, <2>3
<1>8. CASE ServeCount(s) \/ ServeNext(s) \/ ServeStatus(s) \/ ServePrint(s)
  <2>1. UNCHANGED order /\ ~Free(s) /\ \E code \in Code : Respond(s, code, NoLines)
    BY <1>8 DEF ServeCount, ServeNext, ServeStatus, ServePrint, server, Asked, Code
  <2> QED BY <1>d, <1>f, <2>1
<1> QED BY <1>2, <1>3, <1>4, <1>5, <1>6, <1>7, <1>8 DEF Serve

LEMMA ServeSyncs ==
  ASSUME PInv, NEW s \in Slot, ServeShape(s), ServeEffect(s)
  PROVE  Synced' /\ Carries' /\ Wants' /\ ShortLast' /\ ListedOK'
<1> USE DEF ServeShape, ServeEffect
<1>a. /\ CallsOK /\ RestOK /\ tab \in Tab /\ Alone
      /\ Synced /\ Carries /\ Wants /\ ShortLast /\ ListedOK
  BY DEF PInv, TInv, IInv, ViewOK
<1>b. UNCHANGED <<blind, page, box, panel, tab, painted, listed>> BY DEF screen
<1>1. PICK code, lines : code \in Code /\ GoodLines(lines) /\ Respond(s, code, lines) OBVIOUS
<1>2. /\ \A k \in Slot \ {s} : call'[k] = call[k]
      /\ ~Free(s)' /\ Served(s)' /\ call'[s].kind = call[s].kind /\ call'[s].list = call[s].list
  BY <1>1, <1>a, RespondSets
<1>3. ASSUME ~blind, NEW k \in Slot \ {s}, ~Free(k), call[k].kind # "print" PROVE UNCHANGED order
  BY <1>3, <1>a DEF Alone
<1>4. Carries'
  <2> SUFFICES ASSUME ~blind, NEW k \in Slot, Served(k)', NEW l \in Line
               PROVE  /\ call'[k].reply.lines[l] \in {None, order'[l]}
                      /\ call'[k].kind = "print" => call'[k].reply.lines[l] = None
    BY <1>b DEF Carries, LinesOf
  <2>1. CASE k = s BY <1>2, <2>1
  <2>2. CASE k # s
    <3>1. Served(k) /\ call'[k] = call[k] /\ ~Free(k) BY <1>2, <2>2 DEF Served, Free
    <3>2. call[k].reply.lines[l] \in {None, order[l]}
          /\ (call[k].kind = "print" => call[k].reply.lines[l] = None)
      BY <1>a, <3>1 DEF Carries, LinesOf
    <3> QED BY <1>3, <2>2, <3>1, <3>2
  <2> QED BY <2>1, <2>2
<1>5. Wants'
  <2> SUFFICES ASSUME ~blind, NEW k \in Slot, ~Free(k)', call'[k].reply = None
               PROVE  Fits(call[k])'
    BY <1>b DEF Wants
  <2>1. k # s /\ call'[k] = call[k] /\ ~Free(k) BY <1>2 DEF Served, Free
  <2>2. CASE call[k].kind = "print" BY <2>1, <2>2 DEF Fits
  <2>3. CASE call[k].kind # "print" BY <1>3, <1>a, <2>1, <2>3 DEF Wants, Fits
  <2> QED BY <2>2, <2>3
<1>6. Synced'
  <2> SUFFICES ASSUME ~blind, OnLists PROVE InSync' \/ Explained'
    BY <1>b DEF Synced, OnLists
  <2>1. InSync => InSync' \/ Explained' BY DEF Explained
  <2>2. InBox(Closers) => Explained' BY <1>b DEF Explained, InBox
  <2>3. ASSUME NEW k \in Slot, Reloads(k) \/ Closes(k) \/ Near(k) PROVE Explained'
    <3>1. ~Free(k) /\ call[k].kind # "print"
      BY <2>3 DEF Reloads, Closes, Last, Near, Served, OneOf, OfOneLine
    <3>2. CASE k = s
      <4>1. ~Near(s) BY DEF Near, Served
      <4>2. Reloads(s) => Reloads(s)' BY <1>b, <1>2 DEF Reloads
      <4>3. Closes(s) => Closes(s)' BY <1>2 DEF Closes
      <4> QED BY <2>3, <3>2, <4>1, <4>2, <4>3 DEF Explained
    <3>3. CASE k # s
      <4>1. UNCHANGED order /\ call'[k] = call[k] BY <1>2, <1>3, <3>1, <3>3
      <4>2. TextsOnly BY <1>b, TextsKept
      <4>3. Reloads(k)' \/ Closes(k)' \/ Near(k)'
        BY <1>a, <1>b, <2>3, <3>1, <4>1, <4>2, ReasonsStay
      <4> QED BY <4>3 DEF Explained
    <3> QED BY <3>2, <3>3
  <2> QED BY <1>a, <2>1, <2>2, <2>3 DEF Synced, Explained
<1>7. ShortLast' /\ ListedOK' BY <1>a, <1>b, ShortStays, StayKeeps DEF Stay
<1> QED BY <1>4, <1>5, <1>6, <1>7

-----------------------------------------------------------------------------
(* Answers *)

\* A reason that stays: no other call than the answered one was touched.
LEMMA OthersStay ==
  ASSUME tab \in Tab, UNCHANGED <<order, tab>>, TextsOnly, NEW s \in Slot,
         \A k \in Slot \ {s} : call'[k] = call[k],
         NEW k \in Slot, k # s, Reloads(k) \/ Closes(k) \/ Near(k)
  PROVE  Explained'
<1>1. ~Free(k) BY DEF Reloads, Closes, Near, Served
<1>2. call'[k] = call[k] OBVIOUS
<1>3. Reloads(k)' \/ Closes(k)' \/ Near(k)' BY <1>1, <1>2, ReasonsStay
<1> QED BY <1>3 DEF Explained

\* Answers that leave the panels alone take their own reason away only for a box that
\* leaves the list, or with the page.
LEMMA AnsweredSyncs ==
  ASSUME PInv, NEW s \in Slot, Done(s), Stay, UNCHANGED <<server, panel>>,
         InBox(Closers) => InBox(Closers)',
         page' \in {"open", "label"} => page \in {"open", "label"},
         Reloads(s) \/ Closes(s) \/ Near(s) =>
           InBox(Closers)' \/ page' \notin {"open", "label"}
  PROVE  Synced'
<1>a. CallsOK /\ tab \in Tab /\ Synced BY DEF PInv, TInv, IInv, ViewOK
<1>b. UNCHANGED <<order, tab, listed, blind>> BY DEF server, Stay, Done
<1>c. TextsOnly BY TextsKept
<1> SUFFICES ASSUME ~blind, OnLists' PROVE InSync' \/ Explained' BY <1>b DEF Synced
<1>1. InSync \/ Explained BY <1>a, <1>b DEF Synced, OnLists
<1>2. InSync => InSync' BY <1>a, <1>b, <1>c, InSyncStays
<1>3. InBox(Closers)' => Explained' BY DEF Explained
<1>4. \A k \in Slot \ {s} : call'[k] = call[k] BY <1>a DEF CallsOK, Done
<1>5. ASSUME NEW k \in Slot, Reloads(k) \/ Closes(k) \/ Near(k) PROVE Explained'
  <2>1. CASE k = s BY <1>3, <1>5, <2>1 DEF OnLists
  <2>2. CASE k # s BY <1>a, <1>b, <1>c, <1>4, <1>5, <2>2, OthersStay
  <2> QED BY <2>1, <2>2
<1> QED BY <1>1, <1>2, <1>3, <1>5 DEF Explained

\* An answer that brings a line finds the other panels right, and sets this one right.
LEMMA LineArrives ==
  ASSUME PInv, NEW s \in Slot, Served(s), call[s].kind \in OneOf, CodeOf(s) = "ok", Done(s), Stay,
         UNCHANGED <<server, box>>, page' \in {"open", "label"} => page \in {"open", "label"},
         \A l \in Line : panel'[tab][l] # None =>
           /\ panel[tab][l] # None
           /\ LinesOf(s)[l] = None => panel'[tab][l] = panel[tab][l]
           /\ LinesOf(s)[l] # None /\ LinesOf(s)[l] = order[l]
              /\ (order[l].short >= 1 \/ (panel[tab][l].qty = order[l].qty
                                          /\ panel[tab][l].short = order[l].short))
                => Agrees(panel'[tab][l], order[l])
  PROVE  Synced'
<1>a. CallsOK /\ tab \in Tab /\ Synced /\ Alone /\ Carries BY DEF PInv, TInv, IInv, ViewOK
<1>b. UNCHANGED <<order, tab, listed, blind>> BY DEF server, Stay, Done
<1> SUFFICES ASSUME ~blind, OnLists' PROVE InSync' \/ Explained' BY <1>b DEF Synced
<1>1. InSync \/ Explained BY <1>a, <1>b DEF Synced, OnLists
<1>2. InBox(Closers) => Explained' BY DEF Explained, InBox
<1>3. call[s].kind \in Changing /\ ~Free(s) BY DEF OneOf, OfOneLine, Changing, Kind, Served
<1>4. \A k \in Slot \ {s} : ~Reloads(k) /\ ~Closes(k) /\ ~Near(k)
  BY <1>a, <1>3 DEF Alone, Reloads, Closes, Last, Near, Served, OneOf, OfOneLine
<1>5. ~Reloads(s) /\ ~Closes(s)
  BY DEF Reloads, Closes, Last, OneOf, OfOneLine, CodeOf
<1>6. InSync \/ Near(s) => InSync'
  <2> SUFFICES ASSUME InSync \/ Near(s), NEW l \in Line, panel'[tab][l] # None
               PROVE  Agrees(panel'[tab][l], order[l])
    BY <1>b DEF InSync, Agrees, SameNumbers
  <2>1. panel[tab][l] # None OBVIOUS
  <2>2. CASE LinesOf(s)[l] = None
    BY <2>1, <2>2 DEF InSync, Near
  <2>3. CASE LinesOf(s)[l] # None
    <3>1. LinesOf(s)[l] = order[l] BY <1>a, <2>3 DEF Carries
    <3>2. order[l].short >= 1 \/ (panel[tab][l].qty = order[l].qty
                                  /\ panel[tab][l].short = order[l].short)
      BY <2>1, <2>3 DEF InSync, Near, Agrees, SameNumbers, PanelOf
    <3> QED BY <2>3, <3>1, <3>2
  <2> QED BY <2>2, <2>3
<1> QED BY <1>1, <1>2, <1>4, <1>5, <1>6 DEF Explained

\* A list that arrives shows the lines as they are.
LEMMA ListArrives == ASSUME PInv, NEW s \in Slot, ReceiveList(s), UNCHANGED server PROVE Synced'
<1>a. CallsOK /\ PanelsOK /\ tab \in Tab /\ Synced /\ Carries /\ OrderOK
  BY DEF PInv, TInv, IInv, ViewOK
<1>b. UNCHANGED <<order, tab, listed, blind, box, page>> BY DEF server, Stay, Done, ReceiveList
<1> DEFINE t == call[s].list
           new == [l \in Line |-> IF LinesOf(s)[l] = None THEN None ELSE PanelOf(LinesOf(s)[l])]
<1>1. Served(s) /\ call[s].kind = "load" /\ panel' = [panel EXCEPT ![t] = new] /\ Done(s)
  BY DEF ReceiveList, Answered, Served
<1> SUFFICES ASSUME ~blind, OnLists PROVE InSync' \/ Explained' BY <1>b DEF Synced, OnLists
<1>2. CASE t = tab
  <2>1. panel'[tab] = new BY <1>1, <1>2, <1>a DEF PanelsOK
  <2> SUFFICES ASSUME NEW l \in Line, panel'[tab][l] # None PROVE Agrees(panel'[tab][l], order[l])
    BY <1>b DEF InSync, Agrees, SameNumbers
  <2>2. LinesOf(s)[l] # None /\ panel'[tab][l] = PanelOf(LinesOf(s)[l]) BY <2>1
  <2>3. LinesOf(s)[l] = order[l] BY <1>1, <1>a, <2>2 DEF Carries
  <2> QED BY <2>2, <2>3 DEF Agrees, SameNumbers
<1>3. CASE t # tab
  <2>1. panel'[tab] = panel[tab] BY <1>1, <1>3, <1>a DEF PanelsOK
  <2>2. InSync => InSync' BY <1>b, <2>1 DEF InSync, Agrees, SameNumbers
  <2>3. InBox(Closers) => Explained' BY <1>b DEF Explained, InBox
  <2>4. ~Reloads(s) /\ ~Closes(s) /\ ~Near(s)
    BY <1>1, <1>3 DEF Reloads, Closes, Last, Near, OneOf, OfOneLine
  <2>5. ASSUME NEW k \in Slot, k # s, Reloads(k) \/ Closes(k) \/ Near(k) PROVE Explained'
    <3>1. call'[k] = call[k] BY <1>1, <1>a, <2>5 DEF CallsOK, Done
    <3>2. Reloads(k) \/ Closes(k) => Explained'
      BY <1>b, <3>1 DEF Reloads, Closes, Last, Free, Explained
    <3>3. Near(k) => Near(k)'
      BY <1>b, <2>1, <3>1
         DEF Near, Served, Free, CodeOf, LinesOf, Agrees, SameNumbers
    <3> QED BY <2>5, <3>2, <3>3 DEF Explained
  <2> QED BY <1>a, <2>2, <2>3, <2>4, <2>5 DEF Synced, Explained
<1> QED BY <1>2, <1>3

LEMMA ReceiveSyncs == ASSUME PInv, NEW s \in Slot, HandleMashupOutput(s) PROVE Synced'
<1>a. RestOK /\ CodesOK /\ tab \in Tab /\ PanelsOK /\ CallsOK
  BY DEF PInv, TInv, IInv, ViewOK
<1>b. UNCHANGED server BY DEF HandleMashupOutput
<1>c. \A kinds : Answered(s, kinds) =>
        Served(s) /\ page \in {"open", "label"} /\ call[s].kind \in kinds /\ CodeFits(call[s])
  BY <1>a DEF Answered, Served, CodesOK
<1>d. UNCHANGED box => (InBox(Closers) => InBox(Closers)') BY DEF InBox
<1>e. \A b \in {"error", "notPicked", "cancel", "pickAll"} : Open(b, None) =>
        (InBox(Closers)' <=> b \in Closers \/ InBox(Closers))
  <2> TAKE b \in {"error", "notPicked", "cancel", "pickAll"}
  <2>1. [name |-> b, line |-> None] \in Box BY DEF Box
  <2> QED BY <1>a, <2>1, BoxNames
<1>f. "cancel" \in Closers /\ "pickAll" \in Closers BY DEF Closers
<1>1. CASE ReceiveList(s) BY <1>1, <1>b, ListArrives
<1>2. CASE CustomError(s)
  <2>1. ~Reloads(s) /\ ~Closes(s) /\ ~Near(s)
    BY <1>2, <1>c DEF CustomError, CodeFits, CodeOf, Reloads, Closes, Last, Near
  <2> QED BY <1>2, <1>b, <1>e, <2>1, AnsweredSyncs DEF CustomError
<1>3. CASE UpdateProductQuantity(s)
  <2> DEFINE new == [l \in Line |-> IF LinesOf(s)[l] = None \/ panel[tab][l] = None
                                    THEN panel[tab][l] ELSE PanelOf(LinesOf(s)[l])]
  <2>1. Served(s) /\ call[s].kind \in OneOf /\ CodeOf(s) = "ok" /\ Done(s) /\ Stay
        /\ UNCHANGED <<server, box, page>> /\ panel' = [panel EXCEPT ![tab] = new]
    BY <1>3, <1>b, <1>c DEF UpdateProductQuantity, OneOf
  <2>2. panel'[tab] = new BY <1>a, <2>1 DEF PanelsOK
  <2>3. ASSUME NEW l \in Line, panel'[tab][l] # None
        PROVE  /\ panel[tab][l] # None
               /\ LinesOf(s)[l] = None => panel'[tab][l] = panel[tab][l]
               /\ LinesOf(s)[l] # None /\ LinesOf(s)[l] = order[l] => Agrees(panel'[tab][l], order[l])
    BY <2>2, <2>3 DEF Agrees, SameNumbers
  <2> QED BY <2>1, <2>3, LineArrives
<1>4. CASE RefreshShipmentLine(s)
  <2>1. Served(s) /\ page \in {"open", "label"} /\ call[s].kind \in LineKinds /\ CodeFits(call[s])
        /\ Done(s) /\ Stay /\ UNCHANGED page
    BY <1>4, <1>c DEF RefreshShipmentLine
  <2>2. CASE UNCHANGED panel /\ (Open("pickAll", None) \/ Open("cancel", None))
    BY <1>b, <1>e, <1>f, <2>1, <2>2, AnsweredSyncs
  <2>3. CASE /\ CodeOf(s) = "ok" /\ UNCHANGED box
             /\ panel' = [panel EXCEPT ![tab] = [l \in Line |->
                  IF LinesOf(s)[l] = None \/ panel[tab][l] = None
                  THEN panel[tab][l] ELSE Refreshed(panel[tab][l], LinesOf(s)[l])]]
    <3>1. call[s].kind \in OneOf BY <2>1, <2>3 DEF LineKinds, CodeFits, CodeOf, OneOf, OfOneLine
    <3>2. \A l \in Line : panel'[tab][l] = IF LinesOf(s)[l] = None \/ panel[tab][l] = None
            THEN panel[tab][l] ELSE Refreshed(panel[tab][l], LinesOf(s)[l])
      BY <1>a, <2>3 DEF PanelsOK
    <3>3. ASSUME NEW l \in Line, panel'[tab][l] # None
          PROVE  /\ panel[tab][l] # None
                 /\ LinesOf(s)[l] = None => panel'[tab][l] = panel[tab][l]
                 /\ LinesOf(s)[l] # None /\ LinesOf(s)[l] = order[l]
                    /\ (order[l].short >= 1 \/ (panel[tab][l].qty = order[l].qty
                                                /\ panel[tab][l].short = order[l].short))
                      => Agrees(panel'[tab][l], order[l])
      BY <3>2, <3>3 DEF Refreshed, Agrees, SameNumbers, PanelOf
    <3> QED BY <1>b, <2>1, <2>3, <3>1, <3>3, LineArrives
  <2> QED BY <1>4, <2>2, <2>3 DEF RefreshShipmentLine
<1>5. CASE ShowConfirmMsgBoxAfterPickAll(s)
  BY <1>5, <1>b, <1>e, <1>f, AnsweredSyncs DEF ShowConfirmMsgBoxAfterPickAll
<1>6. CASE ShowHideShipmentLineList(s)
  <2>1. Served(s) /\ page \in {"open", "label"} /\ call[s].kind = "count" /\ UNCHANGED <<panel, box>>
    BY <1>6, <1>c DEF ShowHideShipmentLineList
  <2>2. CASE page' = "label" /\ Done(s) /\ Stay
    <3>1. ~Reloads(s) /\ ~Closes(s) /\ ~Near(s)
      BY <2>1 DEF Reloads, Closes, Last, Near, OneOf, OfOneLine
    <3> QED BY <1>b, <1>d, <2>1, <2>2, <3>1, AnsweredSyncs
  <2>3. CASE Show("shortItems") /\ call' = [call EXCEPT ![s] = LoadOf("shortItems")]
    <3>1. LoadOf("shortItems") = [Ask("load") EXCEPT !.list = "shortItems"]
      BY DEF LoadOf, ShowsUnloaded
    <3>2. LoadOf("shortItems") \in Call BY <3>1, AsksAreGood DEF GoodAsk, Tab
    <3>3. call'[s] = LoadOf("shortItems") /\ call'[s] # None
      BY <1>a, <2>3, <3>2, RecordAssumption DEF CallsOK
    <3>4. call'[s].kind = "load" /\ call'[s].list = "shortItems" BY <3>1, <3>3 DEF Ask
    <3>5. Reloads(s)' BY <2>3, <3>3, <3>4 DEF Reloads, Free, Show
    <3> QED BY <3>5 DEF Synced, Explained
  <2> QED BY <1>6, <2>2, <2>3 DEF ShowHideShipmentLineList
<1>7. CASE CanProceedToNextScreen(s)
  <2>1. ~Reloads(s) /\ ~Closes(s) /\ ~Near(s)
    BY <1>7, <1>c DEF CanProceedToNextScreen, Reloads, Closes, Last, Near, OneOf, OfOneLine
  <2> QED BY <1>7, <1>b, <1>c, <1>d, <1>e, <2>1, AnsweredSyncs DEF CanProceedToNextScreen
<1>8. CASE StatusSaved(s)
  BY <1>8, <1>b, <1>d, AnsweredSyncs DEF StatusSaved, GotoNextScreen
<1>9. CASE PrintDetails(s)
  <2>1. ~Reloads(s) /\ ~Closes(s) /\ ~Near(s)
    BY <1>9, <1>c DEF PrintDetails, Reloads, Closes, Last, Near, OneOf, OfOneLine
  <2> QED BY <1>9, <1>b, <1>c, <1>d, <2>1, AnsweredSyncs DEF PrintDetails
<1> QED BY <1>1, <1>2, <1>3, <1>4, <1>5, <1>6, <1>7, <1>8, <1>9 DEF HandleMashupOutput

\* The calls that are left are as they were.
LEMMA ReceiveRest ==
  ASSUME PInv, NEW s \in Slot, HandleMashupOutput(s)
  PROVE  Carries' /\ Wants' /\ ShortLast' /\ ListedOK'
<1>a. CallsOK /\ RestOK /\ Carries /\ Wants /\ ShortLast /\ ListedOK BY DEF PInv, TInv, IInv
<1>b. UNCHANGED order BY DEF HandleMashupOutput, server
<1>c. ReceiveShape(s) BY ReceiveShapes DEF PInv
<1>1. \A k \in Slot \ {s} : call'[k] = call[k]
  BY <1>a, <1>c DEF ReceiveShape, CallsOK, Done
<1>d. Free(s)' \/ (call'[s].kind = "load" /\ call'[s].reply = None)
  BY <1>a, <1>c DEF ReceiveShape, CallsOK, Done, Free
<1>e. blind => blind' BY <1>c DEF ReceiveShape, Done
<1>2. Carries'
  <2>1. \A k \in Slot : Served(k)' => Served(k) /\ call'[k] = call[k]
    BY <1>1, <1>d DEF Served, Free
  <2> QED BY <1>a, <1>b, <1>e, <2>1 DEF Carries, LinesOf
<1>3. Wants' BY <1>a, <1>b, <1>1, <1>d, <1>e DEF Wants, Fits, Free
<1>4. ShortLast'
  <2>1. \A b \in {"error", "notPicked", "cancel", "pickAll"} : Open(b, None) => ShortLast'
    <3> TAKE b \in {"error", "notPicked", "cancel", "pickAll"}
    <3>1. [name |-> b, line |-> None] \in Box BY DEF Box
    <3> QED BY <1>a, <3>1, ShortStays
  <2>2. UNCHANGED box => ShortLast' BY <1>a, ShortStays
  <2> QED BY <2>1, <2>2
          DEF HandleMashupOutput, ReceiveList, CustomError, UpdateProductQuantity,
              RefreshShipmentLine, ShowConfirmMsgBoxAfterPickAll, ShowHideShipmentLineList,
              CanProceedToNextScreen, StatusSaved, PrintDetails
<1>5. ListedOK'
  <2>1. Stay => ListedOK' BY <1>a, StayKeeps
  <2>2. Show("shortItems") => ListedOK'
    <3> SUFFICES ASSUME Show("shortItems"), "allItems" \in listed' PROVE painted' BY DEF ListedOK
    <3>1. "allItems" \in listed BY DEF Show
    <3>2. painted' = (painted \/ "shortItems" = "allItems") /\ painted BY <1>a, <3>1 DEF Show, ListedOK
    <3> QED BY <3>2
  <2> QED BY <2>1, <2>2
          DEF HandleMashupOutput, ReceiveList, CustomError, UpdateProductQuantity,
              RefreshShipmentLine, ShowConfirmMsgBoxAfterPickAll, ShowHideShipmentLineList,
              CanProceedToNextScreen, StatusSaved, PrintDetails
<1> QED BY <1>2, <1>3, <1>4, <1>5

-----------------------------------------------------------------------------
\* The first list is being loaded when the screen is opened.
LEMMA InitSyncs == Init => PInv
<1> SUFFICES ASSUME Init PROVE PInv OBVIOUS
<1>1. LoadOf("shortItems") = [Ask("load") EXCEPT !.list = "shortItems"]
  BY DEF LoadOf, ShowsUnloaded
<1>2. LoadOf("shortItems") \in Call /\ LoadOf("shortItems").kind = "load"
      /\ LoadOf("shortItems").list = "shortItems" /\ LoadOf("shortItems").reply = None
  BY <1>1, AsksAreGood DEF GoodAsk, Tab, Ask
<1>3. 1 \in Slot BY BoundAssumption DEF Slot
<1>4. call[1] = LoadOf("shortItems") /\ \A s \in Slot : ~Free(s) => s = 1
  BY <1>3 DEF Init, Free
<1>5. Synced
  <2>1. Reloads(1) BY <1>2, <1>4, RecordAssumption DEF Reloads, Free, Init
  <2> QED BY <1>3, <2>1 DEF Synced, Explained
<1>6. Carries /\ Wants BY <1>2, <1>4 DEF Carries, Wants, Served, Fits
<1>7. ShortLast /\ ListedOK BY DEF Init, ShortLast, ListedOK
<1> QED BY <1>5, <1>6, <1>7, InitTells DEF PInv

LEMMA StepSyncs == PInv /\ [Next]_vars => PInv'
<1> SUFFICES ASSUME PInv, [Next]_vars PROVE PInv' OBVIOUS
<1>1. TInv /\ TInv' BY StepTells DEF PInv
<1>2. CASE UNCHANGED vars
  <2>1. UNCHANGED <<order, call, panel, tab, painted, listed, blind, page, box>>
    BY <1>2 DEF vars, server, screen
  <2>2. Synced'
    BY <2>1 DEF PInv, Synced, OnLists, InSync, Explained, InBox, Reloads, Closes, Last, Near,
                Served, Free, CodeOf, LinesOf, Agrees, SameNumbers
  <2>3. Carries' /\ Wants'
    BY <2>1 DEF PInv, Carries, Wants, Fits, Served, Free, LinesOf
  <2>4. ShortLast' /\ ListedOK' BY <2>1 DEF PInv, ShortLast, ListedOK
  <2> QED BY <1>1, <2>2, <2>3, <2>4 DEF PInv
<1>3. CASE User
  <2>1. PanelShape BY <1>3, UserPanels
  <2>2. ShortLast' /\ ListedOK' BY <2>1 DEF PanelShape
  <2> QED BY <1>1, <2>1, <2>2, UserSyncs DEF PInv
<1>4. ASSUME NEW s \in Slot, Serve(s) PROVE PInv'
  <2>1. ServeShape(s) BY <1>1, <1>4, ServeShapes
  <2>2. ServeEffect(s) BY <1>4, ServeEffects
  <2> QED BY <1>1, <2>1, <2>2, ServeSyncs DEF PInv
<1>5. ASSUME NEW s \in Slot, HandleMashupOutput(s) PROVE PInv'
  BY <1>1, <1>5, ReceiveSyncs, ReceiveRest DEF PInv
<1> QED BY <1>2, <1>3, <1>4, <1>5 DEF Next

\* When nothing is under way, the panels of a list that was loaded when it was shown
\* are the server's lines (getShipmentLineList, refreshShipmentLineAfterQuantityUpdate).
THEOREM PanelsAreTrueHolds == Spec => []PanelsAreTrue
<1>1. PInv => PanelsAreTrue
  <2> SUFFICES ASSUME PInv, page = "open", box = <<>>, ~blind, tab \in listed,
                      \A s \in Slot : Free(s), NEW l \in Line, panel[tab][l] # None
               PROVE  [panel[tab][l] EXCEPT !.typed = None] = PanelOf(order[l])
    BY DEF PanelsAreTrue
  <2>1. ~InBox(Closers) BY DEF InBox
  <2>2. \A s \in Slot : ~Reloads(s) /\ ~Closes(s) /\ ~Near(s)
    BY DEF Reloads, Closes, Near, Served
  <2>3. InSync BY <2>1, <2>2 DEF PInv, Synced, OnLists, Explained
  <2>4. panel[tab][l] \in Panel BY DEF PInv, TInv, IInv, ViewOK, PanelsOK
  <2> QED BY <2>3, <2>4, AgreesIs DEF InSync
<1> QED BY InitSyncs, StepSyncs, <1>1, PTL DEF Spec

\* The + of a panel picks one more of its line, though what is sent is the number that
\* was on the screen (increaseQuantity).
THEOREM PlusHolds == Spec => PlusPicksOneMore
<1> DEFINE Plus == \A s \in Slot :
             Asked(s, "PickLine") /\ call[s].plus /\ call'[s].reply # None /\ ~blind =>
               order'[call[s].line].picked = order[call[s].line].picked + 1
<1>1. PInv /\ [Next]_vars => [Plus]_vars
  <2> SUFFICES ASSUME PInv, [Next]_vars, NEW s \in Slot, Asked(s, "PickLine"), call[s].plus,
                      call'[s].reply # None, ~blind
               PROVE  order'[call[s].line].picked = order[call[s].line].picked + 1
    OBVIOUS
  <2>a. CallsOK /\ OrderOK /\ IInv /\ TInv BY DEF PInv, TInv, IInv
  <2>b. call[s] \in Call /\ call[s].line \in Line /\ call[s].reply = None /\ ~Free(s)
        /\ call[s].kind = "PickLine"
    BY <2>a DEF CallsOK, Asked, Free, GoodCall, OfOneLine
  <2>c. call[s].picked = order[call[s].line].picked + 1
        /\ call[s].picked <= order[call[s].line].qty
    BY <2>b DEF PInv, Wants, Fits
  <2>1. call'[s] # call[s] BY <2>b
  <2>2. CASE UNCHANGED vars BY <2>1, <2>2 DEF vars
  <2>3. CASE User
    <3>1. UNCHANGED call \/ \E c \in Call : Send(c)
      BY <2>a, <2>3, UserShapes DEF UserShape
    <3>2. call'[s] = call[s] BY <2>a, <2>b, <3>1, SendAdds
    <3> QED BY <2>1, <3>2
  <2>4. ASSUME NEW k \in Slot, HandleMashupOutput(k)
        PROVE  order'[call[s].line].picked = order[call[s].line].picked + 1
    <3>1. ReceiveShape(k) BY <2>a, <2>4, ReceiveShapes
    <3>2. k # s BY <2>b, <3>1 DEF ReceiveShape, Served
    <3>3. call'[s] = call[s] BY <2>a, <3>1, <3>2 DEF ReceiveShape, CallsOK, Done
    <3> QED BY <2>1, <3>3
  <2>5. ASSUME NEW k \in Slot, Serve(k)
        PROVE  order'[call[s].line].picked = order[call[s].line].picked + 1
    <3>1. ServeShape(k) BY <2>a, <2>5, ServeShapes
    <3>2. \A j \in Slot \ {k} : call'[j] = call[j]
      BY <2>a, <3>1, RespondSets DEF ServeShape
    <3>3. k = s BY <2>1, <3>2
    <3>4. ServeQuantity(s)
      BY <2>5, <2>b, <3>3
         DEF Serve, Asked, ServePickAll, ServeShortage, ServeAllShortages, ServeBarcode,
             ServeList, ServeCount, ServeNext, ServeStatus, ServePrint
    <3> DEFINE l == call[s].line
               n == call[s].picked
    <3>5. order' = Counted(l, n) BY <2>b, <2>c, <3>4 DEF ServeQuantity
    <3>6. order'[l] = [order[l] EXCEPT !.picked = n, !.done = (n = order[l].qty)]
      BY <2>a, <2>b, <3>5 DEF Counted, OrderOK
    <3>7. order[l] \in OrderLine BY <2>a, <2>b DEF OrderOK
    <3>8. order'[l].picked = n BY <3>6, <3>7 DEF OrderLine
    <3> QED BY <2>c, <3>8
  <2> QED BY <2>2, <2>3, <2>4, <2>5 DEF Next
<1>2. Spec => [][Plus]_vars BY <1>1, InitSyncs, StepSyncs, PTL DEF Spec
<1> QED BY <1>2 DEF PlusPicksOneMore
=============================================================================
