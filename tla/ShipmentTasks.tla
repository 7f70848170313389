--------------------------- MODULE ShipmentTasks ---------------------------
(***************************************************************************)
(* What the store's screens compute of a shipment: the tasks they offer,   *)
(* whether a task may be opened, the calls that take a shipment over from  *)
(* another user, the shipment to sort, the status its slip gives it and    *)
(* its hold locations (ShipmentUtils, BackroomPickUpUtils, SortScan and    *)
(* the extensions of the summary and hold location screens).               *)
(*                                                                         *)
(* Statuses have names for their numbers: toPick 1100.70.06.10, picking    *)
(* .20, picked .30.1, toPack .50, packing .70, toWrap 1100.70.200, slip    *)
(* 1100.70.300, wrapped 1100.70.400, abandoning 1100.70.500, packed 1300,  *)
(* shipped 1400 and abandoned 9000.100.                                    *)
(***************************************************************************)
EXTENDS Integers, Sequences, SequencesExt

CONSTANTS
  User,   \* the users of the store
  Picks,  \* of each delivery method, the users with the permission to pick
  None,   \* no user, shipment, task, link, error or copy
  Part,   \* the words that locations are named with
  Name,   \* the names users type: words, joined by ", " when there are several
  Size,   \* the length of each word
  Width   \* how long a shipment's locations may be, joined: 40 in the code

ASSUME NameAssumption == Name \subseteq Seq(Part) \ {<<>>} /\ Size \in [Part -> Nat]
ASSUME WidthAssumption == Width \in Nat
ASSUME PicksAssumption == Picks \in [{"SHP", "PICK"} -> SUBSET User]

Status == {"toPick", "picking", "picked", "toPack", "packing", "toWrap", "slip",
           "wrapped", "abandoning", "packed", "shipped", "abandoned"}
Task == {"BackroomPick", "Pack", "UnPack", "CustomerPick"}
\* How a task is asked for: by a link, by the flow of the buttons, by its wizard.
Way == {"link", "flow", "wizard"}

\* here: its node is the store in the context of the screens.
Shipment == [method : {"SHP", "PICK"}, here : BOOLEAN, status : Status,
             assigned : User \cup {None}, flagged : BOOLEAN, boxes : BOOLEAN,
             gifts : Seq(BOOLEAN)]

ASSUME NoneAssumption == None \notin User \cup Shipment \cup Task \cup Way

-----------------------------------------------------------------------------
(* Tasks *)

\* The statuses at which the pipelines take up a transaction.
ShippingPickup ==
  [pickInProgress |-> {"toPick"}, pick |-> {"toPick", "picking"}, undoPick |-> {"toPack"},
   pack |-> {"toPack", "packing"}, undoPack |-> {"packing", "packed"},
   slip |-> {}, wrap |-> {}, confirm |-> {"packed"}, unconfirm |-> {"shipped"},
   startAbandon |-> {}, abandon |-> {}, close |-> {"shipped"}]
StorePickup ==
  [pickInProgress |-> {"toPick"}, pick |-> {"toPick", "picking"}, undoPick |-> {"picked"},
   pack |-> {}, undoPack |-> {},
   slip |-> {"picked"}, wrap |-> {"toWrap"}, confirm |-> {"picked", "slip", "wrapped", "packed"},
   unconfirm |-> {}, startAbandon |-> {"slip", "wrapped"}, abandon |-> {"abandoning"},
   close |-> {"shipped", "abandoned"}]

Pickup(ship) == IF ship.method = "SHP" THEN ShippingPickup ELSE StorePickup
Allowed(ship) == {t \in DOMAIN Pickup(ship) : ship.status \in Pickup(ship)[t]}

\* What the transactions of abandonment make of a shipment.
AbandonDrop == [startAbandon |-> "abandoning", abandon |-> "abandoned"]

\* What the screens and the pipelines make of a shipment: its statuses, and gift
\* wrap for gifts.
Course(ship) ==
  IF ship.method = "SHP" THEN {"toPick", "picking", "toPack", "packing", "packed", "shipped"}
  ELSE {"toPick", "picking", "picked", "toWrap", "slip", "wrapped", "shipped", "abandoning",
        "abandoned"}
Matched(ship) ==
  /\ ship.status = "slip" => \A i \in DOMAIN ship.gifts : ~ship.gifts[i]
  /\ ship.status \in {"toWrap", "wrapped"} => \E i \in DOMAIN ship.gifts : ship.gifts[i]
Sensible(ship) == ship.status \in Course(ship) /\ Matched(ship)

MayPick(u, ship) == u \in Picks[ship.method]

\* Mutant of NextTask: packing goes on only where it can also be undone.
NextTaskAfterPacking(u, ship) ==
  LET may == Allowed(ship) IN
  IF ~ship.here THEN None
  ELSE IF "pickInProgress" \in may THEN IF MayPick(u, ship) THEN "BackroomPick" ELSE None
  ELSE IF "pick" \in may /\ MayPick(u, ship) THEN "BackroomPick"
  ELSE IF {"pack", "undoPack"} \subseteq may THEN "Pack"
  ELSE IF "confirm" \in may /\ ship.method = "PICK" THEN "CustomerPick" ELSE None
\* The one link that showNextTask shows a user, by the task it starts or continues:
\* none for a shipment of another store.
NextTask(u, ship) ==
  LET may == Allowed(ship) IN
  IF ~ship.here THEN None
  ELSE IF "pickInProgress" \in may THEN IF MayPick(u, ship) THEN "BackroomPick" ELSE None
  ELSE IF "pick" \in may /\ MayPick(u, ship) THEN "BackroomPick"
  ELSE IF "pack" \in may /\ {"undoPick", "undoPack"} \cap may # {} THEN "Pack"
  ELSE IF "confirm" \in may /\ ship.method = "PICK" THEN "CustomerPick" ELSE None

\* The related tasks of the summary, and the statuses that enable them.
ShippingTasks ==
  [BackroomPick |-> {"toPick", "picking"}, Pack |-> {"toPack", "packing"},
   UnPack |-> {"packing", "packed"}, CustomerPick |-> {},
   AssignToHold |-> {"picking", "toPack", "toWrap"}]
StoreTasks ==
  [BackroomPick |-> {"toPick", "picking"}, Pack |-> {}, UnPack |-> {},
   CustomerPick |-> {"picked"}, AssignToHold |-> {"picking", "picked", "toWrap"}]
\* Picking is hidden from users without the permission.
RelatedTasks(u, ship) ==
  LET tasks == IF ship.method = "SHP" THEN ShippingTasks ELSE StoreTasks IN
  {t \in DOMAIN tasks : ship.status \in tasks[t] /\ (t = "BackroomPick" => MayPick(u, ship))}

\* continueGiftWrap and hideandshowbutton: the gift button takes the place of
\* the other links.
GiftButton(ship) == ship.status = "toWrap"

Valid(task, ship) ==
  (CASE task = "BackroomPick" -> {"pickInProgress", "pick"}
     [] task = "Pack" -> {"pack"}
     [] task = "UnPack" -> {"undoPack"}
     [] task = "CustomerPick" -> {"confirm"}) \cap Allowed(ship) # {}

Another(u, ship) == ship.assigned \notin {None, u}

\* What comes of a task that u asks for.  When none of the transactions is that
\* of the task, the loop runs past the last one and throws.  Nobody sets
\* userValidationReqd to "N", so a user is always validated.
OpenPickOrPack(task, u, ship) ==
  IF Allowed(ship) = {} THEN "error"
  ELSE IF ~Valid(task, ship) THEN "throws"
  ELSE IF Another(u, ship) THEN "popup" ELSE "wizard"

-----------------------------------------------------------------------------
(* Taking a shipment over *)

\* unpackMashup, packChangeShpMashup, packChangeShpStatusMashup and, of picking,
\* bpChangeShpMashup with its action.
Call == {"unpack", "change", "status", "startOver", "continue"}

Only(cond, call) == IF cond THEN {call} ELSE {}

\* Mutant of StartOver: containers are looked for in the status.
StartOverByStatus(task, copy) ==
  IF task = "BackroomPick" THEN {"startOver"}
  ELSE Only(copy.status = "toPack", "unpack") \cup {"change"}
         \cup Only(copy.status # "packing", "status")
\* The calls of one answer of the popup: they are one transaction.
StartOver(task, copy) ==
  IF task = "BackroomPick" THEN {"startOver"}
  ELSE Only(copy.boxes, "unpack") \cup {"change"} \cup Only(copy.status # "packing", "status")

\* To continue before packing has begun appends to a list that was never made:
\* the handler throws, and nothing is called.
ContinueTask(task, copy) ==
  IF task = "BackroomPick" THEN {"continue"} ELSE Only(copy.status = "packing", "change")

\* The same answer to the popup of a wizard.
ContinueAndNext(task, copy) ==
  IF task = "BackroomPick" THEN {"continue"}
  ELSE {"change"} \cup Only(copy.status # "packing", "status")

Refused(ship, calls) ==
  \/ "status" \in calls /\ ship.status # "toPack"
  \/ "change" \in calls /\ ship.status \notin {"toPack", "packing"}
  \/ {"startOver", "continue"} \cap calls # {} /\ ship.status \notin {"toPick", "picking"}
Taken(ship, u, calls) ==
  [ship EXCEPT !.assigned = u,
               !.boxes = @ /\ "unpack" \notin calls,
               !.status = IF "status" \in calls THEN "packing"
                          ELSE IF "change" \in calls THEN @ ELSE "picking"]

-----------------------------------------------------------------------------
(* Sorting, slips and gift wrap *)

\* Mutant of ToSort: a shipment that is being sorted is not passed over.
ToSortAny(lines, u) == {s \in DOMAIN lines : lines[s].found}
\* The shipments a scan found that nobody is sorting, or that are u's.
ToSort(lines, u) ==
  {s \in DOMAIN lines : lines[s].found /\ (~lines[s].flagged \/ lines[s].assigned = u)}

\* The one of them that is sorted, if there is one.
FirstToSort(lines, u) == {s \in ToSort(lines, u) : \A r \in ToSort(lines, u) : s <= r}

\* Mutant of BaseDropStatus: the first line decides.
BaseDropFirst(gifts) == IF gifts # <<>> /\ gifts[1] THEN "toWrap" ELSE "slip"
BaseDropStatus(gifts) == IF \E i \in DOMAIN gifts : gifts[i] THEN "toWrap" ELSE "slip"

-----------------------------------------------------------------------------
(* Hold locations *)

\* A location in the list of the screen; gone: toDelete is "Y".
Location == [at : Name \cup {<<p>> : p \in Part}, gone : BOOLEAN]

\* What is stored is the names joined by ", ", and read it is split at ", ".
HoldLocationList(hold) == [i \in DOMAIN hold |-> [at |-> <<hold[i]>>, gone |-> FALSE]]
HoldLocationUpdate(list) == FoldLeft(LAMBDA str, loc : str \o loc.at, <<>>, list)

IsDuplicate(name, list) == \E i \in DOMAIN list : list[i].at = name
AppendLocation(list, name) == Append(list, [at |-> name, gone |-> FALSE])
DeleteLocation(list) ==
  FoldLeft(LAMBDA left, loc : IF loc.gone THEN left ELSE Append(left, loc), <<>>, list)

Sizes(hold) == FoldLeft(LAMBDA n, p : n + Size[p], 0, hold)
Joined(hold) == Sizes(hold) + 2 * (Len(hold) - 1)
ValidateHoldLocation(hold) == hold = <<>> \/ Joined(hold) <= Width

\* Mutant of EntryDisabled: the box is closed at the second location.
EntryDisabledLate(list) == Len(list) = 2 /\ \E i \in DOMAIN list : ~list[i].gone
\* verifyIfLocationAssigned: the box for a location is closed when there is one.
EntryDisabled(list) == Len(list) = 1 /\ \E i \in DOMAIN list : ~list[i].gone
=============================================================================
