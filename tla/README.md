# Verification of the Indigo order management customisation

This directory holds TLA+ models of the custom code that Indigo runs on the
Sterling order management product, the TLC configurations that check them and
TLAPS proofs about them.  Two parts of the system are modelled: the inventory
synchronisation of the server (Java and scripts) and the store's screens
(JavaScript extensions of the product's web application).

## 1. Inventory of the system

Paths are relative to `src/`; `com/indigo` is `indgcustom/src/com/indigo`.

| Component | State | Operations | Hard behaviour |
|---|---|---|---|
| Load server of the full inventory sync (`com/indigo/inventory/IndgManageInventoryMismatch`, `IndgCustomInventoryMismatch`, `IndgManageFullSyncStatus`) | status table, the chunk queue, the adjustment log | SOF, STORE, EOF messages | five threads on one queue; recursion at EOF; scripts launched and not awaited; key collisions |
| Adjust server (`IndgAdjustInventoryFullSync`) | control table, supply, status table | one chunk | overwrites dates; fails on a chunk without lines |
| Delta server (`IndgManageInvDeltaSync`) | control table, supply, adjustment log | relative adjustment, cycle count | waits for the status table, then reads and writes while others do; late and overtaking messages; several instances |
| Shipment log (`IndgInsertAdjtLogForConfirmShip`) | adjustment log | shipment confirmed | concurrent with a count |
| Scripts (`Foundation/script`) | the delta server's processes | stop, start | asynchronous, may overlap |
| Date comparison (`masterupload/itemfeedupload/IndgManageItemFeed`, static methods) | none | two comparisons | twelve hour patterns |
| Inventory export (`IndgFullInventoryExport`, `IndgDeltaInventoryExport`, `IndgManageInventoryExportEOF`, `manageFullInventoryUpload_*.sh`) | a file and its counter | availability message, end of file | files roll while a script removes them |
| Reservations (`om/reservation/api`) | reservations held by the product | check out, modify, extend, cancel | a modification cancels or reserves differences line by line; an extension swallows errors of its cancellation; lines of one item |
| Message sequence numbers (`IndgSequencingNo`) | a counter per order | next number | unlocked read and write |
| Batch pick and shortages (`IndgHandleBatchPick`, `InventoryShortReasonCode`, ...) | shipments and orders | shortage, pick later, damaged | repeated calls per shipment |
| Order cancellation (`IndgCancelMissingLines`, `IndgLegacy051ToCancel`, `IndgOnCancelEvent`, ...) | order quantities | cancel by message | quantities of several messages |
| Outbound messages (the rest of `om/outbound/api`) | none | reformat a document | |
| Master data (`masterupload`, `utils/IndgManageDeltaLoadUtil`) | items, categories, calendars, stores, users | feeds | instance fields, stale time stamps |
| Framework, agents, utilities (`indgutils`) | none that outlives a call | delegate to the product | |
| Sort scan screen (`wsc/customScreen/sort`, `wizards/SortScanPickWizard`) | two lists of line panels, the active list, flags, boxes | scan, count, shortage, pick all, change list, Next, Confirm | several calls outstanding; absolute quantities; answers written into the list that is active; lists that are not loaded |
| Pick utilities (`wsc/customScreen/backroompick/utils`) | none: they compute on models of lines | scan, shortage, start over, finish, notes, inventory, hold locations | sequences of operations on one line; splicing while walking |
| Shipment utilities (`wsc/customScreen/search/utils/ShipmentUtils`) | none: they act on a screen's copy | next task, opening a task, the popup of an assigned shipment | stale copies; two users; refused changes |
| Summary, details, pick details, home, search, hold location, gift wrap (`wsc/components/shipment`, `wsc/customScreen`, `wsc/mobile`, `wsc/wizards`) | the page and its copy; the list of locations | open, start a task, sort, print, hold, wrap | users beside each other; a slip that prints itself; answers to pages that were left |
| Pickup pipelines (`CDT/YFS_PIPELINE_PICKUP_TRAN.cdt.xml`) | a shipment's status | transactions | which status allows what |
| Item details on line panels (`ShipmentLineDetailsExtn`, `BatchLineDetailsExtn`, `ShipmentSummaryShipmentLineDetailsExtn`, `customScreen/Line/ShipmentLineDetails`, `components/product/details`) | what a panel shows of its item | ask for the item, then for the categories of its codes | several calls outstanding; answers that do not say what was asked; absent parts |
| Batch pick extensions, gift wrap line panels, portlets, editors (the rest of `Foundation/extensions/wsc`) | none | labels, counts | |
| LDAP login, practice programs, jars, configuration data | | | |

How the synchronisation parts interact: SAP puts SOF, one message per store
and EOF on one queue and movements and counts on another.  The load server
compares and queues chunks; the adjust server applies them.  The two sides meet
in three tables: the *status table* (one record per chunk that is queued), the
*control table* (the dates of the latest feed or count of an item in a store)
and the *adjustment log* (what was applied since, which a late count adds to its
quantity).  Shipments change supply and the log from outside.  The product keeps
supply.  `CDT/YFS_SUB_FLOW.cdt.xml` makes the receivers transactional, gives the
load server five threads, the adjust and delta servers one each.

How the store's parts interact: a user finds a shipment by search, on the home
page or by a scan.  Its page keeps the copy the server sent and offers tasks for
it.  A task is opened after the server has validated it; if the shipment is
another user's, a popup asks whether to start over, continue or leave it.  A
store pickup that was picked (`1100.70.06.30.1`) is sorted by scanning: the scan
finds it, its page flags it, the sort wizard counts its lines and hands over to
the hold wizard, which stores a location and prints the slip.  The slip moves
the shipment to gift wrap (`1100.70.200`) or to hand-over (`1100.70.300`); the
gift wrap wizard moves it on (`1100.70.400`).  From there two services may give it
up (`1100.70.500`, then `9000.100`).  A summary that is opened while the
shipment is picked prints the slip by itself.  Everything goes through
`callApi`: the request is served later, and its answer handled later still, by
the page the user is on then.

What makes each correct:

* supply becomes what is in the store once everything about an item has
  arrived, in whatever order (`Converged`);
* the status table tells the truth about outstanding chunks (`StatusTracksChunks`);
* a count never moves a control record back (`CountsAdvanceControl`);
* every feed is worked off, and the delta server comes back (`Settles`), and the
  availability agent (RTAM) is triggered (`EveryFeedTriggers`), once
  (`OneTriggerPerFeed`) and not too early (`TriggerAfterAllStores`);
* chunking loses, repeats and reorders nothing (`LoopSendsChunks`, `NothingLost`);
* dates compare as instants do (`OrderedOutsideNoon`, `DaysAreOrdered`,
  `OrderedWithinHalfDay`, `ComparesDates`);
* the sort screen loses no unit (`Conserved`, `LedgerSpec`), shows the truth
  (`PanelsAreTrue`, `AllPickedIsTrue`), does what a button says
  (`PlusPicksOneMore`), finishes only what is picked or short
  (`PickedMeansComplete`) and answers whoever asks to finish (`NextIsAnswered`);
* the pick utilities keep what was ordered (`UnitsKept`, `NothingBeyondOrder`),
  account for it when picking ends (`FinishAccounts`, `NotesNameShortLines`),
  overlook no shortage (`ShortagesAreSeen`), show the right lines
  (`DisplayIsFilter`) and announce the last shortage of a shipment rightly
  (`LastShortageLeavesNothing`);
* the panels of a line tell the same of an item, in whatever order their calls are
  answered (`PanelsAgree`);
* no shipment is stranded between the places that decide its next task
  (`TasksAgree`); it is sorted by one user (`OneSorter`, with its exceptions), leaves sorting
  with its slip (`SlipEndsSorting`), goes to gift wrap when it has a gift
  (`WrapMatchesLines`), lies in one place (`OneLocation`), and taking it over does
  what the popup says (`TakeOverKeepsItsWord`).

## 2. Modules

| Module | What it is |
|---|---|
| `TxDate` | the two comparisons of time stamps, at the resolution of an hour |
| `MCTxDate` | all pairs of hours, and what the comparisons promise |
| `TxDateProofs` | theorems about them |
| `Chunking` | the chunks of a store's lines in closed form |
| `ChunkLoop` | the chunking loop step by step, against the closed form |
| `ChunkLoopProofs` | that they agree for every chunk size and number of lines |
| `InvSync` | the synchronisation; extends `TxDate` and `Chunking` |
| `MCInvSync` | symmetry for TLC |
| `InvSyncProofs` | theorems about `InvSync`: types, status table, dates |
| `InvSyncConvergence` | theorem: supply converges to the stock |
| `DataInduction` | induction over numbers and finite sets, recursion over naturals and sets, folds: the lemmas the proofs share |
| `PickLedger` | what picking a shipment promises, without a screen: the abstract specification |
| `SortScan` | the sort screen, its calls and answers; instantiates `PickLedger` |
| `MCSortScan` | its instance for TLC |
| `SortScanProofs` | theorems: the ledger, what is said of a picked shipment, the panels |
| `PickModels`, `PickModelsProofs` | the pick utilities as operators on lines, driven by the operations of a pick session; theorems |
| `ShipmentTasks` | what the screens compute of a shipment: pure operators |
| `StoreFlow` | users, pages, requests and answers; extends `ShipmentTasks` |
| `MCStoreFlow`, `StoreFlowProofs` | its instances for TLC, and theorems |
| `ItemPanels` | what five kinds of panels show of an item, with their calls |

### InvSync and the code

Tables and queues are variables: `status`, `ctrl`, `log`, `supply`, `feedQ`,
`chunkQ`, `deltaQ`; `loader[t]` and `delta[c]` say what a thread of the load
server and an instance of the delta server is doing; `scripts` are scripts
launched and not yet run, `stopping` the instances told to stop.

A handler of a transactional receiver makes its writes visible at its end but
reads earlier, so a handler is a reading step and a writing step:

| Code | Actions |
|---|---|
| `manageDeltaServer` (SOF) | `ManageDeltaServer` |
| `getInventoryMisMatch`, `loadMismatch` | `GetMismatch`, which reads supply |
| `pushInputForAdjustInventory` | `PushInputForAdjustInventory`, which commits status records and messages; `DuplicateStatusKey` when two keys collide |
| `IndgManageFullSyncStatus.sleepTillEOF` | `ReceiveEOF`, `SleepAgain`, `SeeNoStatus`, `TriggerFullSync` (one per frame) |
| `IndgAdjustInventoryFullSync` | `AdjustInventory`, `RejectEmptyChunk` |
| `IndgManageInvDeltaSync` | `ReceiveDelta`, `SleepTillEOF`, `ReadTables`, `ApplyDelta`, `ApplyCount` |
| `IndgInsertAdjtLogForConfirmShip` | `Ship` |
| the scripts | `RunStopScript`, `RunStartScript`; the product's stop is `StopServer` |
| SAP and the operator | `Post`, `Count`, `SendSOF`, `SendStores`, `Reprocess` |

What is assumed about the outside and the product:

* Every event outside has a time of its own; a feed is a snapshot of the stores
  at one moment, with the date of SAP's latest movement of each item.
* A feed lists the items SAP has stock of or has booked; every item of `Items`
  has a supply record in every store, so one the feed does not list is among the
  differences of `loadMismatch`.
* Delta messages arrive in any order, each once; feed messages in order.
* A chunk is one transaction of the product: its reads of the control table, its
  writes and the adjustment are one step, because the adjust server has one thread
  and writers of supply are told apart by `drift`.
* Every shipment of the model is confirmed as a shipment (document type 0001): for
  others `IndgInsertAdjtLogForConfirmShip` (25) writes no record.
* A shipment is confirmed by the product in one transaction with its log record,
  whose dates are void, so the table's default (`sysdate`) is its date; the same
  default dates a control record made for an item without dates.
* A message that failed is reprocessed by an operator (the flows are configured
  with `Reprocess="Y"`).
* A delta message holds one item.  Supply has one type per item.  Key collisions
  are those of two chunks of one message.
* The stop script finds the processes it looks for; scripts run in the order
  they were launched.
* Time is in hours.  In the runs of `InvSync` the clock starts at midnight and
  does not reach noon, where the comparison is wrong (section 4); in the
  theorems it starts at any hour and may go on for days (section 5).

### What Converged says, and the history variables

`Converged` compares supply with the stock in the store whenever nothing about
an item is on its way.  The code does not achieve this in all interleavings.
`drift` records, per item and store, the interleavings after which supply may be
off until the next feed or count; everything else must converge.  They are:

1. a delta or count writes after an adjustment has changed the control record it
   read, or another instance or a shipment overtook a count's reading (`raced`);
2. a relative delta older than a feed in transit is written between the feed's
   comparison and its adjustment (it passed the status check first), or a count is;
3. a store's difference is computed while an earlier difference of it is still in
   transit (two feeds), or after a change newer than the feed's snapshot was applied,
   or claimed to be (4);
4. a chunk creates an undated control record while older deltas still wait (they
   are dropped, so the record claims for supply what it does not include;
   `applied` says what is claimed);
5. a count is older than log entries deleted at SOF (`cut`).

These variables are read by no guard.  They make the invariant precise: the
list is what a reader of the code has to know, the runs show that it is complete
within the bounds, and theorem `Convergence` that it is complete without them
(section 5).

### SortScan and the code

`call[s]` is an outstanding call: what it asks and, once served, the answer.
`panel[t][l]` is the panel of line `l` in list `t` (the repeating panels
`readyForPickupLineList` under the tab `shortItems`, and `unpickedLineList` under
`allItems`); `tab` is `activeRepeatingPanelUId`, `painted` is
`isInitViewPainted`, `saved` is `backroomPickSaved`; `box` is the stack of boxes.

| Code | Actions |
|---|---|
| `scanProduct`, `pickAll` | `Scan`, `ScanBlank`, `PickAll` |
| `SortLineDetails`: typing, +, -, Enter, "pick all" of a line, shortage | `Enter`, `ValidateAndUpdate`, `PickAllQuantity`, `OpenShortageResolutionPopup`, `OnShortageReasonSelection` |
| `shortItems_onShow`, `allItems_onShow`, the dirty handlers | `BeforeHide`, `HandleDirtyForView`, `Show` |
| `save` and the answers to its boxes, `moveAhead` | `Save`, `Handle...Confirmation`, `MoveAhead` |
| `handleMashupOutput` | one action per kind of answer, from `ReceiveList` to `PrintDetails` |
| the server's mashups (external) | `Serve...` |

`blind` is a history variable: a change was sent past a call that was not
answered, or from a list that was never loaded.  The screen does nothing against
either, and a quantity that was computed from an old number then overwrites a
newer one; `AllPickedIsTrue`, `PanelsAreTrue`, `PickedMeansComplete` and
`PlusPicksOneMore` are about the rest.  `Conserved`, `LedgerSpec` and
`NextIsAnswered` hold without it.

Assumed of the server, from how the screen uses its answers: a quantity above
what is required is refused; a scan adds one or is refused; a shortage makes
what is picked the quantity; Next finishes when all lines are picked or short,
cancels when nothing is left of any, and asks otherwise.

### PickModels and the code

The utilities are operators: each takes the lines of a shipment and gives the
input of a server call, as the functions of `BackroomPickUpUtils` do.  The
actions put them in the order of a pick session (`Load`, `Scan`, `MarkShort`,
`MarkAllShort`, `PickAll`, `StartOver`), and the properties ask at each state what
finishing, notes, inventory and display would be.  A scan of a code that no panel
shows (`NoLine`, or a bundle) only gives a message.  `MarkAllShort` is the box that
marks every line, for which the screen sends the key alone and the server (external)
marks the lines.

`FinishCall` is what `getChangeShipmentQtyStatusNotesModel` really sends when picking
ends: the inventory of the lines of which something is picked, and otherwise models
without lines.  `ChangeShipment` (`getChangeShipmentModel`) is computed by the code and
dropped, so that `FinishAccounts` speaks of what it asks for, not of what the server is
told.  Nothing of a session cancels a shipment.  The file defines the functions on the
object of the product (`wsc.components.shipment.backroompick.utils`), where the
screens look them up; `ShipmentUtils` likewise.  An attribute that may be absent is
`Void`, which counts as zero but is not the same.

### StoreFlow and the code

`ship` and `hold` are the server's shipments and locations; `desk[u]` is a user's
page, the shipment it is about and the copy it was made with; `net` holds requests
and answers.  Statuses are named in the head of `ShipmentTasks`.

| Code | Actions |
|---|---|
| `SST_search`, `openPickDetails`, `movetoSort` | `OpenDetails`, `OpenPickDetails` (with `PrintButtonCheck`), `MoveToSort` |
| `handleStartPack_OnClick`, `openpickOrPackFlow`, `pickDefaultAction` | `OnClick`, `OpenPickOrPackFlow`, `DefaultAction` |
| `handleValidationOutput`, `handleGetshipmentDetailsAPICall`, `handleShipDetailsOutput` | the actions of the same names: wizard, popup, message or nothing |
| `handleAssignedUserPopupResponse`, `handleAssignedUserPopupAndNext` | `AbandonedCallback` with `TakeOver`; `ServeTake`; `OpenContainerPackWizard`, `CombinedAPICallOnNext` |
| `scanProduct`, `handleSort`, `afterScreenLoad` | `ScanProduct`, `HandleSort`, `ChangeFlagForSort` |
| `SortScanPick.moveAhead` with `extn_getPrintDetails`, its answer | `MoveAhead`, `GetPrintDetails`, `PrintDetails` |
| `UpdateHoldLocationExtn` and the hold functions | `AddHoldLocation`, `DeleteHoldLocation`, `RepaintHoldLocationList`, `ActionConfirm` |
| gift wrap | `OpenGiftWrap` (from the summary or the details page), `TestRelationship` |
| abandonment, by services (external, from the pipeline) | `Abandon` |
| the product's own wizards (external) | `Work` |

A shipment's method, store and gifts do not change.  A task is offered only in the
shipment's store (`here`), picking only to users with the permission of its method
(`Picks`); after the slip or the wrapping a store pickup may be given up
(`abandoning`, then `abandoned`).  Left out: shipments of a batch, which
`ShipmentUtils` refuses with an error and a popup of their own (705-716, 864, 896-911,
957), and `userValidationReqd`, which nobody sets to "N".  When a scan finds nothing
to sort, `handleSort` goes home and then throws; by then all it does is done.  A change of status is refused when
the pipeline does not allow its transaction; the calls of one answer to the popup
are one transaction.  An answer that finds its page gone is ignored (`Ignore`);
that of a second scan may still open its wizard over the first one's.

History variables: `shared` says of a shipment that a scan was answered for a user who
may sort it beside another: the other's scan had been answered too and their flag was
not set yet, or it was set and the shipment was assigned to the first.  `doubled` says
that a name of several words was entered (stored names are split at ", ") or one was
added before the answer to a deletion: both give a shipment two locations.
`OneSorter` and `OneLocation` are about the rest.

### ItemPanels and the code

`view[p]` is what a panel shows, `calls` what it has asked.  A text is the sequence of
its parts, so that the description appended to a code is seen, and seen twice if it is
appended twice; `<<>>` stands for an element that is not there, `Blank` for an empty one.

| Code | Actions |
|---|---|
| `updateItemDetails` of the line panels | `PickItemDetails`, `UpdateItemDetails` |
| `handleMashupOutput` for the item, with `updateDescription`, `updateAllValues` and the getters | `PickItem`, `BatchItem`, `SummaryItem`, `SortItem` |
| `updateShipmentLine` for a category | `HandleCategory` with `Described` |
| `updateAuthor` of the product's details | `ShowDetails` with `UpdateAuthor` |

Read from the mashups: the panels of a line, a batch and of sorting find an item by its
name and the unit `EACH`, the summary by its key, which always finds it.  Assumed of
the server: a list of categories names each code once, and asked without a code it
lists all, in any order; an attribute without a value has an empty one.  `PanelsAgree`
is about items that have all their parts; without them the handlers throw, at different
places (`Throws`).  The panels of sorting show the commodity code in both places
(section 4) and are compared with nothing.

## 3. Runs

| Run | Instance | What it shows |
|---|---|---|
| `chunk_loop` | two kinds of lines, up to 7 lines, property 4 (chunks of 3) | both below, at and above one and two full chunks; also passes with 1 and 2 |
| `date_order` | 51 hours from 7 o'clock, all pairs | two noons and two midnights |
| `date_noon` | the same | violated: noon |
| `sync_races` | 1 item, 1 store, 2 load threads, 2 delta instances, 1 feed, posting, count, shipment | every order of one event of each kind: `Converged`, `CountsAdvanceControl` |
| `sync_feeds` | 2 feeds, 1 posting, 1 shipment, property 1 | two feeds in flight at once, SOF of one inside the other; every store's first chunk is empty and fails, its status record stays, and the second holds the store's line |
| `sync_settles` | 1 load thread, 2 items in 2 chunks, count, key collision, wait; fairness, no symmetry | liveness, splitting of a store over chunks, and that the agent is triggered before a store only if its message was put aside |
| `one_trigger` | 1 thread, 1 wait | violated: two triggers for one feed |
| `early_trigger` | 2 threads | violated: trigger while a store is being compared |
| `sort_screen` | lines of 3 (1 short already) and 1, 2 calls, 4 user actions | the screen with its calls and answers in every order; that the server's record is `PickLedger`; that Next is answered |
| `pick_models` | up to 3 lines of 2 orders, quantities to 2, 4 steps | every sequence of operations on lines, bundles included |
| `store_flow` | 2 users, 2 shipments, 2 requests each; openings below | tasks, take-over, sorting, hold, slip, wrap and abandonment, of this store and another, with and without the permission to pick, in every order of requests and answers |
| `item_panels` | 2 codes, 2 names and values, up to 2 attributes, 2 panels | every item with parts given, empty or absent, and every set of categories; every order of the answers |

Why the bounds are enough to be of interest: one event of each kind already
meets every guard in either order; two load threads and two delta instances are
the least that race; two items and a chunk size of two (one line per chunk) give
a store with two chunks; one collision and one wait exercise the retry and the
recursion.  Threads and instances are interchangeable, hence the symmetry where
only safety is checked.  Deadlock is not checked: the system rests when the
outside has done what its bounds allow; likewise in the runs of the screens, once
the users have done what theirs allow.

The bounds of the screens.  In `sort_screen` a line of three with one short has
room for +, -, a partial count, a shortage on top of a shortage and a refused
quantity; the second line makes "all" differ from "this one"; two calls are the
least that overtake each other; four actions are enough to fill both lists, type,
change the list and finish.  In `pick_models` three lines of two orders are the
least in which the lines of an order are not adjacent, and four steps load two
lines and work on them twice.  `store_flow` has three kinds of openings: one shipment
to pack, being packed or being picked by a user, beside one that was handed over,
with six actions (both users open it, ask, take over and work); two picked
shipments, one with a gift on its second line and one assigned, with five actions
(both users scan, sort, confirm); and one that only one user may pick beside one of
another store, with four.  In `item_panels` two panels are the least that compare, two
codes let LM and MCAT be one or differ, and two attributes of one name are where a
getter and a loop differ.

Fairness (`FairSpec`): each server thread, instance and script that can take a
step eventually does, since they are processes of a server that polls its queue;
SAP finishes a feed it has begun; an operator reprocesses what failed.  Nothing
obliges SAP or the stores to start anything.  In `SortScan` and `StoreFlow` the
server serves a request and the browser runs the handler of an answer eventually,
because `callApi` reports an error as an answer too; users are under no
obligation.

Refinement: `sort_screen` checks `LedgerSpec`, that `SortScan` implements
`PickLedger` with the same `order` and `status`; a step of the server is a count, a
shortage or the end, and everything else a stutter.

## 4. Findings

* `IndgManageFullSyncStatus.sleepTillEOF` goes on after its recursive call, so
  each wait adds a start of the delta server and a trigger of the agent
  (`one_trigger`).  The extra instances of the delta server are what makes
  `Consumers` more than one.
* With several threads EOF can be handled while a store of the feed is still
  being compared and has no status record yet: the agent is triggered, and the
  delta server started, too early (`early_trigger`).  There is a second cause, with
  one thread too: a store message that was aborted (two status records in one
  millisecond) is put aside until an operator processes it again; meanwhile EOF finds
  an empty table.  `sync_settles` has this case, and theorem `SingleLoader` shows
  that with one thread it is the only one.
* `validateTimeDifferenceWithMS` parses the hour after noon as the hour after
  midnight (`date_noon`); `NoonIsTheOnlyHour` shows it is right everywhere else.

Seen while modelling the screens, and excluded or stated by the properties:

* The two handlers of the dirty message are attached crosswise
  (`SortScanPick.js` 748-811): what was typed in the list that is left stays, and
  what was typed in the list that is shown is forgotten (`HandleDirtyForView`).
* `allItems_onShow` does not load the list the first time, so a list from the
  opening of the screen can be worked on (`blind`, `listed`).
* The sort wizard's Confirm prints and goes on whether anything is picked or not
  (`moveAhead`); without an order in the answer `printDetails` throws.
* Finishing overwrites the shortage of a line that was short before and is missing
  more (`getChangeShipmentModel` 740; excluded in `FinishAccounts`), while
  `getShortageChangeShipmentModel` adds to it.
* `getChangeShipmentQtyStatusNotesModel` (944-973) computes that change, but puts the
  model of the status change, which holds the key alone, into the call of
  `changeShipment`; the call of the orders has no order either, because the notes are
  a list of calls and are read as one model.  So neither quantities nor the
  cancellation reach the shipment, nor the notes the orders, while what was picked
  leaves the inventory (`FinishCall`).
* The last shortage of a shipment is announced as its end, and leaves nothing of it
  (`LastShortageLeavesNothing`), but cancels nothing: the lines that did are commented
  out (688-690).
* A scan is accepted up to quantity plus shortage (`validateScannedQuantity`),
  but `hasOverages` compares with the quantity alone.
* After a slip or gift wrap `showNextTask` offers customer pickup, while the related
  tasks of the summary enable it only at `1100.70.06.30.1`; `TasksAgree` holds
  because one of the two offers it.
* Once it is being abandoned (`1100.70.500`) a shipment is offered no task and no
  gift button anywhere; only the service that ends it goes on.
* When none of the transactions is that of the task asked for,
  `handleGetshipmentDetailsAPICall` runs past the last one (370) and throws; to
  continue packing that has not begun appends to a list that was never made (833)
  and throws (`ContinueTask`).
* Two users may sort one shipment if both scans come before the flag, or if one sorts
  it unflagged while it is assigned to the other, whom the flag does not keep away
  (`shared`).  A shipment that was flagged and left is hidden from everybody but the
  user it is assigned to.
* The panels of the sort and gift wrap screens write the commodity code over the
  product line and over itself (`SortItem`), so both places show one code.
* Of an item without attributes the panels of a batch, of sorting and of a product's
  details show nothing: the loop over the attributes throws first (`Throws`).
* A location added before the answer to a deletion saves the deleted one as well.
* `ShipmentRTExtn` fires `printInvokeEvent` globally, so every summary that is open
  prints; and `BackroomPickProductScanExtnUI.js` 103 logs a name that is not defined,
  so its message after "pick all" never shows.  Neither is modelled.

## 5. Proofs

`InvSyncProofs` proves, for every assortment, set of stores, threads, instances,
chunk size, start of the clock and bounds (assumptions: `Items` and `Nodes` are
finite, the bounds are naturals, `MaxItems` is a positive natural, `StartHour` an
hour):

* `TypeCorrect`: `Spec => []TypeOK`.  `TypeOK` is inductive.  Its parts follow the
  groups of variables, one lemma per server, under it one step per action.  The
  lemmas about `Chunks` and about a store's lines carry the data part.
* `StatusCorrect`: `Spec => []StatusTracksChunks`.  Not inductive alone, because
  a fresh key might be in use; `StatusInv` adds `KeysGrow`, that no key in use is
  beyond `nextKey`.  `StatusPush` is the interesting step: the new chunks have
  keys beyond all others and distinct from each other.  `TakeChunk` serves both
  handlers that take one.
* `SingleLoader`: with at most one load thread, `Spec => TriggerMissesOnlyPutAside`
  (the instance of `sync_settles`): the agent is triggered with no chunk outstanding and
  no store in hand, and with every store done unless a message was put aside.
  Its invariants are `UnwindsEmpty` (while the EOF handler returns, the status table
  stays empty, because only that thread could add to it) and `QueueInv`: as long as
  nothing was put aside, the SOF of the next feed follows an EOF in the queue, so that
  no store of the feed is left when the only thread has taken its EOF.

* `CountsAdvance`: `Spec /\ []NothingAtNoon => CountsAdvanceControl`.  The comparison
  of dates is wrong in the hour after noon, so the theorem is about behaviours in which
  nothing is dated then: no booking, no feed's snapshot, and no control record that
  takes the date of its update.  The clock may pass that hour (with the SOF of a feed,
  which carries no date) and days may go by.  The invariant says that every date
  between SAP and the control table is that of an event (`Times`; lines of items that
  are not listed have none), and that what an instance has read of the control table
  still holds unless another writer was noted in `raced` (`Fresh`).

`InvSyncConvergence` proves the property that all of this is for,
`Convergence == Spec /\ []NothingAtNoon => []Converged`.  `Converged` is about the
moment when all is over, so it says nothing about the steps on the way.  What leads
there is told by three functions of time that are no variables but exist in every
state, for every item in every store (`KeyInv`):

* `h`, what was in the store.  A message that waits tells of the change of `h` at its
  date, nothing else changed since the last date that supply includes (`Told`,
  `Still`), and a store message tells `h` at its snapshot (`Tells`).
* `b`, the date of the snapshot or count that supply is based on, and `a`, where `a[t]`
  is what was applied to supply of changes after `t`.  From `b` on `h + a` changes only
  where a message still waits (`Balance`); the log holds `a` unless SOF has emptied it
  (`Logged`); supply is `h[b] + a[b]`, or will be when the line in transit is adjusted
  (`OnRecord`, `OnTheWay`); and the control record lets exactly the messages
  after `b` pass (`Ahead`).

With no message left `h + a` does not change from `b` to now, so supply is
`h[b] + a[b] = h[now] + a[now] = stock` (`QuietConverges`, by induction over the hours).
Each action either concerns the item and store, and gives new functions: `SendKeeps`
(a booking or count is sent, `h` is extended), `ShipKeeps`, `DeltaKeeps` (`a` grows
before the date of the delta), `CountKeeps` (`b` becomes the date of the count, and the
log is the new `a`), `CompareKeeps` (`b` becomes that of the snapshot), `AdjustKeeps`;
or it is aside of it (`Aside`) and keeps the functions (`AsideKeeps`).  That a chunked
feed has each item in one place (`OneSpot`) is shown of `NewChunks`.  A drift lasts
until the next feed or count, and `Claim` starts anew from there.

Looking for the invariant corrected the model's account of the interleavings.  A line
without dates that creates a control record while a delta waits makes the record newer
than the delta, which is then dropped.  That was noted in `drift`, but the next feed
was taken to heal it, even one whose snapshot is older than the record and thus misses
the delta as well.  `applied` now says what the record claims, so that such a feed
counts as one of case 3 above.

`ChunkLoopProofs` proves `LoopComputesChunks`, that the loop sends what `Chunks`
says, which is what `InvSync` uses.  While the loop runs, every chunk that was sent is
full, and the one being filled goes from there to the line the loop is at (`Fills`);
`RoundedUp` is the division that gives the number of chunks.  A chunk size of 1
(`Overflows`) is a case of its own.  `LoopTypes` keeps the loop's types.
`LoopLosesNothing` (`NothingLost`): the chunks joined, with the one being filled,
are the lines up to the one the loop is at (`Whole`), by induction on the chunks.

`TxDateProofs` proves `NoonIsTheOnlyHour`, `DaysOrdered` and `HalfDaysOrdered` from
the arithmetic of midnights (`MidnightsApart`).

`SortScanProofs`, for all lines, quantities, openings and numbers of calls
(assumptions: `Ordered` gives naturals, openings are lines whose quantity and
shortage add up to it, `None` is no number, no line and no record):

* `TypesHold` and `ConservedHolds`: together they are inductive.  What a shortage
  sends comes from a panel, a panel from an answer, an answer from the server's
  lines, so all four must be whole at once; a panel takes
  quantity and shortage from an answer together or keeps both.
* `LedgerImplemented`: every step of the server is a step of `PickLedger`
  (`ServeRecorded`, one case per mashup), every other step a stutter.  A shortage
  on its way is `Whole`, so its quantity is within `0..Ordered[l]`: the
  refinement needs the invariant.

Its second part goes on from there, under the same assumptions,
to what the screen shows.  The invariants say what each outstanding
call may still do to each other one:

* `AllPickedIsTrueHolds` and `PickedMeansCompleteHolds`.  A change has the server to
  itself, slips apart (`Alone`).  Only a quantity undoes what is complete, and sending
  one takes back what the screen said (`Told`); so an answer that all is picked stays
  true while it is on its way, and what is concluded from it until the next quantity.
* `PanelsAreTrueHolds` and `PlusHolds`.  A panel differs from its line only while
  there is a reason (`Synced`): its list is being loaded, the answer with the line is
  on its way (`Near`), or the list is about to be left.  Answers carry the lines
  as they are (`Carries`), and a quantity that is sent was computed from a panel
  without such a reason, so it still fits when it is served (`Wants`).  The popup of
  a shortage lies below all other boxes (`ShortLast`), and a list that counts as
  loaded is loaded again whenever it is shown (`ListedOK`).

`PickModelsProofs`, for shipments of any length and lines of any size:

* `TypesKept` and `NothingBeyond` are inductive together (a shortage is a natural
  only because no more was picked than ordered), proved for one line per
  operation and then for the shipment; `UnitsAreKept` follows step by step.
* `ShortagesAreSeenHolds`: a line that has a reason misses nothing, which is inductive
  because a shortage cuts what is required to what is picked, and scans only add.
* `FinishAccountsHolds`: the quantities follow from the types at every state; that the
  loop over the inventory lists the right lines by an invariant of its turns
  (`OneGathered`) and induction over them (`InventoryListsPicked`).
* `DisplayIsFilterHolds` and `NotesNameShortLinesHolds` are about loops that change the
  array they walk over, or collect into one: an invariant for each turn of the loop
  (`OneTurn`, `OneCollected`), and induction over the turns.  Both properties say that
  a list names the positions of a set, each once and in order (`Lists`).
* `LastShortageLeavesNothingHolds`: all other lines have a reason, thus miss nothing, and
  nothing of them is picked, so nothing of them is required either.

`StoreFlowProofs`, for any users, shipments, copies and bounds:

* `TypesHold`: `TypeOK` is inductive, by pages and by messages.
* `WrapHolds` and `TasksAgreeHolds` need `SensibleOK` (the status is one of the
  shipment's pipeline and matches its gifts) and `DropsFit`: a change of status that
  is under way was computed from the gifts of its shipment, which never change, and
  an old copy therefore does no harm.
* `OneSorterHolds`: a user claims a shipment (`Claims`) by an answered scan, a request
  for its flag or a page of sorting.  `SharedOK` says that two users claim one only where
  `shared` is noted, `FlagsFollow` that whoever is at a shipment has it flagged, or has the
  request for its flag on its way.  A scan that is answered then meets a claim, which is
  noted, or the flag, which passes the shipment over unless it is the user's.
* `TakeOverHolds` needs `TakesFit`: the calls of a take-over are those that the
  popup's copy asks for.

* `OneLocationHolds` needs `LocationsFit`: every list of locations, stored, on its way
  or on a page, fits its column, and names at most one location until `doubled` is
  noted; and the entry box is open only while the page's list leaves room for one.
  What the loops over the list compute is shown by induction over its positions.

Induction over data.  The library's induction theorems take an operator as a
parameter, which none of the provers can instantiate.  `DataInduction` therefore
states induction with a property as a set (`NumbersByInduction`, `SetsByInduction`)
and derives it from the least element of a set of naturals (`LeastNumber`), which
is a fact about a relation and thus can be cited.  Recursive functions and folds come
with their equations from the same module.  This is how the sums over the log and
the messages, the notes, the display, the locations and the joined chunks are proved.

Every invariant and every action property of the passing runs is stated by a theorem,
but for `PanelsAgree`, which is model-checked.  Also only model-checked: `NextIsAnswered`, `SlipEndsSorting`, `Settles` and
`EveryFeedTriggers`: liveness under fairness is out of the prover's reach.

## 6. Not modelled, and the plan

Not modelled on purpose: formatting of outbound documents, LDAP, the framework's
delegation, literals and logging, practice programs, third-party code.  Of the
screens: labels, images, clocks, pagination, titles, dates, what is printed; the
batch pick extensions and other screens whose base is the product's; the part of
`BackroomPickProductScan.js` and of `customScreen/Line` that copies the sort screen and
cannot be reached from its template; search criteria, portlets and editors.  The
product's mashups and wizards are external: they are modelled by what the screens
read of their answers.

Planned, in this order:

1. `Reservation`: life cycle of a cart's reservation (check out, modify, extend,
   cancel) over an abstract specification of what a cart holds, with the
   modification's differences line by line refined against it; runs over two carts and
   two lines of one item; theorem: reserved quantities never exceed supply.
2. `SequencingNo`: concurrent increments of a sequence number, one violation run
   against the expectation of unique numbers, a theorem for serialised use.
3. `ShortPick`: shortage, status change and cancellation of batch picked
   shipments and orders, with the order cancellation messages.
4. `Export`: the rolling file counter, end of file and the upload script.
5. `ItemFeed`: the item feed with its time stamps and reused fields, and the
   delta load as an operator checked against set difference.
6. The store's screens: the batch sort wizard and the search criteria.
7. Proofs: the refinement of `Reservation`, and its bound on what is reserved.
