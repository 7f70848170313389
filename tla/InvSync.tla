------------------------------- MODULE InvSync -------------------------------
(***************************************************************************)
(* Store inventory synchronisation between SAP and the order management    *)
(* system (package com.indigo.inventory).                                  *)
(*                                                                         *)
(* A full feed is SOF, one message per store, EOF.  The threads of the     *)
(* load server (Loaders) compare a store's feed with the stock on record,  *)
(* and queue the differences in chunks, each announced by a record of the  *)
(* status table; one adjust server applies the chunks and removes their    *)
(* records.  Meanwhile delta messages (relative adjustments and absolute   *)
(* cycle counts) wait until the status table is empty.  Shell scripts stop *)
(* the delta server at SOF and start it again after EOF.                   *)
(*                                                                         *)
(* The receivers are transactional (CDT/YFS_SUB_FLOW), so what a handler   *)
(* writes, the messages it sends included, becomes visible at its end;     *)
(* what it READS it read earlier, hence two steps per handler.             *)
(***************************************************************************)
EXTENDS Sequences, FiniteSets, FiniteSetsExt, TxDate, Chunking

CONSTANTS
  Items, Nodes,        \* the items with a supply record in every store; the stores
  Loaders,             \* threads of Indg_InvMisMatch
  Consumers,           \* instances of Indg_InvDeltaSync that can be running
  InitialSupply,       \* possible quantities on record at the start
  MaxFeeds, MaxPosts, MaxCounts, MaxShips,  \* bounds on what the outside does
  MaxWaits,            \* bound on the recursion of the EOF handler
  MaxAborts            \* bound on collisions of status keys

ASSUME SetsAssumption == IsFiniteSet(Items) /\ IsFiniteSet(Nodes)
ASSUME BoundsAssumption ==
  /\ InitialSupply \subseteq Nat
  /\ MaxFeeds \in Nat /\ MaxPosts \in Nat /\ MaxCounts \in Nat /\ MaxShips \in Nat
  /\ MaxWaits \in Nat /\ MaxAborts \in Nat

VARIABLES
  now,        \* hours elapsed; every event outside the system has its own
  stock,      \* what really is in the store, per item and node
  lastTx,     \* SAP's last transaction date, per item and node
  budget,     \* how many outside events of each kind are left
  sending,    \* SOF is sent, the stores of the feed are not yet
  feedQ,      \* INDG_FULL_INVENTORY_LOAD: SOF, STORE and EOF messages
  failed,     \* STORE messages whose handler threw, kept for reprocessing
  loader,     \* what each thread of the load server is doing
  chunkQ,     \* INDG_FULL_INV_SYNC_UPLOAD: chunks of adjustments
  stuck,      \* status keys of chunks whose handler threw
  status,     \* INDG_FULL_SYNC_STATUS: one <<key, node>> per record
  nextKey,    \* the millisecond the next status key is made from
  ctrl,       \* INDG_INV_SYNC_CTRL; dates are 0 when there is no record
  log,        \* INDG_INV_ADJUSTMENT_LOG
  supply,     \* quantity on record, per item and node
  deltaQ,     \* INDG_DELTA_INVENTORY_LOAD, in any order of arrival
  delta,      \* what each instance of the delta server is doing
  stopping,   \* instances told to stop once they are idle
  scripts,    \* shell scripts launched and not yet run
  triggers,   \* how often the RTAM full sync agent was triggered
  \* history variables, read by no guard of the system
  applied,    \* latest date of a change that supply includes, or is recorded to include
  cut,        \* dates of the log entries that were deleted, per item and node
  drift,      \* supply may differ from stock by more than what is in transit
  raced       \* instances whose reading was overtaken by another writer

env     == <<now, stock, lastTx, budget, sending>>
load    == <<feedQ, failed, loader>>
sync    == <<chunkQ, stuck, status, nextKey>>
tables  == <<ctrl, log, supply>>
server  == <<deltaQ, delta, stopping>>
control == <<scripts, triggers>>
history == <<applied, cut, drift, raced>>
vars    == <<env, load, sync, tables, server, control, history>>

Keys  == Items \X Nodes
Dates == [tx : Nat, gen : Nat]
Budgets == {"feed", "post", "count", "ship", "abort"}
Bound(b) == CASE b = "feed"  -> MaxFeeds
              [] b = "post"  -> MaxPosts
              [] b = "count" -> MaxCounts
              [] b = "ship"  -> MaxShips
              [] b = "abort" -> MaxAborts
NoRecord == [tx |-> 0, gen |-> 0]

\* A line of a chunk: adj is the quantity of the adjustment, absent when the
\* feed and the record agree; dates are void (0) for an item not in the feed.
Line  == [item : Items, hasQty : BOOLEAN, adj : Int, tx : Nat, gen : Nat]
Chunk == [key : Nat, node : Nodes, lines : Seq(Line)]
Store == [type : {"STORE"}, node : Nodes, gen : Nat,
          lines : Seq([item : Items, qty : Int, tx : Nat])]
Mark  == [type : {"SOF", "EOF"}]
Delta == [abs : BOOLEAN, key : Keys, qty : Int, tx : Nat, gen : Nat]
LogEntry == [key : Keys, qty : Int, tx : Nat]

Idle == [st |-> "idle"]
Down == [st |-> "down"]

\* Mutant of Id: the key of a status record without the millisecond.
IdByNode(c) == <<0, c.node>>

Id(c) == <<c.key, c.node>>

Init ==
  /\ now = 1
  /\ stock \in [Keys -> InitialSupply]
  /\ lastTx = [k \in Keys |-> 1]
  /\ budget = [b \in Budgets |-> Bound(b)]
  /\ sending = FALSE
  /\ feedQ = <<>> /\ failed = {} /\ loader = [t \in Loaders |-> Idle]
  /\ chunkQ = <<>> /\ stuck = {} /\ status = {} /\ nextKey = 0
  /\ ctrl = [k \in Keys |-> NoRecord] /\ log = {}
  /\ supply \in [Keys -> InitialSupply]
  /\ deltaQ = {} /\ stopping = {}
  /\ \E c \in Consumers : delta = [d \in Consumers |-> IF d = c THEN Idle ELSE Down]
  /\ scripts = <<>> /\ triggers = 0
  /\ applied = [k \in Keys |-> 1]
  /\ cut = [k \in Keys |-> {}]
  /\ drift = [k \in Keys |-> supply[k] # stock[k]]
  /\ raced = {}

-----------------------------------------------------------------------------
(* State functions *)

Elems(s) == {s[j] : j \in DOMAIN s}

Latest(a, b) == IF a >= b THEN a ELSE b

\* The lines of a store's feed that are between the reading of supply and the
\* adjustment of supply, in a load thread or in a chunk.
LinesOf(k, lines) == {l \in Elems(lines) : l.item = k[1]}
InTransit(k) ==
  (UNION {LinesOf(k, loader[t].lines) :
            t \in {u \in Loaders : loader[u].st = "store" /\ loader[u].msg.node = k[2]}})
  \cup (UNION {LinesOf(k, c.lines) : c \in {d \in Elems(chunkQ) : d.node = k[2]}})

\* Instances that have read the tables for key k and not yet written.
Readers(k) == {c \in Consumers : delta[c].st = "write" /\ delta[c].msg.key = k}

\* Delta messages about key k that have not reached supply.
Waiting(k) == \/ \E m \in deltaQ : m.key = k
              \/ \E c \in Consumers : delta[c].st \notin {"idle", "down"} /\ delta[c].msg.key = k

\* Mutant of CanApply: a date equal to the recorded one is taken for newer.
CanApplyEqual(date, recorded) == recorded = 0 \/ ~Later(recorded, date)

\* canApplyInvAdjustment: no record, a void date, or a later date.
CanApply(date, recorded) == recorded = 0 \/ Later(date, recorded)

\* calculateAbsoluteQuantity: what was applied after the count was taken.
LogTotal(k, tx) == MapThenSumSet(LAMBDA e : e.qty, {e \in log : e.key = k /\ Later(e.tx, tx)})

-----------------------------------------------------------------------------
(* The outside: SAP, and shipments confirmed in the stores *)

Spend(kind) ==
  /\ budget[kind] > 0
  /\ budget' = [budget EXCEPT ![kind] = @ - 1]
  /\ now' = now + 1

\* SAP books a movement and sends it as a relative adjustment.
Post(k, d) ==
  /\ Spend("post")
  /\ stock[k] + d >= 0
  /\ stock' = [stock EXCEPT ![k] = @ + d]
  /\ lastTx' = [lastTx EXCEPT ![k] = now']
  /\ deltaQ' = deltaQ \cup {[abs |-> FALSE, key |-> k, qty |-> d, tx |-> now', gen |-> now']}
  /\ UNCHANGED <<sending, load, sync, tables, delta, stopping, control, history>>

\* A cycle count finds q pieces, which need not be what the books said.
Count(k, q) ==
  /\ Spend("count")
  /\ stock' = [stock EXCEPT ![k] = q]
  /\ lastTx' = [lastTx EXCEPT ![k] = now']
  /\ deltaQ' = deltaQ \cup {[abs |-> TRUE, key |-> k, qty |-> q, tx |-> now', gen |-> now']}
  /\ UNCHANGED <<sending, load, sync, tables, delta, stopping, control, history>>

\* A shipment of one piece is confirmed: the product takes it off supply and
\* the service on the event logs it, under the date the table defaults to.  The
\* service logs sales orders only (document type 0001), which these all are.
Ship(k) ==
  /\ Spend("ship")
  /\ stock[k] > 0
  /\ stock' = [stock EXCEPT ![k] = @ - 1]
  /\ lastTx' = [lastTx EXCEPT ![k] = now']
  /\ supply' = [supply EXCEPT ![k] = @ - 1]
  /\ log' = log \cup {[key |-> k, qty |-> -1, tx |-> now']}
  /\ applied' = [applied EXCEPT ![k] = now']
  /\ raced' = raced \cup Readers(k)
  /\ UNCHANGED <<sending, load, sync, ctrl, server, control, cut, drift>>

SendSOF ==
  /\ Spend("feed")
  /\ ~sending
  /\ sending' = TRUE
  /\ feedQ' = Append(feedQ, [type |-> "SOF"])
  /\ UNCHANGED <<stock, lastTx, failed, loader, sync, tables, server, control, history>>

\* The feed of node n lists the items SAP has stock of or has ever booked.
Listed(n) == {i \in Items : stock[<<i, n>>] # 0 \/ lastTx[<<i, n>>] > 1}
Orders(S) == {s \in [1..Cardinality(S) -> S] : \A a, b \in DOMAIN s : s[a] = s[b] => a = b}

StoreFeed(n, order) ==
  [type |-> "STORE", node |-> n, gen |-> now + 1,
   lines |-> [j \in DOMAIN order |->
                [item |-> order[j], qty |-> stock[<<order[j], n>>], tx |-> lastTx[<<order[j], n>>]]]]

\* SAP takes its snapshot and sends the stores that have any item, then EOF.
SendStores ==
  /\ sending
  /\ sending' = FALSE
  /\ now' = now + 1
  /\ \E nodes \in Orders({n \in Nodes : Listed(n) # {}}) :
     \E order \in [Nodes -> UNION {Orders(S) : S \in SUBSET Items}] :
       /\ \A n \in Nodes : order[n] \in Orders(Listed(n))
       /\ feedQ' = feedQ \o [j \in DOMAIN nodes |-> StoreFeed(nodes[j], order[nodes[j]])]
                         \o <<[type |-> "EOF"]>>
  /\ UNCHANGED <<stock, lastTx, budget, failed, loader, sync, tables, server, control, history>>

-----------------------------------------------------------------------------
(* The load server: IndgManageInventoryMismatch, IndgManageFullSyncStatus *)

Receive(t, type) ==
  /\ loader[t].st = "idle"
  /\ feedQ # <<>> /\ Head(feedQ).type = type
  /\ feedQ' = Tail(feedQ)

\* SOF: launch the stop script and empty the adjustment log.
ManageDeltaServer(t) ==
  /\ Receive(t, "SOF")
  /\ scripts' = Append(scripts, "stop")
  /\ log' = {}
  /\ cut' = [k \in Keys |-> cut[k] \cup {e.tx : e \in {f \in log : f.key = k}}]
  /\ UNCHANGED <<env, failed, loader, sync, ctrl, supply, server, triggers,
                 applied, drift, raced>>

\* Mutant of FeedLine: the operands of the subtraction are swapped.
FeedLineReversed(m, f) ==
  LET diff == supply[<<f.item, m.node>>] - f.qty
  IN  [item |-> f.item, hasQty |-> diff # 0, adj |-> diff,
       tx |-> IF diff = 0 THEN m.gen ELSE f.tx, gen |-> m.gen]

\* addTransactionDates: the line of a chunk for line f of a store's feed.
FeedLine(m, f) ==
  LET diff == f.qty - supply[<<f.item, m.node>>]
  IN  [item |-> f.item, hasQty |-> diff # 0, adj |-> diff,
       tx |-> IF diff = 0 THEN m.gen ELSE f.tx, gen |-> m.gen]

\* An item on record that the feed does not list is taken to zero, undated.
ExtraLine(i, n) ==
  [item |-> i, hasQty |-> TRUE, adj |-> 0 - supply[<<i, n>>], tx |-> 0, gen |-> 0]

FeedItems(m) == {m.lines[j].item : j \in DOMAIN m.lines}

\* A STORE message, first half: read supply and work out the lines.
GetMismatch(t) ==
  /\ Receive(t, "STORE")
  /\ LET m == Head(feedQ)
         nodeKeys == {k \in Keys : k[2] = m.node}
     IN  /\ \E extra \in Orders(Items \ FeedItems(m)) :
              loader' = [loader EXCEPT ![t] =
                [st |-> "store", msg |-> m,
                 lines |-> [j \in DOMAIN m.lines |-> FeedLine(m, m.lines[j])]
                           \o [j \in DOMAIN extra |-> ExtraLine(extra[j], m.node)]]]
         /\ drift' = [k \in Keys |-> IF k \in nodeKeys
                                     THEN applied[k] > m.gen \/ InTransit(k) # {}
                                     ELSE drift[k]]
         /\ applied' = [k \in Keys |-> IF k \in nodeKeys THEN Latest(applied[k], m.gen)
                                       ELSE applied[k]]
  /\ UNCHANGED <<env, failed, sync, tables, server, control, cut, raced>>

\* Second half: one status record and one message per chunk, all committed.
PushInputForAdjustInventory(t) ==
  /\ loader[t].st = "store"
  /\ LET cs == Chunks(loader[t].lines)
         new == [j \in DOMAIN cs |-> [key |-> nextKey + j, node |-> loader[t].msg.node,
                                      lines |-> cs[j]]]
     IN  /\ chunkQ' = chunkQ \o new
         /\ status' = status \cup {Id(new[j]) : j \in DOMAIN new}
         /\ nextKey' = nextKey + Len(cs)
  /\ loader' = [loader EXCEPT ![t] = Idle]
  /\ UNCHANGED <<env, feedQ, failed, stuck, tables, server, control, history>>

\* Two chunks within one millisecond have one primary key: the handler throws
\* and the message goes to the table of messages to reprocess.
DuplicateStatusKey(t) ==
  /\ loader[t].st = "store"
  /\ Len(Chunks(loader[t].lines)) > 1
  /\ budget["abort"] > 0
  /\ budget' = [budget EXCEPT !["abort"] = @ - 1]
  /\ failed' = failed \cup {loader[t].msg}
  /\ loader' = [loader EXCEPT ![t] = Idle]
  /\ UNCHANGED <<now, stock, lastTx, sending, feedQ, sync, tables, server, control, history>>

\* An operator has a failed message processed again.
Reprocess ==
  \E m \in failed :
    /\ failed' = failed \ {m}
    /\ feedQ' = Append(feedQ, m)
    /\ UNCHANGED <<env, loader, sync, tables, server, control, history>>

\* EOF: sleepTillEOF, whose every frame sleeps and looks at the status table.
ReceiveEOF(t) ==
  /\ Receive(t, "EOF")
  /\ loader' = [loader EXCEPT ![t] = [st |-> "sleep", frames |-> 1]]
  /\ UNCHANGED <<env, failed, sync, tables, server, control, history>>

SleepAgain(t) ==
  /\ loader[t].st = "sleep" /\ status # {}
  /\ loader[t].frames <= MaxWaits
  /\ loader' = [loader EXCEPT ![t].frames = @ + 1]
  /\ UNCHANGED <<env, feedQ, failed, sync, tables, server, control, history>>

\* Mutant of SeeNoStatus: the handler returns before it has triggered anything.
SeeNoStatusReturns(t) ==
  /\ loader[t].st = "sleep" /\ status = {}
  /\ loader' = [loader EXCEPT ![t] = Idle]
  /\ UNCHANGED <<env, feedQ, failed, sync, tables, server, control, history>>

\* Mutant of SeeNoStatus: it does not look at the status table.
SeeNoStatusUnread(t) ==
  /\ loader[t].st = "sleep"
  /\ loader' = [loader EXCEPT ![t].st = "unwind"]
  /\ UNCHANGED <<env, feedQ, failed, sync, tables, server, control, history>>

SeeNoStatus(t) ==
  /\ loader[t].st = "sleep" /\ status = {}
  /\ loader' = [loader EXCEPT ![t].st = "unwind"]
  /\ UNCHANGED <<env, feedQ, failed, sync, tables, server, control, history>>

\* Mutant of Unwound: one frame too many.
UnwoundOnceMore(w) == IF w.frames = 0 THEN Idle ELSE [w EXCEPT !.frames = w.frames - 1]

\* One frame of the recursion has returned.
Unwound(w) == IF w.frames = 1 THEN Idle ELSE [w EXCEPT !.frames = w.frames - 1]

\* Every frame, innermost first, launches the start script and triggers RTAM.
TriggerFullSync(t) ==
  /\ loader[t].st = "unwind"
  /\ scripts' = Append(scripts, "start")
  /\ triggers' = triggers + 1
  /\ loader' = [loader EXCEPT ![t] = Unwound(loader[t])]
  /\ UNCHANGED <<env, feedQ, failed, sync, tables, server, history>>

-----------------------------------------------------------------------------
(* The adjust server: IndgAdjustInventoryFullSync, one thread *)

\* Mutant of Recorded: a record that exists is not updated.
RecordedOnce(old, l) ==
  IF old # NoRecord THEN old
  ELSE IF l.gen # 0 THEN [tx |-> l.tx, gen |-> l.gen] ELSE [tx |-> now, gen |-> now]

\* updateInventorySyncTable: dates are overwritten whatever they were; void
\* dates leave a record alone and give a new one the table's default, now.
Recorded(old, l) ==
  IF l.gen # 0 THEN [tx |-> l.tx, gen |-> l.gen]
  ELSE IF old = NoRecord THEN [tx |-> now, gen |-> now] ELSE old

LineOf(c, k) == CHOOSE l \in LinesOf(k, c.lines) : TRUE

\* One chunk: control records, status record and supply in one transaction, whose
\* writes are seen at its end.  All it reads is whether a record exists: dates are
\* overwritten unread and supply is adjusted relatively, so one step is enough.  A
\* record that a count has created in between makes the insert fail on its primary
\* key and the message is processed again, which is that step taken later.
AdjustInventory ==
  /\ chunkQ # <<>> /\ Head(chunkQ).lines # <<>>
  /\ LET c == Head(chunkQ)
         keys == {k \in Keys : k[2] = c.node /\ LinesOf(k, c.lines) # {}}
         claimed == {k \in keys : LineOf(c, k).gen = 0 /\ ctrl[k] = NoRecord /\ Waiting(k)}
     IN  /\ ctrl' = [k \in Keys |-> IF k \in keys THEN Recorded(ctrl[k], LineOf(c, k)) ELSE ctrl[k]]
         /\ supply' = [k \in Keys |-> IF k \in keys /\ LineOf(c, k).hasQty
                                      THEN supply[k] + LineOf(c, k).adj ELSE supply[k]]
         /\ status' = status \ {Id(c)}
         /\ raced' = raced \cup UNION {Readers(k) : k \in keys}
         /\ drift' = [k \in Keys |-> drift[k] \/ k \in claimed]
         /\ applied' = [k \in Keys |-> IF k \in claimed THEN Latest(applied[k], now) ELSE applied[k]]
  /\ chunkQ' = Tail(chunkQ)
  /\ UNCHANGED <<env, load, stuck, nextKey, log, server, control, cut>>

\* Mutant of RejectEmptyChunk: the status record goes although the chunk failed.
RejectAndRelease ==
  /\ chunkQ # <<>> /\ Head(chunkQ).lines = <<>>
  /\ stuck' = stuck \cup {Id(Head(chunkQ))}
  /\ status' = status \ {Id(Head(chunkQ))}
  /\ chunkQ' = Tail(chunkQ)
  /\ UNCHANGED <<env, load, nextKey, tables, server, control, history>>

\* A chunk without lines has no ship node: the handler throws, and the status
\* record stays.
RejectEmptyChunk ==
  /\ chunkQ # <<>> /\ Head(chunkQ).lines = <<>>
  /\ stuck' = stuck \cup {Id(Head(chunkQ))}
  /\ chunkQ' = Tail(chunkQ)
  /\ UNCHANGED <<env, load, status, nextKey, tables, server, control, history>>

-----------------------------------------------------------------------------
(* The delta server: IndgManageInvDeltaSync *)

ReceiveDelta(c, m) ==
  /\ delta[c].st = "idle" /\ c \notin stopping
  /\ deltaQ' = deltaQ \ {m}
  /\ delta' = [delta EXCEPT ![c] = [st |-> "sleep", msg |-> m]]
  /\ UNCHANGED <<env, load, sync, tables, stopping, control, history>>

\* sleepTillEOF returns once it has seen the status table empty.
SleepTillEOF(c) ==
  /\ delta[c].st = "sleep" /\ status = {}
  /\ delta' = [delta EXCEPT ![c].st = "awake"]
  /\ UNCHANGED <<env, load, sync, tables, deltaQ, stopping, control, history>>

\* Mutant of Applicable: messages are not compared with the control record.
ApplicableAlways(m) == TRUE

\* canApplyInvAdjustment, for one date or, for a cycle count, for both.
Applicable(m) ==
  /\ CanApply(m.tx, ctrl[m.key].tx)
  /\ m.abs => CanApply(m.gen, ctrl[m.key].gen)

\* Read the control record and, for a cycle count, the log.  A message that is
\* not newer than the record is dropped.
ReadTables(c) ==
  /\ delta[c].st = "awake"
  /\ LET m == delta[c].msg
     IN  delta' = [delta EXCEPT ![c] =
           IF Applicable(m)
           THEN [st |-> "write", msg |-> m,
                 qty |-> m.qty + (IF m.abs THEN LogTotal(m.key, m.tx) ELSE 0)]
           ELSE Idle]
  /\ UNCHANGED <<env, load, sync, tables, deltaQ, stopping, control, history>>

Written(c, k) ==
  /\ delta' = [delta EXCEPT ![c] = Idle]
  /\ applied' = [applied EXCEPT ![k] = Latest(@, delta[c].msg.tx)]
  /\ raced' = (raced \cup Readers(k)) \ {c}
  /\ UNCHANGED <<env, load, sync, deltaQ, stopping, control, cut>>

\* applyAdjustInvForDelta: adjust supply and log the adjustment.
ApplyDelta(c) ==
  /\ delta[c].st = "write" /\ ~delta[c].msg.abs
  /\ LET m == delta[c].msg
         k == m.key
     IN  /\ supply' = [supply EXCEPT ![k] = @ + delta[c].qty]
         /\ log' = log \cup {[key |-> k, qty |-> m.qty, tx |-> m.tx]}
         /\ drift' = [drift EXCEPT ![k] =
                        \/ @
                        \/ ~Applicable(m)
                        \/ \E l \in InTransit(k) : l.gen = 0 \/ l.gen >= m.tx]
         /\ Written(c, k)
  /\ UNCHANGED ctrl

\* applyAdjustInvForCycleCount: record the dates and set supply.
ApplyCount(c) ==
  /\ delta[c].st = "write" /\ delta[c].msg.abs
  /\ LET m == delta[c].msg
         k == m.key
     IN  /\ ctrl' = [ctrl EXCEPT ![k] = [tx |-> m.tx, gen |-> m.gen]]
         /\ supply' = [supply EXCEPT ![k] = delta[c].qty]
         /\ drift' = [drift EXCEPT ![k] =
                        \/ c \in raced
                        \/ InTransit(k) # {}
                        \/ \E d \in cut[k] : d > m.tx
                        \/ applied[k] > m.tx /\ @]
         /\ Written(c, k)
  /\ UNCHANGED log

-----------------------------------------------------------------------------
(* The shell scripts, run in the order they were launched *)

RunStopScript ==
  /\ scripts # <<>> /\ Head(scripts) = "stop"
  /\ scripts' = Tail(scripts)
  /\ stopping' = {c \in Consumers : delta[c].st # "down"}
  /\ UNCHANGED <<env, load, sync, tables, deltaQ, delta, triggers, history>>

\* Mutant of RunStartScript: an instance that is still stopping counts as
\* running, and none is started.
RunStartIfNone ==
  /\ scripts # <<>> /\ Head(scripts) = "start"
  /\ scripts' = Tail(scripts)
  /\ IF \A c \in Consumers : delta[c].st = "down"
     THEN \E c \in Consumers : delta' = [delta EXCEPT ![c] = Idle]
     ELSE UNCHANGED delta
  /\ UNCHANGED <<env, load, sync, tables, deltaQ, stopping, triggers, history>>

\* Starts one more instance, whether or not another one is running.  With all
\* of Consumers taken the model starts none, or waits for one that is stopping.
RunStartScript ==
  /\ scripts # <<>> /\ Head(scripts) = "start"
  /\ scripts' = Tail(scripts)
  /\ \/ \E c \in Consumers : /\ delta[c].st = "down"
                             /\ delta' = [delta EXCEPT ![c] = Idle]
     \/ /\ \A c \in Consumers : delta[c].st # "down"
        /\ stopping # Consumers
        /\ UNCHANGED delta
  /\ UNCHANGED <<env, load, sync, tables, deltaQ, stopping, triggers, history>>

\* An instance that was told to stop ends after the message in hand.
StopServer(c) ==
  /\ c \in stopping /\ delta[c].st = "idle"
  /\ delta' = [delta EXCEPT ![c] = Down]
  /\ stopping' = stopping \ {c}
  /\ UNCHANGED <<env, load, sync, tables, deltaQ, control, history>>

-----------------------------------------------------------------------------

Outside == \/ \E k \in Keys : \/ \E d \in {-1, 1} : Post(k, d)
                              \/ \E q \in InitialSupply : Count(k, q)
                              \/ Ship(k)
           \/ SendSOF \/ SendStores \/ Reprocess

LoadStep(t) ==
  \/ ManageDeltaServer(t) \/ GetMismatch(t) \/ PushInputForAdjustInventory(t)
  \/ DuplicateStatusKey(t)
  \/ ReceiveEOF(t) \/ SleepAgain(t) \/ SeeNoStatus(t) \/ TriggerFullSync(t)

DeltaStep(c) ==
  \/ \E m \in deltaQ : ReceiveDelta(c, m)
  \/ SleepTillEOF(c) \/ ReadTables(c) \/ ApplyDelta(c) \/ ApplyCount(c) \/ StopServer(c)

Next ==
  \/ Outside
  \/ \E t \in Loaders : LoadStep(t)
  \/ AdjustInventory \/ RejectEmptyChunk
  \/ \E c \in Consumers : DeltaStep(c)
  \/ RunStopScript \/ RunStartScript

\* Every server process keeps working; SAP completes the feed it has begun;
\* nothing makes it post, count, ship or begin a feed.
Fairness ==
  /\ WF_vars(SendStores) /\ WF_vars(Reprocess)
  /\ \A t \in Loaders : WF_vars(LoadStep(t))
  /\ WF_vars(AdjustInventory) /\ WF_vars(RejectEmptyChunk)
  /\ \A c \in Consumers : WF_vars(DeltaStep(c))
  /\ WF_vars(RunStopScript) /\ WF_vars(RunStartScript)

Spec == Init /\ [][Next]_vars
FairSpec == Spec /\ Fairness

-----------------------------------------------------------------------------
(* Properties *)

LoaderState ==
  {Idle} \cup [st : {"store"}, msg : Store, lines : Seq(Line)]
         \cup [st : {"sleep", "unwind"}, frames : Nat \ {0}]
ConsumerState ==
  {Idle, Down} \cup [st : {"sleep", "awake"}, msg : Delta]
               \cup [st : {"write"}, msg : Delta, qty : Int]

EnvOK ==
  /\ now \in Nat /\ stock \in [Keys -> Int] /\ lastTx \in [Keys -> Nat]
  /\ budget \in [Budgets -> Nat] /\ sending \in BOOLEAN
LoadOK ==
  /\ feedQ \in Seq(Store \cup Mark) /\ failed \subseteq Store
  /\ loader \in [Loaders -> LoaderState]
SyncOK ==
  /\ chunkQ \in Seq(Chunk) /\ stuck \subseteq Nat \X Nodes
  /\ status \subseteq Nat \X Nodes /\ nextKey \in Nat
TablesOK ==
  /\ ctrl \in [Keys -> Dates] /\ supply \in [Keys -> Int]
  /\ log \subseteq LogEntry /\ IsFiniteSet(log)
ServerOK ==
  /\ deltaQ \subseteq Delta /\ delta \in [Consumers -> ConsumerState]
  /\ stopping \subseteq Consumers
ControlOK == scripts \in Seq({"stop", "start"}) /\ triggers \in Nat
HistoryOK ==
  /\ applied \in [Keys -> Nat] /\ cut \in [Keys -> SUBSET Nat]
  /\ drift \in [Keys -> BOOLEAN] /\ raced \subseteq Consumers

\* The type invariant.
TypeOK == EnvOK /\ LoadOK /\ SyncOK /\ TablesOK /\ ServerOK /\ ControlOK /\ HistoryOK

\* The status table holds exactly the keys of the chunks that are queued or
\* whose handler threw, no two chunks share a key: so a delta server or an EOF
\* handler that finds the table empty finds no adjustment outstanding.
StatusTracksChunks ==
  /\ status = {Id(c) : c \in Elems(chunkQ)} \cup stuck
  /\ \A c \in Elems(chunkQ) : Id(c) \notin stuck
  /\ \A a, b \in DOMAIN chunkQ : Id(chunkQ[a]) = Id(chunkQ[b]) => a = b

\* No message that speaks of key k is anywhere between SAP and supply.
Quiet(k) ==
  /\ ~sending
  /\ \A j \in DOMAIN feedQ : feedQ[j].type # "EOF" => feedQ[j].type = "STORE" /\ feedQ[j].node # k[2]
  /\ \A m \in failed : m.node # k[2]
  /\ \A t \in Loaders : loader[t].st = "store" => loader[t].msg.node # k[2]
  /\ InTransit(k) = {}
  /\ ~Waiting(k)

\* Once nothing about an item is in transit, supply is what is in the store,
\* unless one of the interleavings recorded by drift has happened since the
\* last full feed or count: deltas may arrive in any order, late deltas and
\* counts are dropped exactly when feed or count already included them, and
\* changes made between comparison and adjustment survive the adjustment.
Converged == \A k \in Keys : Quiet(k) /\ ~drift[k] => supply[k] = stock[k]

\* A cycle count only ever moves a control record forward, however late it is
\* and whatever the full feed has recorded since it was sent, unless another
\* writer came between its reading of the record and its update.
CountsAdvanceControl ==
  [][\A k \in Keys, c \in Consumers \ raced :
       ctrl'[k] # ctrl[k] /\ delta'[c] # delta[c] =>
         /\ ctrl'[k].tx > ctrl[k].tx
         /\ ctrl'[k].gen > ctrl[k].gen]_vars

\* Everything that was sent arrives: the feeds are worked off, the status
\* table empties, the delta server comes back and takes what waited for it,
\* and no handler, script or store message is left hanging.
Settles ==
  <>[](/\ \A k \in Keys : Quiet(k)
       /\ \A t \in Loaders : loader[t] = Idle
       /\ scripts = <<>> /\ status = {})

Feeds == MaxFeeds - budget["feed"]

\* Every feed ends with the RTAM full sync agent triggered for it.
EveryFeedTriggers == <>[](triggers >= Feeds)

\* The RTAM agent is triggered once the waiting is over, not once per wait.
OneTriggerPerFeed == triggers <= Feeds

\* No store of a feed that is over is unprocessed or has an adjustment outstanding:
\* none is in the hand of a thread, put aside, or waiting before the next SOF.
StoresDone ==
  /\ status = {} /\ failed = {}
  /\ \A t \in Loaders : loader[t].st # "store"
  /\ feedQ # <<>> => Head(feedQ).type # "STORE"

\* When the RTAM agent is triggered, every store of the feed has been processed
\* and adjusted (IndgManageFullSyncStatus, "once no record on the list").
TriggerAfterAllStores == [][triggers' # triggers => StoresDone]_vars

\* What of it holds with one load thread: the agent is triggered with no adjustment
\* outstanding and no store in hand, whatever was put aside and processed again;
\* and with every store done unless a store message was put aside before
\* (setInvSyncStatusKey, sleepTillEOF).
TriggerMissesOnlyPutAside ==
  [][triggers' # triggers =>
       /\ status = {} /\ \A t \in Loaders : loader[t].st # "store"
       /\ budget["abort"] = MaxAborts => StoresDone]_vars
=============================================================================
