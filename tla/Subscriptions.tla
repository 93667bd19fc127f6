--------------------------- MODULE Subscriptions ----------------------------
(***************************************************************************)
(* The readers of a stream: the subscriptions of one websocket connection  *)
(* (rpc/websockets.go), each a goroutine in Subscribe and ReadBlocking     *)
(* with the condition variable of cond.go, and a filter that is polled     *)
(* over HTTP (rpc/namespaces/ethereum/eth/filters/api.go).                 *)
(*                                                                         *)
(* A step of a goroutine is what it does between taking and releasing a    *)
(* lock.  The stream's mutex, the mutex of the condition variable and      *)
(* filtersMu are not held across steps, but for a poll of a log filter,    *)
(* which keeps filtersMu from chunk to chunk.                              *)
(***************************************************************************)
EXTENDS Stream, FiniteSets

CONSTANTS Subs,      \* subscriptions of the connection
          LogSubs,   \* those of them to logs, which are filtered
          MaxPushed, \* bound: items added when the websocket client reads
          MaxPolled, \* bound: items added when the http client reads
          MaxBatch,  \* bound: items of one Add
          NoFilter   \* the filter is not installed

ASSUME LogSubsBound == LogSubs \subseteq Subs

VARIABLES
  client,  \* bound: who reads in this behaviour, the websocket or the http client
  stream,  \* the stream
  added,   \* history: how many items were added to it
  conn,    \* the connection: open, broken (the peer is gone), closed
  loop,    \* readLoop: running, ended
  sub,     \* the goroutine of each subscription, see Idle
  filter,  \* the filter: [typ, offset, timer]
  poll     \* GetFilterChanges: idle, reading (chunks of logs), stuck

vars == <<client, stream, added, conn, loop, sub, filter, poll>>

(* A subscription: where its goroutine is, its offset, the items it passes *)
(* to the callback, and whether its context is cancelled.                  *)
(*   read      in ReadBlocking, before doRead                              *)
(*   unlocked  found nothing and released the mutex                        *)
(*   parked    in Cond.Wait, on a channel that is open                     *)
(*   signaled  in Cond.Wait, on a channel that is closed                   *)
(*   callback  has items                                                   *)
Idle == [pc |-> "idle", offset |-> -1, items |-> << >>, cancelled |-> FALSE]

Timers == {"running", "fired", "received"}
Polls == {"idle", "reading", "stuck"}

Ended(r) == sub[r].pc \in {"idle", "done"}

MaxItems == IF client = "websocket" THEN MaxPushed ELSE MaxPolled

Init ==
  /\ client \in {"websocket", "http"}
  /\ stream = NewStream /\ added = 0
  /\ conn = "open" /\ loop = "running"
  /\ sub = [r \in Subs |-> Idle]
  /\ filter = NoFilter /\ poll = "idle"

-----------------------------------------------------------------------------
(* The feed. *)

(* The next k items, one after the other.                                  *)
Extended(k) ==
  LET upto[i \in 0 .. k] == IF i = 0 THEN stream ELSE AddItem(upto[i - 1], added + i)
  IN  upto[k]

(* Mutant: only one of the waiting goroutines is woken.                    *)
MutBroadcast(f) ==
  LET waiting == {r \in Subs : f[r].pc = "parked"}
  IN  IF waiting = {} THEN f
      ELSE [f EXCEPT ![CHOOSE r \in waiting : TRUE].pc = "signaled"]

(* Broadcast closes the channel of those who wait and makes a new one.     *)
Broadcast(f) ==
  [r \in Subs |-> IF f[r].pc = "parked" THEN [f[r] EXCEPT !.pc = "signaled"] ELSE f[r]]

(* Add of a batch; an empty one returns before the lock.                   *)
Add(k) ==
  /\ added + k <= MaxItems
  /\ added' = added + k
  /\ stream' = Extended(k)
  /\ sub' = Broadcast(sub)
  /\ UNCHANGED <<client, conn, loop, filter, poll>>

-----------------------------------------------------------------------------
(* The goroutine of a subscription. *)

Goes(r, record) ==
  /\ sub' = [sub EXCEPT ![r] = record]
  /\ UNCHANGED <<client, stream, added, loop, filter, poll>>

(* ReadBlocking up to the items, or to the release of the mutex.           *)
Read(r) ==
  LET res == doRead(stream, sub[r].offset)
  IN  /\ sub[r].pc = "read"
      /\ Goes(r, [sub[r] EXCEPT !.offset = res.offset, !.items = res.items,
                                !.pc = IF res.items = << >> THEN "unlocked" ELSE "callback"])
      /\ UNCHANGED conn

(* Cond.Wait takes the channel of that moment.                             *)
Wait(r) ==
  /\ sub[r].pc = "unlocked"
  /\ Goes(r, [sub[r] EXCEPT !.pc = "parked"])
  /\ UNCHANGED conn

(* The select of Cond.Wait: any case that is ready. A cancelled read       *)
(* returns no items, which ends Subscribe.                                 *)
Wake(r) ==
  /\ sub[r].pc = "signaled"
  /\ Goes(r, [sub[r] EXCEPT !.pc = "read"])
  /\ UNCHANGED conn

Leave(r) ==
  /\ sub[r].pc \in {"parked", "signaled"} /\ sub[r].cancelled
  /\ Goes(r, [sub[r] EXCEPT !.pc = "done", !.offset = 0])
  /\ UNCHANGED conn

(* The callback writes the items to the connection, or those logs that     *)
(* match.  When a write fails Subscribe returns, and the callback closes   *)
(* the connection unless a close message was sent already.                 *)
Deliver(r) ==
  /\ sub[r].pc = "callback"
  /\ conn # "closed" \/ r \in LogSubs
  /\ Goes(r, [sub[r] EXCEPT !.pc = "read", !.items = << >>])
  /\ UNCHANGED conn

WriteFails(r) ==
  /\ sub[r].pc = "callback"
  /\ conn # "open"
  /\ Goes(r, [sub[r] EXCEPT !.pc = "done", !.items = << >>])
  /\ conn' \in {conn, "closed"}

SubStep(r) == Read(r) \/ Wait(r) \/ Wake(r) \/ Leave(r) \/ Deliver(r) \/ WriteFails(r)

-----------------------------------------------------------------------------
(* The goroutine of the connection: readLoop with subscribe. *)

Started(f, r) == [f EXCEPT ![r].pc = "read"]
Cancelled(f, r) == [f EXCEPT ![r].cancelled = TRUE]

(* The deferred function of readLoop.                                      *)
CancelAll(f) == [r \in Subs |-> [f[r] EXCEPT !.cancelled = @ \/ f[r].pc # "idle"]]

(* readLoop goes on after its response is written, and ends when that      *)
(* fails.                                                                  *)
Respond(f) ==
  /\ loop = "running" /\ conn # "closed"
  /\ \/ sub' = f /\ UNCHANGED loop
     \/ conn = "broken" /\ sub' = CancelAll(f) /\ loop' = "ended"
  /\ UNCHANGED <<client, stream, added, conn, filter, poll>>

(* Mutant: the subscription is entered into the map of readLoop after the  *)
(* response.                                                               *)
MutSubscribe(r) ==
  /\ client = "websocket" /\ sub[r].pc = "idle" /\ loop = "running" /\ conn # "closed"
  /\ \/ sub' = Started(sub, r) /\ UNCHANGED loop
     \/ conn = "broken" /\ sub' = Started(CancelAll(sub), r) /\ loop' = "ended"
  /\ UNCHANGED <<client, stream, added, conn, filter, poll>>

Subscribe(r) == client = "websocket" /\ sub[r].pc = "idle" /\ Respond(Started(sub, r))

Unsubscribe(r) == sub[r].pc # "idle" /\ ~ sub[r].cancelled /\ Respond(Cancelled(sub, r))

PeerGone ==
  /\ client = "websocket" /\ conn = "open"
  /\ conn' = "broken"
  /\ UNCHANGED <<client, stream, added, loop, sub, filter, poll>>

(* ReadMessage returns an error.                                           *)
ReadFails ==
  /\ loop = "running" /\ conn # "open"
  /\ conn' = "closed" /\ loop' = "ended"
  /\ sub' = CancelAll(sub)
  /\ UNCHANGED <<client, stream, added, filter, poll>>

-----------------------------------------------------------------------------
(* The filter. *)

FilterStep == UNCHANGED <<client, stream, added, conn, loop, sub>>

(* Mutant: the filter starts with the offset it asks with.                 *)
MutNewFilter(typ) ==
  /\ client = "http" /\ poll = "idle" /\ filter = NoFilter
  /\ filter' = [typ |-> typ, offset |-> -1, timer |-> "running"]
  /\ UNCHANGED poll
  /\ FilterStep

(* NewFilter, NewBlockFilter and NewPendingTransactionFilter; there is     *)
(* room for one filter.                                                    *)
NewFilter(typ) ==
  /\ client = "http" /\ poll = "idle" /\ filter = NoFilter
  /\ filter' = [typ |-> typ, offset |-> doRead(stream, -1).offset, timer |-> "running"]
  /\ UNCHANGED poll
  /\ FilterStep

UninstallFilter ==
  /\ poll = "idle" /\ filter # NoFilter
  /\ filter' = NoFilter
  /\ UNCHANGED poll
  /\ FilterStep

TimerFires ==
  /\ filter # NoFilter /\ filter.timer = "running"
  /\ filter' = [filter EXCEPT !.timer = "fired"]
  /\ UNCHANGED poll
  /\ FilterStep

(* Mutant: the time is received and the filter kept for another round.     *)
MuttimeoutLoop ==
  /\ poll = "idle" /\ filter # NoFilter /\ filter.timer = "fired"
  /\ filter' = [filter EXCEPT !.timer = "received"]
  /\ UNCHANGED poll
  /\ FilterStep

(* A tick of timeoutLoop that finds the filter expired.                    *)
timeoutLoop ==
  /\ poll = "idle" /\ filter # NoFilter /\ filter.timer = "fired"
  /\ filter' = NoFilter
  /\ UNCHANGED poll
  /\ FilterStep

(* GetFilterChanges: a timer that has fired is drained and set again; when *)
(* its time was received before, the receive never returns.  Hashes are    *)
(* read at once, logs chunk by chunk.                                      *)
GetFilterChanges ==
  /\ poll = "idle" /\ filter # NoFilter
  /\ CASE filter.timer = "received" -> poll' = "stuck" /\ UNCHANGED filter
       [] filter.timer # "received" /\ filter.typ = "hashes" ->
            /\ filter' = [filter EXCEPT !.timer = "running",
                                        !.offset = ReadAll(stream, @).offset]
            /\ UNCHANGED poll
       [] filter.timer # "received" /\ filter.typ = "logs" ->
            /\ filter' = [filter EXCEPT !.timer = "running"]
            /\ poll' = "reading"
  /\ FilterStep

ReadLogs ==
  LET res == doRead(stream, filter.offset)
  IN  /\ poll = "reading"
      /\ filter' = [filter EXCEPT !.offset = res.offset]
      /\ poll' = IF res.items = << >> THEN "idle" ELSE "reading"
      /\ FilterStep

-----------------------------------------------------------------------------
Next ==
  \/ \E k \in 1 .. MaxBatch : Add(k)
  \/ \E r \in Subs : SubStep(r) \/ Subscribe(r) \/ Unsubscribe(r)
  \/ PeerGone \/ ReadFails
  \/ \E typ \in {"hashes", "logs"} : NewFilter(typ)
  \/ UninstallFilter \/ TimerFires \/ timeoutLoop
  \/ GetFilterChanges \/ ReadLogs

(* Goroutines that can go on do so, and the operating system reports a     *)
(* connection that is gone.                                                *)
Fairness ==
  /\ \A r \in Subs : WF_vars(SubStep(r))
  /\ WF_vars(ReadFails) /\ WF_vars(ReadLogs)

Spec == Init /\ [][Next]_vars /\ Fairness

-----------------------------------------------------------------------------
(* Properties. *)

(* Offsets are ids of items that were added, and no reader holds items or  *)
(* a cancelled context before it is started.                               *)
TypeOK ==
  /\ client \in {"websocket", "http"} /\ added \in 0 .. MaxItems
  /\ conn \in {"open", "broken", "closed"} /\ loop \in {"running", "ended"}
  /\ \A r \in Subs :
       /\ sub[r].pc \in {"idle", "read", "unlocked", "parked", "signaled", "callback", "done"}
       /\ sub[r].offset \in -1 .. added /\ sub[r].cancelled \in BOOLEAN
       /\ sub[r].items # << >> <=> sub[r].pc = "callback"
  /\ filter # NoFilter => /\ filter.typ \in {"hashes", "logs"}
                          /\ filter.offset \in 0 .. added /\ filter.timer \in Timers
  /\ poll \in Polls /\ (poll = "reading" => filter # NoFilter)

Ids(from, to) == [i \in 1 .. to - from + 1 |-> from + i - 1]

Pruned == stream.segmentOffset * SegmentSize

(* The stream keeps its latest items, at least Capacity of them, and       *)
(* numbers them from 1 without a gap, through every reuse of a segment and *)
(* every turn of the ring buffer (Add, lastID and Queue; the promise at    *)
(* NewStream that only old data is pruned).                                *)
StreamExact ==
  /\ lastID(stream) = added
  /\ ReadAll(stream, Pruned).items = Ids(Pruned + 1, added)
  /\ Pruned > 0 => added - Pruned >= Capacity
  /\ Length(stream.segments) <= maxSegments + 1

(* Whatever offset a reader has kept, reading there never slices beyond a  *)
(* segment, returns consecutive later items and the id of their last, and  *)
(* returns nothing only at the end; nothing is skipped as long as the      *)
(* segment of the offset is kept (doRead and ReadAllNonBlocking).          *)
ReadsOn ==
  \A o \in 0 .. added :
    LET r   == doRead(stream, o)
        all == ReadAll(stream, o)
    IN  /\ Readable(stream, o)
        /\ r.items = << >> <=> o = added
        /\ r.items = Ids(r.offset - Len(r.items) + 1, r.offset)
        /\ o < added => o < r.offset - Len(r.items) + 1
        /\ Pruned <= o /\ o < added => r.items[1] = o + 1
        /\ all.items = Ids(added - Len(all.items) + 1, added) /\ all.offset = added

(* GetFilterChanges never waits for a timer whose time timeoutLoop has     *)
(* received: it would wait for ever with filtersMu held, and with it every *)
(* other filter call.                                                      *)
PollReturns == poll # "stuck"

(* A goroutine that waits in Cond.Wait when an item is added goes on to    *)
(* read that item, unless it ends (Add, Broadcast and Cond.Wait).          *)
WaitersRead ==
  \A r \in Subs : \A n \in 0 .. MaxPushed - 1 :
    [](sub[r].pc = "parked" /\ added = n =>
         [](added > n => <>(sub[r].offset > n \/ sub[r].pc = "done")))

(* When the peer is gone readLoop ends, and with it every subscription of  *)
(* the connection, whether it waits, reads or writes (readLoop and the     *)
(* callbacks of subscribeNewHeads and its siblings).                       *)
ConnectionEnds == conn # "open" ~> loop = "ended" /\ \A r \in Subs : Ended(r)

(* Add notifies the subscribers: every item added after a subscription     *)
(* knows its first offset reaches it, unless it is cancelled or ends.      *)
ItemsReach ==
  \A r \in Subs : \A n \in 1 .. MaxPushed :
    sub[r].pc \notin {"idle", "done"} /\ sub[r].offset \in 0 .. n - 1 /\ added >= n
      ~> sub[r].offset >= n \/ sub[r].pc = "done" \/ sub[r].cancelled
=============================================================================
