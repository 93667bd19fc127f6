----------------------------- MODULE LegacyPool -----------------------------
(* The pool of Ethereum transactions (mempool/txpool/legacypool) with the    *)
(* two loops that drive it: TxPool.loop, which turns chain head events into  *)
(* resets, and scheduleReorgLoop, which coalesces resets and promotions into *)
(* background runs of runReorg.  Every section the code holds pool.mu for is *)
(* one action.                                                               *)
(*                                                                           *)
(* A transaction is a record; its hash is its identity.  A list is the set   *)
(* of its transactions.  Wall-clock time (the heartbeats and the Lifetime)   *)
(* and the price heaps are choices: any account may be the least recently    *)
(* active one and any transactions may be the cheapest.                      *)
EXTENDS Integers, FiniteSets, FiniteSetsExt

CONSTANTS
  Configs,         \* instances of the pool and of the world around it
  PriceBump,
  Callers,         \* concurrent callers of Add
  None,            \* nothing (a nil request, channel or header)
  NoState          \* the nil StateDB of zeroHeader

VARIABLES
  config,     \* the instance, which no step changes
  chain,      \* state of the last notified block (Blockchain.latestCtx)
  cached,     \* Blockchain.latestCtx is set
  hashKnown,  \* Blockchain.previousHeaderHash is set
  notified,   \* TxPool.loop: the head not yet reset to, or None
  busy,       \* TxPool.loop: resetBusy
  moved,      \* TxPool.loop: oldHead is no longer the zeroHeader of the start
  view,       \* pool.currentState, NoState for a nil StateDB
  pool,       \* the maps pool.mu protects
  asking,     \* the accounts a caller asks to promote, or None
  loop,       \* the locals of scheduleReorgLoop
  run,        \* the background runReorg, or None
  gossiped,   \* pooled transactions that were handed to BroadcastTxFn
  panicked    \* a goroutine dereferenced nil

blockchain == <<chain, cached, hashKnown>>
txpool == <<notified, busy, moved>>
vars == <<config, blockchain, txpool, view, pool, asking, loop, run, gossiped, panicked>>

Accounts == config.accounts          \* senders
Txs == config.txs                    \* the transactions that may be submitted
Balances == config.balances          \* the balances an account can have
MaxNonce == config.maxNonce          \* bound on the nonces of the chain
Movers == config.movers              \* the accounts that blocks change
Delegates == config.delegates        \* accounts whose code may change (EIP-7702)
ContextFails == config.contextFails  \* can newLatestContext fail?
AccountSlots == config.accountSlots
GlobalSlots == config.globalSlots
AccountQueue == config.accountQueue
GlobalQueue == config.globalQueue

Tx(accounts) == [from : accounts, nonce : Nat, feeCap : Nat, tipCap : Nat, cost : Nat,
                 auths : SUBSET accounts]

Header == {None, "zero", "block"}
RunOf(c) == [locked : BOOLEAN, reset : Header, dirty : SUBSET c.accounts,
             events : SUBSET c.txs]

ASSUME PoolAssumption ==
  /\ PriceBump \in Nat \ {0}
  /\ \A c \in Configs :
       /\ IsFiniteSet(c.accounts) /\ IsFiniteSet(c.txs)   \* both have a bounded size
       /\ c.txs \subseteq Tx(c.accounts) /\ c.movers \cup c.delegates \subseteq c.accounts
       /\ c.balances \subseteq Nat /\ c.balances # {} /\ IsFiniteSet(c.balances)
       /\ c.maxNonce \in Nat
       /\ c.contextFails \in BOOLEAN
       /\ {c.accountSlots, c.globalSlots, c.accountQueue, c.globalQueue}
             \subseteq Nat \ {0}   \* Config.sanitize

ASSUME NoneAssumption ==
  /\ None \notin {"zero", "block"}
  /\ \A c \in Configs :
       /\ None \notin c.accounts /\ None \notin RunOf(c)
       /\ \A asked \in SUBSET c.accounts : None # asked

(***************************************************************************)
(* list: the transactions of one account, one per nonce                    *)
(***************************************************************************)
At(list, nonce) == {t \in list : t.nonce = nonce}

Nonces(list) == {t.nonce : t \in list}

(* list.Add: is t inserted into list, over the transaction of its nonce?   *)
Inserted(list, t) ==
  \A old \in At(list, t.nonce) :
    /\ old.feeCap < t.feeCap /\ old.tipCap < t.tipCap
    /\ t.feeCap >= (old.feeCap * (100 + PriceBump)) \div 100
    /\ t.tipCap >= (old.tipCap * (100 + PriceBump)) \div 100

(* Adding every transaction of new, each if list.Add takes it              *)
Taken(list, new) == {t \in new : Inserted(list, t)}
Displaced(list, new) ==
  {old \in list : old.nonce \in Nonces(Taken(list, new))}
AddAll(list, new) == (list \ Displaced(list, new)) \cup Taken(list, new)

(* list.Ready: the run of consecutive nonces at the front of the list,     *)
(* unless it starts above start                                            *)
Ready(list, start) ==
  IF list = {} \/ Min(Nonces(list)) > start THEN {}
  ELSE {t \in list : Min(Nonces(list)) .. t.nonce \subseteq Nonces(list)}

(* list.Cap: the n lowest nonces stay                                      *)
Capped(list, n) ==
  {t \in list : Cardinality({u \in list : u.nonce < t.nonce}) < n}

(* list.Filter: what is too costly, and in a strict list what comes after  *)
TooCostly(list, balance) == {t \in list : t.cost > balance}
Invalids(list, removed) ==
  {t \in list \ removed : \E r \in removed : r.nonce < t.nonce}

(* Mutant: noncer.setIfLower stores the nonce before, below zero at zero   *)
MutLesser(m, n) == IF m < n THEN m ELSE n - 1
Lesser(m, n) == IF m < n THEN m ELSE n

(***************************************************************************)
(* Removing and placing transactions; p is the value of pool               *)
(***************************************************************************)
(* removeTx of every transaction of drop: what follows a pending one goes  *)
(* back to the queue.  The account keep stays reserved.                    *)
RemoveTxs(p, drop, keep) ==
  LET gone(a) == drop \cap p.pending[a]
      after(a) == {t \in p.pending[a] \ gone(a) :
                     \E g \in gone(a) : g.nonce < t.nonce}
      rest(a) == p.pending[a] \ (gone(a) \cup after(a))
      back(a) == AddAll(p.queue[a], after(a)) \ drop
  IN [p EXCEPT
       !.all = @ \ (drop \cup UNION {Displaced(p.queue[a], after(a)) :
                                       a \in Accounts}),
       !.pending = [a \in Accounts |-> rest(a)],
       !.queue = [a \in Accounts |-> back(a)],
       !.nonces = [a \in Accounts |->
                     IF gone(a) = {} THEN p.nonces[a]
                     ELSE Lesser(p.nonces[a], Min(Nonces(gone(a))))],
       !.reserved = @ \ {a \in Accounts \ {keep} :
                           /\ \E t \in drop : t.from = a
                           /\ rest(a) = {} /\ back(a) = {}}]

(* What removeTx returns, summed over drop                                 *)
PendingRemoved(p, drop) ==
  {t \in UNION {p.pending[a] : a \in Accounts} :
     \E d \in drop : d \in p.pending[t.from] /\ d.nonce <= t.nonce}

Cost(list) == MapThenSumSet(LAMBDA t : t.cost, list)

(* ValidateTransactionWithState                                            *)
ValidateWithState(p, t) ==
  /\ view.nonce[t.from] <= t.nonce
  /\ t.cost <= view.balance[t.from]
  /\ Cost(p.pending[t.from] \ At(p.pending[t.from], t.nonce)) + t.cost
        <= view.balance[t.from]

(* checkDelegationLimit                                                    *)
WithinDelegationLimit(p, t) ==
  \/ t.from \notin view.delegated /\ \A u \in p.all : t.from \notin u.auths
  \/ p.pending[t.from] = {} /\ p.nonces[t.from] = t.nonce
  \/ At(p.pending[t.from], t.nonce) # {}

(* validateTx with validateAuth; no other subpool reserves an address      *)
ValidateTx(p, t) ==
  /\ ValidateWithState(p, t)
  /\ WithinDelegationLimit(p, t)
  /\ \A a \in t.auths : Cardinality(p.pending[a] \cup p.queue[a]) <= 1

(* isGapped                                                                *)
IsGapped(p, t) ==
  /\ t.nonce > p.nonces[t.from]
  /\ ~ p.nonces[t.from] .. t.nonce - 1 \subseteq Nonces(p.queue[t.from])

(* The tail of add: over a pending transaction, else enqueueTx             *)
OverPending(p, t) == At(p.pending[t.from], t.nonce) # {}
Target(p, t) == IF OverPending(p, t) THEN p.pending[t.from] ELSE p.queue[t.from]
(* Mutant: the replaced transaction stays in the lookup                    *)
MutPlace(p, t) ==
  IF ~ Inserted(Target(p, t), t) THEN p
  ELSE LET q == [p EXCEPT !.all = @ \cup {t}, !.reserved = @ \cup {t.from}]
       IN IF OverPending(p, t)
          THEN [q EXCEPT !.pending = [@ EXCEPT ![t.from] = AddAll(p.pending[t.from], {t})]]
          ELSE [q EXCEPT !.queue = [@ EXCEPT ![t.from] = AddAll(p.queue[t.from], {t})]]
Place(p, t) ==
  IF ~ Inserted(Target(p, t), t) THEN p
  ELSE LET q == [p EXCEPT !.all = (@ \ At(Target(p, t), t.nonce)) \cup {t},
                          !.reserved = @ \cup {t.from}]
       IN IF OverPending(p, t)
          THEN [q EXCEPT !.pending = [@ EXCEPT ![t.from] = AddAll(p.pending[t.from], {t})]]
          ELSE [q EXCEPT !.queue = [@ EXCEPT ![t.from] = AddAll(p.queue[t.from], {t})]]

(***************************************************************************)
(* The steps of runReorg; v is the state the pool has after the reset      *)
(***************************************************************************)
(* promoteExecutables(accounts)                                            *)
Payable(p, v, a) ==
  LET list == {t \in p.queue[a] : t.nonce >= v.nonce[a]}
  IN list \ TooCostly(list, v.balance[a])
Readies(p, v, accounts, a) ==
  IF a \in accounts THEN Ready(Payable(p, v, a), p.nonces[a]) ELSE {}
PromoteExecutables(p, v, accounts) ==
  LET readies(a) == Readies(p, v, accounts, a)
      kept(a) == IF a \in accounts
                 THEN Capped(Payable(p, v, a) \ readies(a), AccountQueue)
                 ELSE p.queue[a]
      taken(a) == Taken(p.pending[a], readies(a))
      after(a) == AddAll(p.pending[a], readies(a))
  IN [p EXCEPT
       !.all = @ \ UNION {((p.queue[a] \cup p.pending[a])
                             \ (kept(a) \cup after(a))) : a \in Accounts},
       !.pending = [a \in Accounts |-> after(a)],
       !.queue = [a \in Accounts |-> kept(a)],
       !.nonces = [a \in Accounts |->
                     IF taken(a) = {} THEN p.nonces[a]
                     ELSE Max(Nonces(taken(a))) + 1],
       !.reserved = @ \ {a \in accounts : /\ p.queue[a] # {}
                                          /\ kept(a) = {} /\ after(a) = {}}]
Promoted(p, v, accounts) ==
  UNION {Taken(p.pending[a], Readies(p, v, accounts, a)) : a \in Accounts}

(* demoteUnexecutables                                                     *)
DemoteUnexecutables(p, v) ==
  LET live(a) == {t \in p.pending[a] : t.nonce >= v.nonce[a]}
      drops(a) == TooCostly(live(a), v.balance[a])
      front(a) == live(a) \ (drops(a) \cup Invalids(live(a), drops(a)))
      rest(a) == IF At(front(a), v.nonce[a]) = {} THEN {} ELSE front(a)
      back(a) == live(a) \ (drops(a) \cup rest(a))
  IN [p EXCEPT
       !.all = @ \ UNION {(p.pending[a] \ (rest(a) \cup back(a)))
                            \cup Displaced(p.queue[a], back(a)) : a \in Accounts},
       !.pending = [a \in Accounts |-> rest(a)],
       !.queue = [a \in Accounts |-> AddAll(p.queue[a], back(a))],
       !.reserved = @ \ {a \in Accounts : /\ p.pending[a] # {}
                                          /\ rest(a) = {} /\ p.queue[a] = {}
                                          /\ back(a) = {}}]

(* Mutant: the virtual nonces are not brought up to the pending lists      *)
MutSetAllNonces(p, v) == p

(* pendingNonces.setAll; an account without an entry has the state's nonce *)
SetAllNonces(p, v) ==
  [p EXCEPT !.nonces = [a \in Accounts |->
     IF p.pending[a] = {} THEN v.nonce[a] ELSE Max(Nonces(p.pending[a])) + 1]]

(* truncatePending: its rounds take one transaction at a time from every   *)
(* account at the highest level, until the total fits or that level is     *)
(* AccountSlots; what they leave is the pending lists cut at one level.    *)
Total(lists, n) ==
  MapThenSumSet(LAMBDA a : Lesser(Cardinality(lists[a]), n), Accounts)
(* Mutant: one pending transaction too many is tolerated                   *)
MutLevel(lists) ==
  LET longest == Max({Cardinality(lists[a]) : a \in Accounts})
      fits == {n \in AccountSlots .. longest : Total(lists, n) <= GlobalSlots + 1}
  IN IF fits = {} THEN AccountSlots ELSE Max(fits)
Level(lists) ==
  LET longest == Max({Cardinality(lists[a]) : a \in Accounts})
      fits == {n \in AccountSlots .. longest : Total(lists, n) <= GlobalSlots}
  IN IF fits = {} THEN AccountSlots ELSE Max(fits)
TruncatePending(p) ==
  LET kept(a) == Capped(p.pending[a], Level(p.pending))
      cut(a) == p.pending[a] \ kept(a)
  IN [p EXCEPT
       !.all = @ \ UNION {cut(a) : a \in Accounts},
       !.pending = [a \in Accounts |-> kept(a)],
       !.nonces = [a \in Accounts |->
                     IF cut(a) = {} THEN p.nonces[a]
                     ELSE Lesser(p.nonces[a], Min(Nonces(cut(a))))]]

(* The choices of truncateQueue: whole queues of the least recently active *)
(* accounts and the highest nonces of the last one                         *)
Queued(p) == UNION {p.queue[a] : a \in Accounts}
QueueOverflow(p) ==
  LET excess == Cardinality(Queued(p)) - GlobalQueue
      part(d) == {a \in Accounts : ~ p.queue[a] \subseteq d /\ p.queue[a] \cap d # {}}
  IN {d \in SUBSET Queued(p) :
        /\ Cardinality(d) = (IF excess > 0 THEN excess ELSE 0)
        /\ Cardinality(part(d)) <= 1
        /\ \A a \in part(d) : \A t \in d \cap p.queue[a] :
             \A u \in p.queue[a] \ d : u.nonce < t.nonce}
TruncateQueue(p, drop) == RemoveTxs(p, drop, None)

(***************************************************************************)
(* The loops                                                               *)
(***************************************************************************)
NoRequest == [launch |-> FALSE, reset |-> None, dirty |-> {}, events |-> {}]

(* Mutant: the run is given the fresh event map instead of the filled one  *)
MutScheduled(l, r) ==
  IF l.launch /\ r = None
  THEN /\ run' = [locked |-> FALSE, reset |-> l.reset, dirty |-> l.dirty,
                  events |-> {}]
       /\ loop' = NoRequest
  ELSE run' = r /\ loop' = l

(* scheduleReorgLoop before its next select, with the locals l and the run *)
(* r: it launches the next run if one is wanted and none is active.        *)
Scheduled(l, r) ==
  IF l.launch /\ r = None
  THEN /\ run' = [locked |-> FALSE, reset |-> l.reset, dirty |-> l.dirty,
                  events |-> l.events]
       /\ loop' = NoRequest
  ELSE run' = r /\ loop' = l

(* SortedMap.Put of every transaction of new                               *)
Put(events, new) ==
  {t \in events : \A u \in new : <<u.from, u.nonce>> # <<t.from, t.nonce>>}
    \cup new

Start == [nonce |-> [a \in Accounts |-> 0],
          balance |-> [a \in Accounts |-> Max(Balances)],
          delegated |-> {}]

(* A restarted node: CurrentBlock returns zeroHeader, whose StateAt is nil *)
Init ==
  /\ config \in Configs
  /\ chain = Start
  /\ cached = FALSE
  /\ hashKnown = FALSE
  /\ notified = None
  /\ busy = FALSE
  /\ moved = FALSE
  /\ view = NoState
  /\ pool = [pending |-> [a \in Accounts |-> {}],
             queue |-> [a \in Accounts |-> {}],
             all |-> {}, nonces |-> [a \in Accounts |-> 0],
             reserved |-> {}, changes |-> 0]
  /\ asking = [c \in Callers |-> None]
  /\ loop = NoRequest
  /\ run = None
  /\ gossiped = {}
  /\ panicked = FALSE

(* A block: one account moves on by a nonce, or only its balance changes.  *)
NextChain(a, n, b, d) ==
  [nonce |-> [chain.nonce EXCEPT ![a] = n],
   balance |-> [chain.balance EXCEPT ![a] = b],
   delegated |-> d]

(* NotifyNewBlock and the newHeadCh case of TxPool.loop.  newLatestContext *)
(* is tried twice: for latestCtx (kept), and if that failed by             *)
(* CurrentBlock (found).  The header is zeroHeader while no earlier hash   *)
(* is known and when there is no context.                                  *)
NotifyNewBlock(a, n, b, d, kept, found) ==
  /\ ~ panicked
  /\ n <= MaxNonce
  /\ chain' = NextChain(a, n, b, d)
  /\ cached' = kept
  /\ notified' = IF hashKnown /\ (kept \/ found) THEN "block" ELSE "zero"
  /\ hashKnown' = TRUE
  /\ UNCHANGED <<config, busy, moved, view, pool, asking, loop, run, gossiped,
                 panicked>>

(* TxPool.loop starts a reset when it has a head it did not reset to and   *)
(* none is running; scheduleReorgLoop takes the request.                   *)
RequestReset ==
  /\ ~ panicked
  /\ notified # None /\ (notified = "zero" => moved)
  /\ ~ busy
  /\ Scheduled([loop EXCEPT !.reset = notified, !.launch = TRUE], run)
  /\ busy' = TRUE
  /\ notified' = None
  /\ UNCHANGED <<config, blockchain, moved, view, pool, asking, gossiped, panicked>>

(* Add of one transaction by a caller: the section under pool.mu.  With a  *)
(* nil state the current head is zeroHeader, whose gas limit of 0 refuses  *)
(* every transaction before the lock is taken.                             *)
CanAdd(c, t) ==
  ~ panicked /\ asking[c] = None /\ view # NoState /\ t \notin pool.all

(* Mutant: the slot of the new transaction is not counted                  *)
MutFull(p) == Cardinality(p.all) > GlobalSlots + GlobalQueue

Full(p) == Cardinality(p.all) + 1 > GlobalSlots + GlobalQueue

Throttled(p) == p.changes > GlobalSlots \div 4

AddRefused(c, t) ==
  /\ CanAdd(c, t)
  /\ ~ ValidateTx(pool, t) \/ Full(pool)  \* Underpriced and the other refusals
  /\ asking' = [asking EXCEPT ![c] = {}]
  /\ UNCHANGED <<config, blockchain, txpool, view, pool, loop, run, gossiped,
                 panicked>>

(* priced.Discard: any transactions, as many as there is room missing      *)
Discard(p, t) ==
  IF ~ Full(p) THEN {{}}
  ELSE {d \in SUBSET p.all :
          /\ Cardinality(d) = Cardinality(p.all) + 1 - (GlobalSlots + GlobalQueue)
          /\ ~ Throttled(p)
          /\ ~ (IsGapped(p, t) /\ \E u \in d : u \in p.pending[u.from])}

(* Mutant: discarded senders stay reserved                                 *)
MutMakeRoomReserved(p, t, drop) ==
  [RemoveTxs(p, drop, t.from) EXCEPT
     !.changes = @ + Cardinality(PendingRemoved(p, drop)),
     !.reserved = p.reserved]

MakeRoom(p, t, drop) ==
  [RemoveTxs(p, drop, t.from) EXCEPT
     !.changes = @ + Cardinality(PendingRemoved(p, drop))]

AddAccepted(c, t) ==
  /\ CanAdd(c, t)
  /\ ValidateTx(pool, t)
  /\ \E drop \in Discard(pool, t) :
       LET p == MakeRoom(pool, t, drop)
           placed == Inserted(Target(p, t), t)
           replaced == At(Target(p, t), t.nonce) # {}
           announce == placed /\ OverPending(p, t)
       IN /\ pool' = Place(p, t)
          /\ loop' = IF announce          \* queueTxEvent, under the lock
                     THEN [loop EXCEPT !.events = Put(@, {t})] ELSE loop
          /\ asking' = [asking EXCEPT ![c] =
                          IF placed /\ ~ replaced THEN {t.from} ELSE {}]
  /\ UNCHANGED <<config, blockchain, txpool, view, run, gossiped, panicked>>

(* requestPromoteExecutables: the caller no longer holds pool.mu           *)
RequestPromote(c) ==
  /\ ~ panicked
  /\ asking[c] # None
  /\ Scheduled([loop EXCEPT !.dirty = @ \cup asking[c], !.launch = TRUE], run)
  /\ asking' = [asking EXCEPT ![c] = None]
  /\ UNCHANGED <<config, blockchain, txpool, view, pool, gossiped, panicked>>

(* ExperimentalEVMMempool.Remove of a transaction the ante handler rejects *)
RemoveTx(t) ==
  /\ ~ panicked
  /\ t \in pool.all
  /\ pool' = RemoveTxs(pool, {t}, None)
  /\ UNCHANGED <<config, blockchain, txpool, view, asking, loop, run, gossiped,
                 panicked>>

(* The evict tick of loop: the queues of accounts silent for a Lifetime    *)
Evict(silent) ==
  /\ ~ panicked
  /\ \E a \in silent : pool.queue[a] # {}
  /\ pool' = RemoveTxs(pool, UNION {pool.queue[a] : a \in silent}, None)
  /\ UNCHANGED <<config, blockchain, txpool, view, asking, loop, run, gossiped,
                 panicked>>

(* resetInternalState: the state of zeroHeader is nil, that of any other   *)
(* head is the state of the last block.  Without a cached context StateAt  *)
(* may fail to read it, and then everything is left as it was.             *)
StateAfter(read) ==
  IF run.reset = "zero" THEN NoState
  ELSE IF run.reset = "block" /\ read THEN chain ELSE view
ResetState(read) ==
  IF run.reset = "block" /\ read THEN [pool EXCEPT !.nonces = chain.nonce]
  ELSE pool

(* The locked section of runReorg                                          *)
Promoting == IF run.reset # None THEN Accounts ELSE run.dirty
Reorganised(read) ==
  LET v == StateAfter(read)
      p == PromoteExecutables(ResetState(read), v, Promoting)
  IN TruncatePending(IF run.reset = None THEN p
                     ELSE SetAllNonces(DemoteUnexecutables(p, v), v))

(* The events a reset does not take for stale and the promoted ones        *)
Announced(read) ==
  LET p == ResetState(read)
      fresh == {t \in run.events : t.nonce >= p.nonces[t.from]}
  IN Put(IF run.reset = None THEN run.events ELSE fresh,
         Promoted(p, StateAfter(read), Promoting))

RunReorg ==
  /\ ~ panicked
  /\ run # None /\ ~ run.locked
  /\ \E read \in {TRUE, cached} :
       /\ StateAfter(read) # NoState
       /\ view' = StateAfter(read)
       /\ \E drop \in QueueOverflow(Reorganised(read)) :
            pool' = [TruncateQueue(Reorganised(read), drop) EXCEPT !.changes = 0]
       /\ run' = [run EXCEPT !.locked = TRUE, !.events = Announced(read)]
  /\ UNCHANGED <<config, blockchain, txpool, asking, loop, gossiped, panicked>>

(* While the state is still nil the pool is empty: a run that fails to     *)
(* read the state changes nothing.                                         *)
RunReorgUnread ==
  /\ ~ panicked
  /\ run # None /\ ~ run.locked
  /\ run.reset = "block" /\ ~ cached /\ view = NoState
  /\ run' = [run EXCEPT !.locked = TRUE]
  /\ UNCHANGED <<config, blockchain, txpool, view, pool, asking, loop, gossiped,
                 panicked>>

(* A run that resets to zeroHeader dereferences its nil StateDB, or at the *)
(* latest its nil BaseFee in CalcBaseFee.                                  *)
RunReorgOnNil ==
  /\ ~ panicked
  /\ run # None /\ ~ run.locked
  /\ run.reset = "zero"
  /\ view' = NoState
  /\ panicked' = TRUE
  /\ UNCHANGED <<config, blockchain, txpool, pool, asking, loop, run, gossiped>>

(* The rest of runReorg with the broadcast of its events, whose error is   *)
(* only logged, close(done), the wait of Reset, and the loop receiving     *)
(* from curDone                                                            *)
FinishRun ==
  /\ ~ panicked
  /\ run # None /\ run.locked
  /\ gossiped' = (gossiped \cup run.events) \cap pool.all
  /\ busy' = (busy /\ run.reset = None)
  /\ moved' = (moved \/ run.reset # None)
  /\ Scheduled(loop, None)
  /\ UNCHANGED <<config, blockchain, notified, view, pool, asking, panicked>>

(* The process is gone                                                     *)
Panicked == panicked /\ UNCHANGED vars

Block ==
  \E a \in Movers, b \in Balances, d \in SUBSET Delegates :
    \E n \in {chain.nonce[a], chain.nonce[a] + 1} :
      \E kept, found \in {TRUE, ~ ContextFails} :
        NotifyNewBlock(a, n, b, d, kept, found)

Next ==
  \/ Block
  \/ RequestReset
  \/ \E c \in Callers, t \in Txs : AddRefused(c, t) \/ AddAccepted(c, t)
  \/ \E c \in Callers : RequestPromote(c)
  \/ \E t \in Txs : RemoveTx(t)
  \/ \E silent \in SUBSET Accounts : Evict(silent)
  \/ RunReorg
  \/ RunReorgUnread
  \/ RunReorgOnNil
  \/ FinishRun
  \/ Panicked

Spec == Init /\ [][Next]_vars

(***************************************************************************)
(* Properties                                                              *)
(***************************************************************************)
TxLists == [Accounts -> SUBSET Txs]
ChainState == [nonce : [Accounts -> 0 .. MaxNonce],
               balance : [Accounts -> Balances],
               delegated : SUBSET Delegates]
PoolMaps == [pending : TxLists, queue : TxLists, all : SUBSET Txs,
             nonces : [Accounts -> Nat], reserved : SUBSET Accounts, changes : Nat]
Requests == [launch : BOOLEAN, reset : Header, dirty : SUBSET Accounts,
             events : SUBSET Txs]

TypeOK ==
  /\ chain \in ChainState
  /\ {cached, hashKnown, moved, busy, panicked} \subseteq BOOLEAN
  /\ notified \in Header
  /\ view \in ChainState \cup {NoState}
  /\ pool \in PoolMaps
  /\ asking \in [Callers -> (SUBSET Accounts) \cup {None}]
  /\ loop \in Requests
  /\ run \in RunOf(config) \cup {None}
  /\ gossiped \subseteq Txs

(* The lookup of all transactions is exactly the pending and the queued    *)
(* ones, no transaction is in both, and no two transactions of an account  *)
(* have the same nonce: replacement, demotion, promotion and truncation    *)
(* keep the three structures in step.                                      *)
Held(p, a) == p.pending[a] \cup p.queue[a]
LookupExact ==
  /\ pool.all = UNION {Held(pool, a) : a \in Accounts}
  /\ \A a \in Accounts :
       /\ pool.pending[a] \cap pool.queue[a] = {}
       /\ \A t \in Held(pool, a) : t.from = a /\ At(Held(pool, a), t.nonce) = {t}

(* The pending transactions of an account can be executed one after the    *)
(* other from the state the pool knows: their nonces are those from the    *)
(* account's nonce to the virtual nonce, and each can be paid.  So the gap *)
(* demoteUnexecutables looks for cannot occur.                             *)
PendingExecutable ==
  view # NoState =>
    \A a \in Accounts :
      /\ Nonces(pool.pending[a]) = view.nonce[a] .. (pool.nonces[a] - 1)
      /\ \A t \in Held(pool, a) : t.nonce >= view.nonce[a]
      /\ \A t \in pool.pending[a] : t.cost <= view.balance[a]

(* An address is reserved exactly while the pool holds a transaction of    *)
(* it, whichever of the many ways its last transaction left.               *)
ReservedExact == pool.reserved = {a \in Accounts : Held(pool, a) # {}}

(* The pool never holds more than GlobalSlots + GlobalQueue transactions,  *)
(* and a run of runReorg leaves at most GlobalQueue queued ones and        *)
(* GlobalSlots pending ones, or AccountSlots for every account.            *)
Pending(p) == UNION {p.pending[a] : a \in Accounts}
PoolBounded == Cardinality(pool.all) <= GlobalSlots + GlobalQueue
RunBounds ==
  [][run # None /\ ~ run.locked /\ run'.locked =>
       /\ Cardinality(Queued(pool')) <= GlobalQueue
       /\ \/ Cardinality(Pending(pool')) <= GlobalSlots
          \/ \A a \in Accounts : Cardinality(pool'.pending[a]) <= AccountSlots]_vars

(* Nothing is asked of scheduleReorgLoop and no run is active              *)
Quiet == run = None /\ \A c \in Callers : asking[c] = None

(* Once the pool is quiet, every pending transaction was handed to         *)
(* BroadcastTxFn: the event of a replacement is never lost between two     *)
(* runs, nor dropped by a reset as stale.  It needs the context to be      *)
(* readable: a reset that could not read the state leaves the virtual      *)
(* nonces as they were, and still drops the events below them.             *)
PendingGossiped ==
  Quiet /\ ~ ContextFails => Pending(pool) \subseteq gossiped
=============================================================================
