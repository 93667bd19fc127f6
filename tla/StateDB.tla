------------------------------ MODULE StateDB -------------------------------
(***************************************************************************)
(* The state database of one EVM transaction (x/vm/statedb): live account  *)
(* objects over the keeper's store, a journal that undoes every change,    *)
(* and the cache context in which stateful precompiles run                 *)
(* (precompiles/common), with the stack of multi-store snapshots that      *)
(* undoes them (x/vm/store).                                               *)
(*                                                                         *)
(* Coins held by accounts whose address x/bank blocks are one number,      *)
(* pool: the balance handler never applies their events to the StateDB.    *)
(***************************************************************************)
EXTENDS Integers, FiniteSets, SequencesExt, FiniteSetsExt

CONSTANTS Addrs,                \* addresses of accounts
          Keys,                 \* storage slots of an account
          Funded,               \* accounts that exist when the transaction starts
          MaxPrecompileCalls,   \* types.MaxPrecompileCalls
          CounterSize,          \* 2^8 for the uint8 precompileCallsCounter
          Plans                 \* what a transaction consists of and how far it goes, see below

(* A plan has the families of operations the transaction uses, the slots   *)
(* and values it writes, the accounts that hold code when it starts, and   *)
(* bounds: the length of the journal, the depth of the snapshot stack, the *)
(* counter value from which no precompile is called, and the largest       *)
(* nonce, refund, number of logs and of executed native actions.           *)
Families == {"account", "storage", "scratch", "native", "failing"}
PlanSet == [ops : SUBSET Families, keys : SUBSET Keys, vals : SUBSET Nat,
            contracts : SUBSET Funded,
            entries : Nat, revisions : Nat, tries : Nat, count : Nat]

ASSUME PlansBound == Funded \subseteq Addrs /\ Plans \subseteq PlanSet

VARIABLES
  store,    \* the committed store under ctx: [acct, pool]
  db,       \* the StateDB apart from its journal, see InitDB
  journal,  \* undo entries, oldest first
  revs,     \* validRevisions: the journal length of each snapshot
  calls,    \* precompileCallsCounter
  done,     \* "open", then "committed" or "failed"
  seen,     \* history: what the getters returned at each snapshot of revs
  plan      \* the plan of the transaction, chosen at the start

vars == <<store, db, journal, revs, calls, done, seen, plan>>

Without(f, S) == [x \in (DOMAIN f) \ S |-> f[x]]
With(f, x, v) == [y \in (DOMAIN f) \cup {x} |-> IF y = x THEN v ELSE f[y]]
Empty == [x \in {} |-> 0]

-----------------------------------------------------------------------------
(* Objects: a live account of the transaction, loaded on demand from the   *)
(* store under ctx.                                                        *)

newObject(balance, nonce, code) ==
  [balance |-> balance, nonce |-> nonce, code |-> code,
   originStorage |-> Empty, dirtyStorage |-> Empty,
   selfDestructed |-> FALSE, newContract |-> FALSE]

Exist(d, a) == a \in DOMAIN d.objs \/ a \in DOMAIN store.acct

getStateObject(d, a) ==
  IF a \in DOMAIN d.objs THEN d.objs[a]
  ELSE LET s == store.acct[a] IN newObject(s.balance, s.nonce, s.code)

setStateObject(d, a, o) == [d EXCEPT !.objs = With(@, a, o)]

(* Caching what was loaded from the store is invisible: ctx is written by   *)
(* the final Commit only. originStorage holds what a flush put there.      *)
GetCommittedState(o, a, k) ==
  CASE k \in DOMAIN o.originStorage -> o.originStorage[k]
    [] a \in DOMAIN store.acct -> store.acct[a].slots[k]
    [] OTHER -> 0

GetState(o, a, k) ==
  IF k \in DOMAIN o.dirtyStorage THEN o.dirtyStorage[k] ELSE GetCommittedState(o, a, k)

GetBalance(d, a) == IF Exist(d, a) THEN getStateObject(d, a).balance ELSE 0

(* A slot set back to its origin is no longer dirty. *)
setState(o, k, value, origin) ==
  [o EXCEPT !.dirtyStorage = IF value = origin THEN Without(@, {k}) ELSE With(@, k, value)]

-----------------------------------------------------------------------------
(* The access list: an index into a list of slot sets for each address,    *)
(* NoSlots for an address without any.                                     *)

NoSlots == 0
EmptyAccessList == [addresses |-> Empty, slots |-> << >>]

AddAddress(al, a) ==
  IF a \in DOMAIN al.addresses THEN al ELSE [al EXCEPT !.addresses = With(@, a, NoSlots)]

HasSlots(al, a) == a \in DOMAIN al.addresses /\ al.addresses[a] # NoSlots

AddSlot(al, a, k) ==
  IF HasSlots(al, a)
  THEN [al EXCEPT !.slots[al.addresses[a]] = @ \cup {k}]
  ELSE [addresses |-> With(al.addresses, a, Len(al.slots) + 1), slots |-> Append(al.slots, {k})]

(* Mutant: the address goes with its last slot. *)
MutDeleteSlot(al, a, k) ==
  IF al.slots[al.addresses[a]] = {k}
  THEN [addresses |-> Without(al.addresses, {a}), slots |-> SubSeq(al.slots, 1, al.addresses[a] - 1)]
  ELSE [al EXCEPT !.slots[al.addresses[a]] = @ \ {k}]

DeleteSlot(al, a, k) ==
  LET i    == al.addresses[a]
      left == al.slots[i] \ {k}
  IN  IF left = {}
      THEN [addresses |-> With(al.addresses, a, NoSlots), slots |-> SubSeq(al.slots, 1, i - 1)]
      ELSE [al EXCEPT !.slots[i] = left]

Warm(al) ==
  {<<a>> : a \in DOMAIN al.addresses}
    \cup {<<a, k>> \in Addrs \X Keys : HasSlots(al, a) /\ k \in al.slots[al.addresses[a]]}

-----------------------------------------------------------------------------
(* The journal. An operation maps t = [d, j], a database and its journal,  *)
(* to the same pair after it.                                              *)

Journal(t, e) == [t EXCEPT !.j = Append(@, e)]

Touch(t, a, e, o) == [d |-> setStateObject(t.d, a, o), j |-> Append(t.j, e)]

(* Entries whose account must be written back: journal.dirties counts them. *)
Dirtying == {"createObject", "selfDestruct", "balance", "nonce", "code", "storage"}

sortedDirties(j) == {e.account : e \in {f \in ToSet(j) : f.kind \in Dirtying}}

(* What reverting one entry does: the Revert methods of journal.go. *)
RevertObject(d, e) ==
  LET a == e.account
      o == getStateObject(d, a)
  IN  CASE e.kind = "createObject" -> [d EXCEPT !.objs = Without(@, {a})]
        [] e.kind = "resetObject" -> setStateObject(d, a, e.prev)
        [] e.kind = "createContract" -> setStateObject(d, a, [o EXCEPT !.newContract = FALSE])
        [] e.kind = "selfDestruct" ->
             setStateObject(d, a, [o EXCEPT !.selfDestructed = e.prev, !.balance = e.balance])
        [] e.kind = "balance" -> setStateObject(d, a, [o EXCEPT !.balance = e.prev])
        [] e.kind = "nonce" -> setStateObject(d, a, [o EXCEPT !.nonce = e.prev])
        [] e.kind = "code" -> setStateObject(d, a, [o EXCEPT !.code = e.prev])
        [] e.kind = "storage" -> setStateObject(d, a, setState(o, e.key, e.prev, e.origin))

RevertMultiStore(d, e) ==
  [d EXCEPT !.cache = SubSeq(@, 1, e.snapshot), !.writes = {e.events}]

RevertEntry(d, e) ==
  CASE e.kind = "precompileCall" -> RevertMultiStore(d, e)
    [] e.kind = "transient" -> [d EXCEPT !.transient[e.account][e.key] = e.prev]
    [] e.kind = "refund" -> [d EXCEPT !.refund = e.prev]
    [] e.kind = "log" -> [d EXCEPT !.logs = @ - 1]
    [] e.kind = "accessAddress" -> [d EXCEPT !.access.addresses = Without(@, {e.account})]
    [] e.kind = "accessSlot" -> [d EXCEPT !.access = DeleteSlot(@, e.account, e.key)]
    [] OTHER -> RevertObject(d, e)

(* Mutant: the entries are undone and kept. *)
MutRevert(t, n) ==
  LET undone[i \in n .. Len(t.j)] ==
        IF i = Len(t.j) THEN t.d ELSE RevertEntry(undone[i + 1], t.j[i + 1])
  IN  [d |-> undone[n], j |-> t.j]

(* journal.Revert: undo the entries after the first n, latest first;       *)
(* undone[i] is the database once only the first i are left.               *)
Revert(t, n) ==
  LET undone[i \in n .. Len(t.j)] ==
        IF i = Len(t.j) THEN t.d ELSE RevertEntry(undone[i + 1], t.j[i + 1])
  IN  [d |-> undone[n], j |-> SubSeq(t.j, 1, n)]

-----------------------------------------------------------------------------
(* The setters. *)

createObject(t, a) ==
  Touch(t, a,
        IF Exist(t.d, a)
        THEN [kind |-> "resetObject", account |-> a, prev |-> getStateObject(t.d, a)]
        ELSE [kind |-> "createObject", account |-> a],
        newObject(0, 0, FALSE))

getOrNewStateObject(t, a) == IF Exist(t.d, a) THEN t ELSE createObject(t, a)

(* CreateAccount: the balance of an existing account is carried over. *)
CreateAccountOf(t, a) ==
  LET n == createObject(t, a)
  IN  [n EXCEPT !.d.objs[a].balance = GetBalance(t.d, a)]

SetBalance(t, a, x) ==
  LET o == getStateObject(t.d, a)
  IN  Touch(t, a, [kind |-> "balance", account |-> a, prev |-> o.balance], [o EXCEPT !.balance = x])

AddBalance(t, a, x) ==
  LET n == getOrNewStateObject(t, a)
  IN  IF x = 0 THEN n ELSE SetBalance(n, a, getStateObject(n.d, a).balance + x)

SubBalance(t, a, x) ==
  LET n == getOrNewStateObject(t, a)
  IN  IF x = 0 THEN n ELSE SetBalance(n, a, getStateObject(n.d, a).balance - x)

SetNonceOf(t, a, x) ==
  LET n == getOrNewStateObject(t, a)
      o == getStateObject(n.d, a)
  IN  Touch(n, a, [kind |-> "nonce", account |-> a, prev |-> o.nonce], [o EXCEPT !.nonce = x])

SetCodeOf(t, a) ==
  LET n == getOrNewStateObject(t, a)
      o == getStateObject(n.d, a)
  IN  Touch(n, a, [kind |-> "code", account |-> a, prev |-> o.code], [o EXCEPT !.code = TRUE])

SetStateOf(t, a, k, value) ==
  LET n      == getOrNewStateObject(t, a)
      o      == getStateObject(n.d, a)
      prev   == GetState(o, a, k)
      origin == GetCommittedState(o, a, k)
      e      == [kind |-> "storage", account |-> a, key |-> k, prev |-> prev, origin |-> origin]
  IN  IF prev = value THEN n
      ELSE Touch(n, a, e, setState(o, k, value, origin))

SelfDestructOf(t, a) ==
  LET o == getStateObject(t.d, a)
      e == [kind |-> "selfDestruct", account |-> a, prev |-> o.selfDestructed, balance |-> o.balance]
  IN  Touch(t, a, e, [o EXCEPT !.selfDestructed = TRUE, !.balance = 0])

-----------------------------------------------------------------------------
(* Writing the dirty objects D of d into a store w (commitWithCtx).        *)

Dead(d, D) == {a \in D : d.objs[a].selfDestructed}

(* DeleteAccount refuses an account that is stored without code. *)
CanFlush(w, d, D) == \A a \in Dead(d, D) \cap DOMAIN w.acct : w.acct[a].code

SetAccount(w, a, o) ==
  [balance |-> o.balance, nonce |-> o.nonce, code |-> o.code,
   slots |-> [k \in Keys |->
     CASE k \in DOMAIN o.dirtyStorage -> o.dirtyStorage[k]
       [] a \in DOMAIN w.acct -> w.acct[a].slots[k]
       [] OTHER -> 0]]

Flushed(w, d, D) ==
  [w EXCEPT !.acct =
     [a \in (DOMAIN w.acct \cup D) \ Dead(d, D) |->
        IF a \in D THEN SetAccount(w, a, d.objs[a]) ELSE w.acct[a]]]

(* Mutant: the origin of a slot stays what the store under ctx holds. *)
MutSyncOrigin(d, D) == d

(* The flushed values become the origin of later writes; the slots stay    *)
(* dirty when the flush is into the cache context.                         *)
SyncOrigin(d, D) ==
  [d EXCEPT !.objs = [a \in DOMAIN @ |->
     IF a \in D \ Dead(d, D)
     THEN [@[a] EXCEPT !.originStorage =
             [k \in DOMAIN @ \cup DOMAIN d.objs[a].dirtyStorage |->
                IF k \in DOMAIN d.objs[a].dirtyStorage THEN d.objs[a].dirtyStorage[k] ELSE @[k]]]
     ELSE @[a]]]

-----------------------------------------------------------------------------
(* Precompile calls. cache is empty while writeCache is nil; then it holds *)
(* the contents of the cache context at each level of the snapshot stack,  *)
(* the current one last. events is the event manager of the cache context, *)
(* an event being the number of the action that emitted it; writes holds   *)
(* the events a replaced writeCache will emit.                             *)

cache(d) == IF d.cache = << >> THEN <<store>> ELSE d.cache

Holders == Addrs \cup {"pool"}

NativeBalance(w, h) ==
  CASE h = "pool" -> w.pool
    [] h \in DOMAIN w.acct -> w.acct[h].balance
    [] OTHER -> 0

Give(w, h, x) ==
  CASE h = "pool" -> [w EXCEPT !.pool = @ + x]
    [] h \in DOMAIN w.acct -> [w EXCEPT !.acct[h].balance = @ + x]
    [] OTHER -> [w EXCEPT !.acct = With(@, h, [balance |-> x, nonce |-> 0, code |-> FALSE,
                                               slots |-> [k \in Keys |-> 0]])]

(* x/bank under the action of a precompile: one coin changes hands. *)
NativeMove(w, from, to) == Give(Give(w, from, -1), to, 1)

(* Mutant: received coins are not carried over. *)
MutAfterBalanceChange(t, from, to) == IF from = "pool" THEN t ELSE SubBalance(t, from, 1)

(* The bank events of the action are applied to the StateDB; those of      *)
(* blocked addresses are skipped.                                          *)
AfterBalanceChange(t, from, to) ==
  LET spent == IF from = "pool" THEN t ELSE SubBalance(t, from, 1)
  IN  IF to = "pool" THEN spent ELSE AddBalance(spent, to, 1)

CallEntry(d) == [kind |-> "precompileCall", snapshot |-> Len(cache(d)), events |-> d.events]

(* Mutant: the action runs on a cache context without the flush. *)
MutRunNativeAction(t, from, to) ==
  LET w == NativeMove(Last(cache(t.d)), from, to)
      d == [t.d EXCEPT !.cache = Append(cache(t.d), w), !.events = Append(@, Len(@) + 1)]
  IN  AfterBalanceChange([d |-> d, j |-> Append(t.j, CallEntry(t.d))], from, to)

(* The journal entry, the flush into a new snapshot of the cache context,  *)
(* the action, and the balance changes it caused.                          *)
RunNativeAction(t, from, to) ==
  LET D == sortedDirties(t.j)
      w == NativeMove(Flushed(Last(cache(t.d)), t.d, D), from, to)
      d == [SyncOrigin(t.d, D) EXCEPT !.cache = Append(cache(t.d), w),
                                      !.events = Append(@, Len(@) + 1)]
  IN  AfterBalanceChange([d |-> d, j |-> Append(t.j, CallEntry(t.d))], from, to)

(* A call that fails after flushing the accounts S; the EVM then reverts   *)
(* to the snapshot it took for the call.                                   *)
FailNativeAction(d, S, emitted) ==
  RevertMultiStore([SyncOrigin(d, S) EXCEPT !.cache = Append(cache(d), Last(cache(d))),
                                            !.events = @ \o emitted], CallEntry(d))

(* What the getters return. *)
World(d) ==
  [acct |-> [a \in {b \in Addrs : Exist(d, b)} |->
     LET o == getStateObject(d, a)
     IN  [balance |-> o.balance, nonce |-> o.nonce, code |-> o.code,
          slots |-> [k \in Keys |-> GetState(o, a, k)],
          selfDestructed |-> o.selfDestructed, newContract |-> o.newContract]],
   pool |-> Last(cache(d)).pool,
   refund |-> d.refund, logs |-> d.logs, warm |-> Warm(d.access), transient |-> d.transient]

-----------------------------------------------------------------------------
(* A transaction. *)

InitDB ==
  [objs |-> Empty, cache |-> << >>, events |-> << >>, writes |-> {}, emitted |-> << >>,
   refund |-> 0, logs |-> 0, access |-> EmptyAccessList,
   transient |-> [a \in Addrs |-> [k \in Keys |-> 0]]]

(* Prepare warms the sender, and a slot of it the transaction may list. *)
Prepared(a, K) ==
  LET al == AddAddress(EmptyAccessList, a)
  IN  IF K = {} THEN al ELSE AddSlot(al, a, CHOOSE k \in K : TRUE)

Init ==
  /\ plan \in Plans
  /\ store = [acct |-> [a \in Funded |-> [balance |-> 1, nonce |-> 0, code |-> a \in plan.contracts,
                                          slots |-> [k \in Keys |-> 0]]],
              pool |-> 1]
  /\ \E a \in Funded, K \in {{}, plan.keys} : db = [InitDB EXCEPT !.access = Prepared(a, K)]
  /\ journal = << >> /\ revs = << >> /\ calls = 0 /\ done = "open"
  /\ seen = << >>

Txn == [d |-> db, j |-> journal]

(* The effect of an operation that is not a snapshot, a revert or a commit. *)
Becomes(t) ==
  /\ done = "open"
  /\ Len(t.j) <= plan.entries
  /\ db' = t.d /\ journal' = t.j
  /\ UNCHANGED <<store, revs, done, seen, plan>>

(* The EVM moves value with a SubBalance and an AddBalance. *)
Transfer(a, b) ==
  /\ GetBalance(db, a) >= 1
  /\ Becomes(AddBalance(SubBalance(Txn, a, 1), b, 1))
  /\ UNCHANGED calls

SetNonce(a) ==
  /\ Exist(db, a) => getStateObject(db, a).nonce < plan.count
  /\ Becomes(SetNonceOf(Txn, a, IF Exist(db, a) THEN getStateObject(db, a).nonce + 1 ELSE 1))
  /\ UNCHANGED calls

(* The EVM creates an account only where there is none. *)
CreateAccount(a) ==
  /\ ~Exist(db, a)
  /\ Becomes(CreateAccountOf(Txn, a))
  /\ UNCHANGED calls

CreateContract(a) ==
  /\ Exist(db, a)
  /\ LET o == getStateObject(db, a)
     IN  /\ ~o.newContract /\ ~o.code /\ o.nonce = 0
         /\ Becomes(Journal([Txn EXCEPT !.d = setStateObject(db, a, [o EXCEPT !.newContract = TRUE])],
                            [kind |-> "createContract", account |-> a]))
  /\ UNCHANGED calls

(* The code a finished creation returns. *)
SetCode(a) ==
  /\ Exist(db, a) /\ getStateObject(db, a).newContract /\ ~getStateObject(db, a).code
  /\ Becomes(SetCodeOf(Txn, a))
  /\ UNCHANGED calls

(* The SELFDESTRUCT opcode: the balance goes to b, and a contract created  *)
(* in this transaction is marked for deletion.                             *)
SelfDestruct6780(a, b) ==
  /\ Exist(db, a) /\ getStateObject(db, a).code
  /\ LET x == GetBalance(db, a)
         t == AddBalance(SubBalance(Txn, a, x), b, x)
     IN  Becomes(IF getStateObject(db, a).newContract THEN SelfDestructOf(t, a) ELSE t)
  /\ UNCHANGED calls

SetState(a, k, v) ==
  /\ Exist(db, a) /\ getStateObject(db, a).code
  /\ Becomes(SetStateOf(Txn, a, k, v))
  /\ UNCHANGED calls

SetTransientState(a, k, v) ==
  /\ db.transient[a][k] # v
  /\ Becomes(Journal([Txn EXCEPT !.d.transient[a][k] = v],
                     [kind |-> "transient", account |-> a, key |-> k, prev |-> db.transient[a][k]]))
  /\ UNCHANGED calls

AddRefund ==
  /\ db.refund < plan.count
  /\ Becomes(Journal([Txn EXCEPT !.d.refund = @ + 1], [kind |-> "refund", prev |-> db.refund]))
  /\ UNCHANGED calls

SubRefund ==
  /\ db.refund > 0
  /\ Becomes(Journal([Txn EXCEPT !.d.refund = @ - 1], [kind |-> "refund", prev |-> db.refund]))
  /\ UNCHANGED calls

AddLog ==
  /\ db.logs < plan.count
  /\ Becomes(Journal([Txn EXCEPT !.d.logs = @ + 1], [kind |-> "log"]))
  /\ UNCHANGED calls

AddAddressToAccessList(a) ==
  /\ a \notin DOMAIN db.access.addresses
  /\ Becomes(Journal([Txn EXCEPT !.d.access = AddAddress(@, a)], [kind |-> "accessAddress", account |-> a]))
  /\ UNCHANGED calls

AddSlotToAccessList(a, k) ==
  LET added == [Txn EXCEPT !.d.access = AddSlot(@, a, k)]
      first == IF a \in DOMAIN db.access.addresses THEN added
               ELSE Journal(added, [kind |-> "accessAddress", account |-> a])
  IN  /\ ~(HasSlots(db.access, a) /\ k \in db.access.slots[db.access.addresses[a]])
      /\ Becomes(Journal(first, [kind |-> "accessSlot", account |-> a, key |-> k]))
      /\ UNCHANGED calls

-----------------------------------------------------------------------------
(* Precompile calls, snapshots and the commit. *)

AddPrecompileFn ==
  /\ done = "open" /\ calls < plan.tries
  /\ calls' = (calls + 1) % CounterSize

WithinLimit == (calls + 1) % CounterSize <= MaxPrecompileCalls

Dirty == sortedDirties(journal)

NativeReady == WithinLimit /\ CanFlush(Last(cache(db)), db, Dirty) /\ Len(db.events) < plan.count

CallPrecompile(from, to) ==
  /\ AddPrecompileFn
  /\ NativeReady
  /\ NativeBalance(Flushed(Last(cache(db)), db, Dirty), from) >= 1
  /\ Becomes(RunNativeAction(Txn, from, to))

(* The action, the gas charge or the balance handler fails: all accounts   *)
(* were flushed and the events of the action stay in the event manager.    *)
PrecompileFails ==
  /\ AddPrecompileFn
  /\ NativeReady
  /\ Becomes([Txn EXCEPT !.d = FailNativeAction(db, Dirty, <<Len(db.events) + 1>>)])

(* The call limit is reached, or the flush meets an account DeleteAccount  *)
(* refuses, after it has written some of the others.                       *)
PrecompileRefused ==
  /\ AddPrecompileFn
  /\ \/ ~WithinLimit /\ Becomes([Txn EXCEPT !.d = FailNativeAction(db, {}, << >>)])
     \/ /\ WithinLimit /\ ~CanFlush(Last(cache(db)), db, Dirty)
        /\ \E S \in SUBSET Dirty :
             /\ CanFlush(Last(cache(db)), db, S)
             /\ Becomes([Txn EXCEPT !.d = FailNativeAction(db, S, << >>)])

Snapshot ==
  /\ done = "open" /\ Len(revs) < plan.revisions
  /\ revs' = Append(revs, Len(journal))
  /\ seen' = Append(seen, World(db))
  /\ UNCHANGED <<store, db, journal, calls, done, plan>>

RevertToSnapshot(i) ==
  /\ done = "open"
  /\ LET t == Revert(Txn, revs[i]) IN db' = t.d /\ journal' = t.j
  /\ revs' = SubSeq(revs, 1, i - 1)
  /\ seen' = SubSeq(seen, 1, i - 1)
  /\ UNCHANGED <<store, calls, done, plan>>

(* writeCache, then the dirty objects into ctx. The StateDB is discarded;  *)
(* after an error so is everything the transaction wrote.                  *)
Commit ==
  LET w == Last(cache(db))
  IN  /\ done = "open"
      /\ IF CanFlush(w, db, Dirty)
         THEN /\ store' = Flushed(w, db, Dirty)
              /\ done' = "committed"
              /\ db' = [InitDB EXCEPT !.emitted = IF db.writes = {} THEN db.events
                                                  ELSE CHOOSE e \in db.writes : TRUE]
         ELSE store' = store /\ done' = "failed" /\ db' = InitDB
      /\ journal' = << >> /\ revs' = << >> /\ seen' = << >>
      /\ UNCHANGED <<calls, plan>>

AccountOps ==
  \/ \E a, b \in Addrs : Transfer(a, b) \/ SelfDestruct6780(a, b)
  \/ \E a \in Addrs : SetNonce(a) \/ CreateAccount(a) \/ CreateContract(a) \/ SetCode(a)

StorageOps == \E a \in Addrs, k \in plan.keys, v \in plan.vals : SetState(a, k, v)

ScratchOps ==
  \/ AddRefund \/ SubRefund \/ AddLog
  \/ \E a \in Addrs : AddAddressToAccessList(a)
  \/ \E a \in Addrs, k \in plan.keys : AddSlotToAccessList(a, k)
  \/ \E a \in Addrs, k \in plan.keys, v \in plan.vals : SetTransientState(a, k, v)

NativeOps == \E from, to \in Holders : CallPrecompile(from, to)

FailingOps == PrecompileFails \/ PrecompileRefused

Next ==
  \/ "account" \in plan.ops /\ AccountOps
  \/ "storage" \in plan.ops /\ StorageOps
  \/ "scratch" \in plan.ops /\ ScratchOps
  \/ "native" \in plan.ops /\ NativeOps
  \/ "failing" \in plan.ops /\ FailingOps
  \/ Snapshot
  \/ \E i \in DOMAIN revs : RevertToSnapshot(i)
  \/ Commit

Spec == Init /\ [][Next]_vars

-----------------------------------------------------------------------------
(* Properties. *)

(* A committed world keeps the accounts that did not destruct. *)
Settle(w) ==
  [acct |-> [a \in {b \in DOMAIN w.acct : ~w.acct[b].selfDestructed} |->
     [balance |-> w.acct[a].balance, nonce |-> w.acct[a].nonce, code |-> w.acct[a].code,
      slots |-> w.acct[a].slots]],
   pool |-> w.pool]

Open == [acct |-> Empty, pool |-> -1]

Lost == [acct |-> Empty, pool |-> -2]

TotalOf(w) == w.pool + MapThenSumSet(LAMBDA a : w.acct[a].balance, DOMAIN w.acct)

(* Balances never go below zero, the cache context exists once a precompile
   was called, journal and snapshot stack are ordered, and every account to
   be written back has a live object (commitWithCtx dereferences it). *)
TypeOK ==
  /\ done \in {"open", "committed", "failed"}
  /\ calls \in 0 .. CounterSize - 1
  /\ DOMAIN db.objs \subseteq Addrs /\ DOMAIN store.acct \subseteq Addrs
  /\ \A a \in DOMAIN db.objs : db.objs[a].balance >= 0
  /\ \A i \in DOMAIN revs : revs[i] \in 0 .. Len(journal)
  /\ Dirty \subseteq DOMAIN db.objs

Frame == INSTANCE Frames WITH
  world <- World(db),
  saved <- seen,
  final <- CASE done = "open" -> Open [] done = "committed" -> store [] done = "failed" -> Lost

(* The StateDB implements a stack of frames: whatever the EVM and its
   precompiles did since a snapshot, RevertToSnapshot brings back every
   account, slot, log, refund, warm address and transient value exactly as
   they were, nothing else disturbs an older snapshot, and Commit writes
   exactly the state the EVM sees (Snapshot, RevertToSnapshot, Commit). *)
ImplementsFrames == Frame!FSpec

(* A transaction moves coins and creates none: at every moment the coins of
   the visible accounts and of the module accounts add up to the initial
   total, unless a contract destroyed itself, and then to no more. SetBalance
   of the keeper mints and burns to match the StateDB, so nothing else would
   notice a missed balance event. *)
SupplyKept ==
  LET total   == Cardinality(Funded) + 1
      visible == Settle(World(db))
  IN  /\ done = "open" => TotalOf(visible) <= total
      /\ done = "open" /\ (\A e \in ToSet(journal) : e.kind # "selfDestruct") => TotalOf(visible) = total
      /\ TotalOf(store) <= total

Agree ==
  LET visible == Settle(World(db)).acct
      native  == Last(cache(db)).acct
  IN  \A a \in DOMAIN visible : a \in DOMAIN native /\ visible[a] = native[a]

(* When a precompile returns, its cache context and the StateDB agree on
   every account that was not destroyed: the flush before the action showed
   the precompile all the EVM had done, and the balance handler carried all
   the precompile did back (runNativeAction). *)
ContextsAgree ==
  [][calls' # calls /\ Len(journal') > Len(journal) => Agree']_vars

(* Flushing dirty slots into the cache context and syncing originStorage is
   safe even if the precompile reverts (the comment in commitWithCtx): at
   every moment Commit would write, for each live account, exactly the slot
   values GetState returns. *)
SlotsCommitted ==
  done = "open" =>
    LET w == Flushed(Last(cache(db)), db, Dirty)
    IN  \A a \in DOMAIN w.acct \cap DOMAIN db.objs, k \in Keys :
          w.acct[a].slots[k] = GetState(db.objs[a], a, k)
=============================================================================
