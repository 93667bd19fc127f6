--------------------------- MODULE LegacyPoolMaps ---------------------------
(* What each operator of LegacyPool does to the maps of the pool: they stay  *)
(* in step with each other, the reservations exact and the pending lists     *)
(* executable.  LegacyPoolProofs composes these facts into its invariant.    *)
EXTENDS LegacyPool, TLAPS

(* The lists of an account hold its own transactions, one per nonce        *)
Unique(list) == \A t, u \in list : t.nonce = u.nonce => t = u

Lists(p) ==
  \A a \in Accounts :
    /\ p.pending[a] \cap p.queue[a] = {}
    /\ \A t \in Held(p, a) : t.from = a
    /\ Unique(Held(p, a))

Lookup(p) == p.all = UNION {Held(p, a) : a \in Accounts}

Agreeing(p) == p \in PoolMaps /\ Lists(p) /\ Lookup(p)

Reserves(p) == p.reserved = {a \in Accounts : Held(p, a) # {}}

(* What is pending runs from the nonce of v to the virtual nonce           *)
ExecutableOn(p, v) ==
  \A a \in Accounts :
    /\ v.nonce[a] <= p.nonces[a]
    /\ Nonces(p.pending[a]) = v.nonce[a] .. (p.nonces[a] - 1)
    /\ \A t \in Held(p, a) : t.nonce >= v.nonce[a]
    /\ \A t \in p.pending[a] : t.cost <= v.balance[a]

(* The state the pool knows is an earlier one of the chain; without one    *)
(* nothing was added yet.                                                  *)
Behind ==
  /\ view # NoState =>
       ExecutableOn(pool, view) /\ \A a \in Accounts : view.nonce[a] <= chain.nonce[a]
  /\ view = NoState /\ ~ panicked => pool.all = {}

(* A block header is known only after a notification; while the context    *)
(* can be read, that left it cached.                                       *)
Readable ==
  /\ "block" \in {notified, loop.reset} => hashKnown
  /\ run # None /\ run.reset = "block" => hashKnown
  /\ hashKnown /\ ~ ContextFails => cached

(* Where the event of a pending transaction can be                         *)
Events ==
  /\ ~ ContextFails =>
       \A t \in Pending(pool) :
         t \in gossiped \/ t \in loop.events \/ (run # None /\ t \in run.events)
  /\ loop.launch => run # None
  /\ loop.events # {} => loop.launch \/ \E c \in Callers : asking[c] # None

PoolInv ==
  /\ config \in Configs /\ TypeOK
  /\ Agreeing(pool) /\ Reserves(pool) /\ PoolBounded
  /\ Behind /\ Readable /\ Events

(***************************************************************************)
(* Least, greatest, finite                                                 *)
(***************************************************************************)
(* What the lemmas use of sets of numbers and of finite sets.  It is proved  *)
(* in LegacyPoolProofs (FiniteSets): the lemmas here take it as a hypothesis *)
(* to be free of the library it is proved from.                              *)
FiniteSetFacts ==
  /\ \A S \in SUBSET Nat : S # {} =>
       /\ \E x \in S : \A y \in S : x <= y
       /\ IsFiniteSet(S) => \E x \in S : \A y \in S : y <= x
  /\ \A S, T : IsFiniteSet(S) /\ T \subseteq S =>
       /\ IsFiniteSet(T) /\ Cardinality(T) \in Nat
       /\ Cardinality(S) \in Nat /\ Cardinality(T) <= Cardinality(S)
       /\ Cardinality(S \ T) = Cardinality(S) - Cardinality(T)
  /\ \A S, x : IsFiniteSet(S) /\ x \notin S =>
       IsFiniteSet(S \cup {x}) /\ Cardinality(S \cup {x}) = Cardinality(S) + 1
  /\ \A f : IsFiniteSet(DOMAIN f) => IsFiniteSet({f[x] : x \in DOMAIN f})
  /\ \A m, n \in Int : IsFiniteSet(m .. n)
  /\ IsFiniteSet({}) /\ Cardinality({}) = 0

Setting == config \in Configs /\ FiniteSetFacts

(* The least of a non-empty set of nonces is in it and below all of it.    *)
LEMMA LeastOf ==
  ASSUME Setting, NEW S, S \subseteq Nat, S # {}
  PROVE  Min(S) \in S /\ \A y \in S : Min(S) <= y
<1>1. PICK x \in S : \A y \in S : x <= y
  BY Zenon DEF Setting, FiniteSetFacts
<1> QED BY <1>1, Zenon DEF Min

(* The greatest of a finite non-empty set of nonces is in it and above all *)
(* of it.                                                                  *)
LEMMA GreatestOf ==
  ASSUME Setting, NEW S, S \subseteq Nat, S # {}, IsFiniteSet(S)
  PROVE  Max(S) \in S /\ \A y \in S : y <= Max(S)
<1>1. PICK x \in S : \A y \in S : y <= x
  BY Zenon DEF Setting, FiniteSetFacts
<1>2. \A y \in S : x >= y
  BY <1>1, Zenon
<1>3. Max(S) \in S /\ \A y \in S : Max(S) >= y
  BY <1>2, Zenon DEF Max
<1> QED BY <1>3, Zenon

(* The part of FiniteSetFacts on cardinalities                             *)
LEMMA SubsetOf ==
  ASSUME Setting, NEW S, IsFiniteSet(S), NEW T, T \subseteq S
  PROVE  /\ IsFiniteSet(T) /\ Cardinality(T) \in Nat /\ Cardinality(S) \in Nat
         /\ Cardinality(T) <= Cardinality(S)
         /\ Cardinality(S \ T) = Cardinality(S) - Cardinality(T)
BY Zenon DEF Setting, FiniteSetFacts

(* The values of a function on a finite set are finitely many.             *)
LEMMA ImageOf ==
  ASSUME Setting, NEW f, IsFiniteSet(DOMAIN f)
  PROVE  IsFiniteSet({f[x] : x \in DOMAIN f})
<1>1. \A g : IsFiniteSet(DOMAIN g) => IsFiniteSet({g[x] : x \in DOMAIN g})
  BY Zenon DEF Setting, FiniteSetFacts
<1> QED BY <1>1, Zenon

(* The empty set is finite and has no element.                             *)
LEMMA EmptyOf ==
  ASSUME Setting
  PROVE  IsFiniteSet({}) /\ Cardinality({}) = 0
BY Zenon DEF Setting, FiniteSetFacts

(* A finite list has finitely many nonces.                                 *)
LEMMA NoncesFinite ==
  ASSUME Setting, NEW list, IsFiniteSet(list)
  PROVE  IsFiniteSet(Nonces(list))
<1> DEFINE f == [t \in list |-> t.nonce]
<1>1. DOMAIN f = list /\ {f[x] : x \in DOMAIN f} = Nonces(list)
  BY Zenon DEF Nonces
<1> HIDE DEF f
<1> QED BY <1>1, ImageOf, Zenon

(* What the assumptions say of the instance the pool runs on               *)
LEMMA Instance ==
  ASSUME Setting
  PROVE  /\ IsFiniteSet(Accounts) /\ IsFiniteSet(Txs) /\ None \notin Accounts
         /\ \A t \in Txs : t.nonce \in Nat /\ t.from \in Accounts /\ t.cost \in Nat
         /\ AccountSlots \in Nat \ {0} /\ GlobalSlots \in Nat \ {0}
         /\ AccountQueue \in Nat \ {0} /\ GlobalQueue \in Nat \ {0}
         /\ MaxNonce \in Nat /\ Balances \subseteq Nat /\ ContextFails \in BOOLEAN
         /\ Movers \subseteq Accounts /\ Delegates \subseteq Accounts
<1>1. Txs \subseteq Tx(Accounts)
  BY PoolAssumption, Zenon DEF Txs, Accounts, Setting
<1>2. \A t \in Txs : t.nonce \in Nat /\ t.from \in Accounts /\ t.cost \in Nat
  BY <1>1, Zenon DEF Tx
<1> QED BY <1>2, PoolAssumption, NoneAssumption, Zenon
        DEF Setting, Txs, Accounts, AccountSlots, GlobalSlots, AccountQueue, GlobalQueue, MaxNonce,
            Balances, Movers, Delegates, ContextFails

(* A list of transactions is finite, and so are its nonces.                *)
LEMMA ListFinite ==
  ASSUME Setting, NEW list \in SUBSET Txs
  PROVE  /\ IsFiniteSet(list) /\ Cardinality(list) \in Nat
         /\ Nonces(list) \subseteq Nat /\ IsFiniteSet(Nonces(list))
         /\ \A t \in list : t.nonce \in Nat
<1>1. IsFiniteSet(list)
  BY Instance, SubsetOf, Zenon
<1>2. \A t \in list : t.nonce \in Nat
  BY Instance, Zenon
<1>3. Cardinality(list) \in Nat
  BY Instance, SubsetOf, Zenon
<1>4. IsFiniteSet(Nonces(list))
  BY <1>1, NoncesFinite, Zenon
<1> QED BY <1>1, <1>2, <1>3, <1>4, Zenon DEF Nonces

(***************************************************************************)
(* Lists                                                                   *)
(***************************************************************************)
(* list.Add of transactions whose nonces are not in the list takes them    *)
(* all and displaces none.                                                 *)
LEMMA AddNew ==
  ASSUME NEW list, NEW new, \A t \in new, u \in list : t.nonce # u.nonce
  PROVE  Taken(list, new) = new /\ Displaced(list, new) = {} /\ AddAll(list, new) = list \cup new
<1>1. Taken(list, new) = new
  BY Zenon DEF Taken, Inserted, At
<1>2. Displaced(list, new) = {}
  BY <1>1, Zenon DEF Displaced, Nonces
<1> QED BY <1>1, <1>2, Zenon DEF AddAll

(* list.Cap keeps the lowest nonces, and something of a non-empty list.    *)
LEMMA CappedPrefix ==
  ASSUME Setting, NEW list \in SUBSET Txs, NEW n \in Nat \ {0}
  PROVE  /\ Capped(list, n) \subseteq list
         /\ \A t \in Capped(list, n), u \in list : u.nonce <= t.nonce => u \in Capped(list, n)
         /\ list # {} => Capped(list, n) # {}
<1> DEFINE Below(t) == {u \in list : u.nonce < t.nonce}
<1>1. ASSUME NEW t \in list
      PROVE  IsFiniteSet(Below(t)) /\ Cardinality(Below(t)) \in Nat
  <2>1. Below(t) \in SUBSET Txs
    BY Zenon
  <2> QED BY <2>1, ListFinite, Zenon
<1>2. ASSUME NEW t \in Capped(list, n), NEW u \in list, u.nonce <= t.nonce
      PROVE  u \in Capped(list, n)
  <2>1. t \in list /\ Cardinality(Below(t)) < n
    BY Zenon DEF Capped
  <2>2. Below(u) \in SUBSET Below(t)
    <3>1. \A w \in list : w.nonce \in Nat
      BY ListFinite, Zenon
    <3> QED BY <1>2, <2>1, <3>1
  <2>3. Cardinality(Below(u)) <= Cardinality(Below(t))
    BY <1>1, <2>1, <2>2, SubsetOf, Zenon
  <2>4. Cardinality(Below(u)) < n
    <3> HIDE DEF Below
    <3> QED BY <1>1, <2>1, <2>3
  <2> QED BY <2>4, Zenon DEF Capped
<1>3. ASSUME list # {} PROVE Capped(list, n) # {}
  <2>1. Nonces(list) \subseteq Nat /\ Nonces(list) # {}
    BY <1>3, ListFinite, Zenon DEF Nonces
  <2>2. PICK t \in list : \A u \in list : t.nonce <= u.nonce
    <3>1. Min(Nonces(list)) \in Nonces(list) /\ \A k \in Nonces(list) : Min(Nonces(list)) <= k
      BY <2>1, LeastOf, Zenon
    <3> QED BY <3>1, Zenon DEF Nonces
  <2>3. Below(t) = {}
    <3>1. \A w \in list : w.nonce \in Nat
      BY ListFinite, Zenon
    <3> QED BY <2>2, <3>1
  <2>4. Cardinality(Below(t)) < n
    BY <2>3, EmptyOf
  <2> QED BY <2>4, Zenon DEF Capped
<1> QED BY <1>2, <1>3, Zenon DEF Capped

(* Cutting a gapless list above some nonce leaves a gapless list, which    *)
(* ends where the cut begins.                                              *)
LEMMA CutRun ==
  ASSUME Setting, NEW list, NEW keep \in SUBSET list, keep # list,
         NEW lo \in Nat, NEW hi \in Nat, Nonces(list) = lo .. (hi - 1),
         \A t \in keep, u \in list : u.nonce <= t.nonce => u \in keep
  PROVE  /\ Min(Nonces(list \ keep)) \in lo .. (hi - 1)
         /\ Nonces(keep) = lo .. (Min(Nonces(list \ keep)) - 1)
<1> DEFINE m == Min(Nonces(list \ keep))
<1>1. \A t \in list : t.nonce \in lo .. (hi - 1)
  BY Zenon DEF Nonces
<1>2. Nonces(list \ keep) \subseteq Nat /\ Nonces(list \ keep) # {}
  <2>1. Nonces(list \ keep) \subseteq Nonces(list) /\ Nonces(list \ keep) # {}
    BY Zenon DEF Nonces
  <2>2. lo .. (hi - 1) \subseteq Nat
    OBVIOUS
  <2> QED BY <2>1, <2>2, Zenon
<1>3. m \in Nonces(list \ keep) /\ \A k \in Nonces(list \ keep) : m <= k
  BY <1>2, LeastOf, Zenon
<1> HIDE DEF m
<1>4. PICK c \in list \ keep : c.nonce = m
  BY <1>3, Zenon DEF Nonces
<1>5. ASSUME NEW t \in keep PROVE t.nonce \in lo .. (m - 1)
  <2>1. ~ (c.nonce <= t.nonce)
    BY <1>4, Zenon
  <2> QED BY <1>1, <1>4, <2>1
<1>6. ASSUME NEW n \in lo .. (m - 1) PROVE n \in Nonces(keep)
  <2>1. n \in lo .. (hi - 1)
    BY <1>1, <1>4
  <2>2. PICK t \in list : t.nonce = n
    BY <2>1, Zenon DEF Nonces
  <2>3. t \in keep
    <3>1. t \notin keep => n \in Nonces(list \ keep)
      BY <2>2, Zenon DEF Nonces
    <3>2. m \in Nat
      BY <1>1, <1>4
    <3>3. ~ (m <= n)
      BY <3>2
    <3> QED BY <3>1, <1>3, <3>3, Zenon
  <2> QED BY <2>2, <2>3, Zenon DEF Nonces
<1>7. Nonces(keep) = lo .. (m - 1)
  BY <1>5, <1>6, Zenon DEF Nonces
<1> QED BY <1>1, <1>4, <1>7, Zenon DEF m

(* list.Ready: what it returns is a gapless run from the lowest nonce of   *)
(* the list.                                                               *)
LEMMA ReadyRun ==
  ASSUME Setting, NEW list \in SUBSET Txs, NEW start \in Nat,
         Ready(list, start) # {}
  PROVE  LET r == Nonces(Ready(list, start))
         IN /\ Min(Nonces(list)) <= start
            /\ Min(Nonces(list)) \in Nonces(list)
            /\ Max(r) \in Nat /\ Min(Nonces(list)) <= Max(r)
            /\ r = Min(Nonces(list)) .. Max(r)
<1> DEFINE R == Ready(list, start)
           lo == Min(Nonces(list))
<1>1. list # {} /\ ~ (lo > start) /\ R = {t \in list : lo .. t.nonce \subseteq Nonces(list)}
  BY Zenon DEF Ready
<1>2. Nonces(list) \subseteq Nat /\ Nonces(list) # {} /\ \A t \in list : t.nonce \in Nat
  BY <1>1, ListFinite, Zenon DEF Nonces
<1>3. lo \in Nonces(list) /\ \A k \in Nonces(list) : lo <= k
  BY <1>2, LeastOf, Zenon
<1>4. R \in SUBSET Txs
  BY <1>1, Zenon
<1> DEFINE hi == Max(Nonces(R))
<1>5. hi \in Nonces(R) /\ \A k \in Nonces(R) : k <= hi
  <2> HIDE DEF R
  <2>1. Nonces(R) \subseteq Nat /\ IsFiniteSet(Nonces(R))
    BY <1>4, ListFinite, Zenon
  <2>2. Nonces(R) # {}
    BY Zenon DEF Nonces, R
  <2> QED BY <2>1, <2>2, GreatestOf, Zenon
<1> HIDE DEF R, lo, hi
<1>6. PICK h \in R : h.nonce = hi
  BY <1>5, Zenon DEF Nonces
<1>7. h \in list /\ lo .. hi \subseteq Nonces(list)
  BY <1>1, <1>6, Zenon
<1>8. lo \in Nat /\ hi \in Nat /\ lo <= hi
  <2>1. hi \in Nonces(list)
    BY <1>6, <1>7, Zenon DEF Nonces
  <2> QED BY <1>2, <1>3, <2>1, Zenon
<1>9. ASSUME NEW n \in lo .. hi PROVE n \in Nonces(R)
  <2>1. PICK t \in list : t.nonce = n
    BY <1>7, Zenon DEF Nonces
  <2>2. lo .. t.nonce \subseteq Nonces(list)
    BY <1>7, <1>8, <2>1
  <2> QED BY <1>1, <2>1, <2>2, Zenon DEF Nonces
<1>10. ASSUME NEW n \in Nonces(R) PROVE n \in lo .. hi
  <2>1. PICK t \in R : t.nonce = n
    BY Zenon DEF Nonces
  <2>2. n \in Nonces(list) /\ n <= hi
    BY <1>1, <1>5, <2>1, Zenon DEF Nonces
  <2> QED BY <1>2, <1>3, <1>8, <2>2
<1>11. Nonces(R) = lo .. hi
  BY <1>9, <1>10, Zenon
<1>12. lo <= start
  BY <1>1, <1>8
<1> QED BY <1>3, <1>8, <1>11, <1>12, Zenon DEF R, lo, hi

(* Ready only takes transactions of the list.                              *)
LEMMA ReadyWithin ==
  ASSUME NEW list, NEW start
  PROVE  Ready(list, start) \subseteq list
BY Zenon DEF Ready

(* promoteExecutables next to a pending list whose live part runs from v   *)
(* to h: what is ready continues it.                                       *)
Continues(list, h) ==
  /\ Max(Nonces(list)) \in Nat /\ h <= Max(Nonces(list))
  /\ Nonces(list) = h .. Max(Nonces(list))

(* What Ready takes from a queue continues the run of nonces of what is    *)
(* pending: a queue shares no nonce with it, so the first nonce taken is   *)
(* the one after the run.                                                  *)
LEMMA ReadyContinues ==
  ASSUME Setting, NEW P \in SUBSET Txs, NEW Q \in SUBSET Txs,
         NEW v \in Nat, NEW h \in Nat, v <= h, NEW start \in {v, h},
         Nonces({t \in P : t.nonce >= v}) = v .. (h - 1),
         \A t \in Q : t.nonce >= v,
         \A t \in Q, u \in P : t.nonce # u.nonce,
         NEW R, R = Ready(Q, start), R # {}
  PROVE  Continues(R, h)
<1> DEFINE r == Nonces(R)
           lo == Min(Nonces(Q))
<1>1. lo <= start /\ lo \in Nonces(Q) /\ Max(r) \in Nat /\ lo <= Max(r) /\ r = lo .. Max(r)
  BY ReadyRun, Zenon
<1> HIDE DEF r, lo
<1>2. PICK q \in Q : q.nonce = lo
  BY <1>1, Zenon DEF Nonces
<1>3. lo \in Nat /\ lo >= v
  BY <1>2, ListFinite, Zenon
<1>4. lo \notin v .. (h - 1)
  <2>1. SUFFICES ASSUME lo \in Nonces({t \in P : t.nonce >= v}) PROVE FALSE
    BY Zenon
  <2>2. PICK t \in P : t.nonce = lo
    BY <2>1, Zenon DEF Nonces
  <2> QED BY <1>2, <2>2, Zenon
<1>5. lo = h
  BY <1>1, <1>3, <1>4
<1> QED BY <1>1, <1>5, Zenon DEF r, Continues

(***************************************************************************)
(* The operators on the maps                                               *)
(***************************************************************************)
LEMMA MapsType ==
  ASSUME Setting, NEW p \in PoolMaps, NEW a \in Accounts
  PROVE  /\ p.pending[a] \in SUBSET Txs /\ p.queue[a] \in SUBSET Txs
         /\ p.pending \in [Accounts -> SUBSET Txs] /\ p.queue \in [Accounts -> SUBSET Txs]
         /\ Held(p, a) \in SUBSET Txs /\ p.nonces[a] \in Nat
         /\ \A t \in Held(p, a) : t.nonce \in Nat /\ t.cost \in Nat
<1>1. /\ p.pending[a] \in SUBSET Txs /\ p.queue[a] \in SUBSET Txs /\ p.nonces[a] \in Nat
      /\ p.pending \in [Accounts -> SUBSET Txs] /\ p.queue \in [Accounts -> SUBSET Txs]
  BY Zenon DEF PoolMaps, TxLists
<1> QED BY <1>1, Instance, Zenon DEF Held

(* A transaction of the lookup is in one of the lists of its sender.       *)
LEMMA InLookup ==
  ASSUME Setting, NEW p, Agreeing(p), NEW t \in p.all
  PROVE  t \in Txs /\ t.from \in Accounts /\ t \in Held(p, t.from)
<1>1. PICK a \in Accounts : t \in Held(p, a)
  BY Zenon DEF Agreeing, Lookup
<1>2. t.from = a
  BY <1>1, Zenon DEF Agreeing, Lists
<1> QED BY <1>1, <1>2, MapsType, Zenon DEF Agreeing

(* Maps that hold less, and whose lookup forgets exactly what they no      *)
(* longer hold, agree with each other if those before did.                 *)
LEMMA AgreeingLess ==
  ASSUME Setting, NEW p, Agreeing(p), NEW q \in PoolMaps, q.all \subseteq p.all,
         \A a \in Accounts : /\ Held(q, a) \subseteq Held(p, a)
                             /\ q.pending[a] \cap q.queue[a] = {}
                             /\ \A t \in Held(p, a) : t \in q.all <=> t \in Held(q, a)
  PROVE  Agreeing(q)
<1>1. Lists(q)
  BY Zenon DEF Agreeing, Lists, Unique
<1>2. ASSUME NEW t \in q.all PROVE t \in UNION {Held(q, a) : a \in Accounts}
  <2>1. t.from \in Accounts /\ t \in Held(p, t.from)
    BY InLookup, Zenon
  <2>2. t \in Held(q, t.from)
    BY <2>1, Zenon
  <2> QED BY <2>1, <2>2, Zenon
<1>3. ASSUME NEW a \in Accounts, NEW t \in Held(q, a) PROVE t \in q.all
  BY Zenon
<1>4. Lookup(q)
  BY <1>2, <1>3, Zenon DEF Lookup
<1> QED BY <1>1, <1>4, Zenon DEF Agreeing

(* removeTx of the transactions of drop: they leave, and what follows a    *)
(* pending one moves to the queue without displacing anything.             *)
Follows(p, drop, a) ==
  {t \in p.pending[a] \ drop : \E g \in drop \cap p.pending[a] : g.nonce < t.nonce}

Removed(p, q, drop, keep) ==
  /\ q.all = p.all \ drop /\ q.changes = p.changes
  /\ \A a \in Accounts :
       /\ q.pending[a] = p.pending[a] \ (drop \cup Follows(p, drop, a))
       /\ Held(q, a) = Held(p, a) \ drop
       /\ q.nonces[a] = IF drop \cap p.pending[a] = {} THEN p.nonces[a]
                        ELSE Lesser(p.nonces[a], Min(Nonces(drop \cap p.pending[a])))
  /\ q.reserved = p.reserved \ {a \in Accounts \ {keep} :
                    (\E t \in drop : t.from = a) /\ Held(p, a) \subseteq drop}

(* removeTx, from one transaction to many: the maps still agree, and what  *)
(* is dropped from the lists is dropped from the lookup.                   *)
LEMMA RemoveEffect ==
  ASSUME Setting, NEW p, Agreeing(p), NEW drop, NEW keep,
         NEW q, q = RemoveTxs(p, drop, keep)
  PROVE  Agreeing(q) /\ Removed(p, q, drop, keep)
<1> DEFINE gone(a) == drop \cap p.pending[a]
           after(a) == {t \in p.pending[a] \ gone(a) : \E g \in gone(a) : g.nonce < t.nonce}
           rest(a) == p.pending[a] \ (gone(a) \cup after(a))
           back(a) == AddAll(p.queue[a], after(a)) \ drop
<1>p. p \in PoolMaps
  BY Zenon DEF Agreeing
<1>a. ASSUME NEW a \in Accounts PROVE after(a) = Follows(p, drop, a)
  BY Zenon DEF Follows
<1>1. ASSUME NEW a \in Accounts
      PROVE  /\ Displaced(p.queue[a], after(a)) = {}
             /\ AddAll(p.queue[a], after(a)) = p.queue[a] \cup after(a)
  <2>1. \A t \in after(a), u \in p.queue[a] : t.nonce # u.nonce
    <3>1. after(a) \subseteq p.pending[a]
      BY Zenon
    <3>2. \A t \in p.pending[a], u \in p.queue[a] : t.nonce # u.nonce
      BY Zenon DEF Agreeing, Lists, Unique, Held
    <3> QED BY <3>1, <3>2, Zenon
  <2> HIDE DEF after
  <2> QED BY <2>1, AddNew, Zenon
<1>2. q = [p EXCEPT
       !.all = p.all \ (drop \cup UNION {Displaced(p.queue[a], after(a)) : a \in Accounts}),
       !.pending = [a \in Accounts |-> rest(a)],
       !.queue = [a \in Accounts |-> back(a)],
       !.nonces = [a \in Accounts |->
                     IF gone(a) = {} THEN p.nonces[a]
                     ELSE Lesser(p.nonces[a], Min(Nonces(gone(a))))],
       !.reserved = p.reserved \ {a \in Accounts \ {keep} :
                           /\ \E t \in drop : t.from = a
                           /\ rest(a) = {} /\ back(a) = {}}]
  BY Zenon DEF RemoveTxs
<1>3. UNION {Displaced(p.queue[a], after(a)) : a \in Accounts} = {}
  <2> HIDE DEF after
  <2> QED BY <1>1, Zenon
<1>4. /\ q.all = p.all \ drop /\ q.changes = p.changes
      /\ q.pending = [a \in Accounts |-> rest(a)]
      /\ q.queue = [a \in Accounts |-> back(a)]
      /\ q.nonces = [a \in Accounts |->
                     IF gone(a) = {} THEN p.nonces[a]
                     ELSE Lesser(p.nonces[a], Min(Nonces(gone(a))))]
      /\ q.reserved = p.reserved \ {a \in Accounts \ {keep} :
                           /\ \E t \in drop : t.from = a
                           /\ rest(a) = {} /\ back(a) = {}}
  <2> HIDE DEF rest, back, gone, after
  <2> QED BY <1>2, <1>3, <1>p DEF PoolMaps
<1>5. ASSUME NEW a \in Accounts
      PROVE  /\ rest(a) = p.pending[a] \ (drop \cup Follows(p, drop, a))
             /\ back(a) = (p.queue[a] \cup Follows(p, drop, a)) \ drop
             /\ Follows(p, drop, a) \subseteq p.pending[a]
  <2>1. back(a) = (p.queue[a] \cup Follows(p, drop, a)) \ drop
    <3> HIDE DEF after
    <3> QED BY <1>1, <1>a, Zenon
  <2>2. rest(a) = p.pending[a] \ (drop \cup Follows(p, drop, a))
    <3>1. rest(a) = p.pending[a] \ (gone(a) \cup Follows(p, drop, a))
      <4> HIDE DEF after
      <4> QED BY <1>a, Zenon
    <3> QED BY <3>1, Zenon
  <2> QED BY <2>1, <2>2, Zenon DEF Follows
<1> HIDE DEF rest, back, after
<1>6. ASSUME NEW a \in Accounts
      PROVE  /\ q.pending[a] = p.pending[a] \ (drop \cup Follows(p, drop, a))
             /\ q.queue[a] = (p.queue[a] \cup Follows(p, drop, a)) \ drop
             /\ Held(q, a) = Held(p, a) \ drop
             /\ q.pending[a] \cap q.queue[a] = {}
             /\ q.nonces[a] = IF gone(a) = {} THEN p.nonces[a]
                              ELSE Lesser(p.nonces[a], Min(Nonces(gone(a))))
  <2>1. q.pending[a] = p.pending[a] \ (drop \cup Follows(p, drop, a))
    BY <1>4, <1>5, Zenon
  <2>2. q.queue[a] = (p.queue[a] \cup Follows(p, drop, a)) \ drop
    BY <1>4, <1>5, Zenon
  <2>3. Follows(p, drop, a) \subseteq p.pending[a] \ drop /\ p.pending[a] \cap p.queue[a] = {}
    BY Zenon DEF Follows, Agreeing, Lists
  <2>4. q.nonces[a] = IF gone(a) = {} THEN p.nonces[a]
                      ELSE Lesser(p.nonces[a], Min(Nonces(gone(a))))
    BY <1>4, Zenon
  <2> QED BY <2>1, <2>2, <2>3, <2>4, Zenon DEF Held
<1>7. ASSUME NEW a \in Accounts PROVE q.nonces[a] \in Nat
  <2>1. p.nonces[a] \in Nat /\ gone(a) \in SUBSET Txs
    BY <1>p, MapsType, Zenon
  <2>2. gone(a) # {} => Min(Nonces(gone(a))) \in Nat
    <3> HIDE DEF gone
    <3>1. Nonces(gone(a)) \subseteq Nat
      BY <2>1, ListFinite, Zenon
    <3>2. gone(a) # {} => Nonces(gone(a)) # {}
      BY Zenon DEF Nonces
    <3> QED BY <3>1, <3>2, LeastOf, Zenon
  <2> HIDE DEF gone
  <2> QED BY <1>6, <2>1, <2>2, Zenon DEF Lesser
<1>8. q \in PoolMaps
  <2>1. /\ q.pending = [a \in Accounts |-> q.pending[a]] /\ q.queue = [a \in Accounts |-> q.queue[a]]
        /\ q.nonces = [a \in Accounts |-> q.nonces[a]]
    BY <1>4, Zenon
  <2>2. \A a \in Accounts : q.pending[a] \in SUBSET Txs /\ q.queue[a] \in SUBSET Txs
    <3>1. \A a \in Accounts : Held(p, a) \subseteq Txs
      BY <1>p, MapsType, Zenon DEF Held
    <3>2. \A a \in Accounts : q.pending[a] \subseteq Held(q, a) /\ q.queue[a] \subseteq Held(q, a)
      BY Zenon DEF Held
    <3> QED BY <1>6, <3>1, <3>2, Zenon
  <2>3. q.pending \in TxLists /\ q.queue \in TxLists /\ q.nonces \in [Accounts -> Nat]
    BY <2>1, <2>2, <1>7, Zenon DEF TxLists
  <2>4. q.all \in SUBSET Txs /\ q.changes \in Nat /\ q.reserved \in SUBSET Accounts
    BY <1>4, <1>p, Zenon DEF PoolMaps
  <2>5. q = [pending |-> q.pending, queue |-> q.queue, all |-> q.all, nonces |-> q.nonces,
             reserved |-> q.reserved, changes |-> q.changes]
    <3> HIDE DEF gone
    <3> QED BY <1>2, <1>p, Zenon DEF PoolMaps
  <2> QED BY <2>3, <2>4, <2>5, Zenon DEF PoolMaps
<1>9. Agreeing(q)
  <2>1. \A a \in Accounts : \A t \in Held(p, a) : t \in p.all
    BY Zenon DEF Agreeing, Lookup
  <2>2. q.all \subseteq p.all /\ \A a \in Accounts : \A t \in Held(p, a) : t \in q.all <=> t \in Held(q, a)
    BY <1>4, <1>6, <2>1
  <2>3. \A a \in Accounts : Held(q, a) \subseteq Held(p, a) /\ q.pending[a] \cap q.queue[a] = {}
    BY <1>6, Zenon
  <2> QED BY <1>8, <2>2, <2>3, AgreeingLess, Zenon
<1>10. ASSUME NEW a \in Accounts PROVE rest(a) = {} /\ back(a) = {} <=> Held(p, a) \subseteq drop
  BY <1>5, Zenon DEF Held, Follows
<1>11. q.reserved = p.reserved \ {a \in Accounts \ {keep} :
                              (\E t \in drop : t.from = a) /\ Held(p, a) \subseteq drop}
  BY <1>4, <1>10, Zenon
<1>12. Removed(p, q, drop, keep)
  BY <1>4, <1>6, <1>11, Zenon DEF Removed
<1> QED BY <1>9, <1>12, Zenon

(* An address is released exactly when its last transaction leaves; keep   *)
(* stays reserved.                                                         *)
LEMMA RemoveReserves ==
  ASSUME Setting, NEW p, Agreeing(p), Reserves(p),
         NEW drop \in SUBSET p.all, NEW keep, NEW q, q = RemoveTxs(p, drop, keep)
  PROVE  /\ \A a \in Accounts : Held(q, a) # {} => a \in q.reserved
         /\ \A a \in q.reserved : a \in Accounts /\ (Held(q, a) # {} \/ a = keep)
<1>1. /\ \A a \in Accounts : Held(q, a) = Held(p, a) \ drop
      /\ q.reserved = p.reserved \ {a \in Accounts \ {keep} :
                        (\E t \in drop : t.from = a) /\ Held(p, a) \subseteq drop}
  <2>1. Removed(p, q, drop, keep)
    BY RemoveEffect, Zenon
  <2> QED BY <2>1, Zenon DEF Removed
<1>2. ASSUME NEW a \in Accounts, Held(q, a) # {} PROVE a \in q.reserved
  BY <1>1, <1>2, Zenon DEF Reserves
<1>3. ASSUME NEW a \in q.reserved PROVE a \in Accounts /\ (Held(q, a) # {} \/ a = keep)
  <2>1. a \in Accounts /\ Held(p, a) # {}
    BY <1>1, Zenon DEF Reserves
  <2>2. ASSUME Held(q, a) = {}, a # keep PROVE FALSE
    <3>1. Held(p, a) \subseteq drop
      BY <1>1, <2>1, <2>2, Zenon
    <3>2. PICK t \in drop : t \in Held(p, a)
      BY <2>1, <3>1, Zenon
    <3>3. t.from = a
      BY <2>1, <3>2, Zenon DEF Agreeing, Lists
    <3> QED BY <1>1, <2>1, <2>2, <3>1, <3>3, Zenon
  <2> QED BY <2>1, <2>2, Zenon
<1> QED BY <1>2, <1>3, Zenon

(* What removeTx leaves pending is executable up to the new virtual nonce. *)
LEMMA RemoveExecutable ==
  ASSUME Setting, NEW p, Agreeing(p), NEW v, v.nonce \in [Accounts -> Nat],
         ExecutableOn(p, v), NEW drop, NEW keep, NEW q, q = RemoveTxs(p, drop, keep)
  PROVE  ExecutableOn(q, v)
<1>1. SUFFICES ASSUME NEW a \in Accounts
               PROVE  /\ v.nonce[a] <= q.nonces[a]
                      /\ Nonces(q.pending[a]) = v.nonce[a] .. (q.nonces[a] - 1)
                      /\ \A t \in Held(q, a) : t.nonce >= v.nonce[a]
                      /\ \A t \in q.pending[a] : t.cost <= v.balance[a]
  BY Zenon DEF ExecutableOn
<1> DEFINE gone == drop \cap p.pending[a]
           lo == v.nonce[a]
           hi == p.nonces[a]
<1>2. /\ q.pending[a] = p.pending[a] \ (drop \cup Follows(p, drop, a))
      /\ Held(q, a) = Held(p, a) \ drop
      /\ q.nonces[a] = IF gone = {} THEN hi ELSE Lesser(hi, Min(Nonces(gone)))
  <2>1. Removed(p, q, drop, keep)
    BY RemoveEffect, Zenon
  <2> QED BY <2>1, Zenon DEF Removed
<1>3. /\ lo <= hi /\ Nonces(p.pending[a]) = lo .. (hi - 1)
      /\ \A t \in Held(p, a) : t.nonce >= lo
      /\ \A t \in p.pending[a] : t.cost <= v.balance[a]
  BY Zenon DEF ExecutableOn
<1>4. lo \in Nat /\ hi \in Nat /\ p.pending[a] \in SUBSET Txs
  BY MapsType, Zenon DEF Agreeing
<1>5. (\A t \in Held(q, a) : t.nonce >= lo) /\ (\A t \in q.pending[a] : t.cost <= v.balance[a])
  BY <1>2, <1>3, Zenon
<1>6. CASE gone = {}
  <2>1. q.pending[a] = p.pending[a]
    BY <1>2, <1>6, Zenon DEF Follows
  <2> QED BY <1>2, <1>3, <1>5, <1>6, <2>1, Zenon
<1>7. CASE gone # {}
  <2> DEFINE P == p.pending[a]
             K == q.pending[a]
  <2>1. K \in SUBSET P /\ K # P /\ P \ K = gone \cup Follows(p, drop, a)
    BY <1>2, <1>7, Zenon DEF Follows
  <2>2. \A t \in P : t.nonce \in Nat
    BY <1>4, ListFinite, Zenon
  <2>3. ASSUME NEW t \in K, NEW u \in P, u.nonce <= t.nonce PROVE u \in K
    <3>1. t \in P /\ t.nonce \in Nat /\ u.nonce \in Nat
      BY <2>1, <2>2, Zenon
    <3>2. t \notin drop /\ \A g \in gone : ~ (g.nonce < t.nonce)
      BY <1>2, Zenon DEF Follows
    <3>3. u \notin gone
      <4>1. ASSUME u \in gone PROVE FALSE
        <5>1. u.nonce = t.nonce
          BY <2>3, <3>1, <3>2, <4>1
        <5>2. u = t
          BY <3>1, <5>1, Zenon DEF Agreeing, Lists, Unique, Held
        <5> QED BY <3>2, <4>1, <5>2, Zenon
      <4> QED BY <4>1, Zenon
    <3>4. u \notin Follows(p, drop, a)
      <4>1. ASSUME NEW g \in gone, g.nonce < u.nonce PROVE FALSE
        BY <2>2, <2>3, <3>1, <3>2, <4>1
      <4> QED BY <4>1, Zenon DEF Follows
    <3> QED BY <1>2, <3>3, <3>4, Zenon
  <2> DEFINE m == Min(Nonces(P \ K))
  <2>4. m \in lo .. (hi - 1) /\ Nonces(K) = lo .. (m - 1)
    <3> HIDE DEF P, K, lo, hi
    <3> QED BY <1>3, <1>4, <2>1, <2>3, CutRun, ZenonT(60) DEF P, lo, hi
  <2>5. m = Min(Nonces(gone))
    <3>1. Nonces(P \ K) \subseteq Nat /\ Nonces(gone) \subseteq Nat
      BY <2>2, Zenon DEF Nonces
    <3>2. Nonces(P \ K) # {} /\ Nonces(gone) # {}
      BY <1>7, <2>1 DEF Nonces
    <3>3. m \in Nonces(P \ K) /\ \A n \in Nonces(P \ K) : m <= n
      BY <3>1, <3>2, LeastOf, Zenon
    <3>4. Min(Nonces(gone)) \in Nonces(gone) /\ \A n \in Nonces(gone) : Min(Nonces(gone)) <= n
      BY <3>1, <3>2, LeastOf, Zenon
    <3>5. PICK c \in P \ K : c.nonce = m
      BY <3>3, Zenon DEF Nonces
    <3>6. \A g \in gone : g \in P \ K /\ m <= g.nonce
      BY <2>1, <3>3 DEF Nonces
    <3>7. c \in gone
      <4>1. ASSUME c \in Follows(p, drop, a) PROVE FALSE
        <5>1. PICK g \in gone : g.nonce < c.nonce
          BY <4>1, Zenon DEF Follows
        <5>2. m <= g.nonce
          BY <3>6, Zenon
        <5>3. g.nonce \in Nat /\ m \in Nat
          BY <2>2, <3>5, Zenon
        <5> HIDE DEF m
        <5> QED BY <3>5, <5>1, <5>2, <5>3
      <4> QED BY <2>1, <4>1, Zenon
    <3>8. Min(Nonces(gone)) <= m
      BY <3>4, <3>5, <3>7, Zenon DEF Nonces
    <3>9. m <= Min(Nonces(gone))
      BY <3>4, <3>6, Zenon DEF Nonces
    <3> QED
      <4> HIDE DEF m, gone, P, K
      <4>1. m \in Nat /\ Min(Nonces(gone)) \in Nat
        BY <3>1, <3>3, <3>4, Zenon
      <4> QED BY <3>8, <3>9, <4>1
  <2>6. q.nonces[a] = m
    <3> HIDE DEF m, gone
    <3>1. q.nonces[a] = Lesser(hi, m)
      BY <1>2, <1>7, <2>5, Zenon
    <3> HIDE DEF hi, lo
    <3> QED BY <1>4, <2>4, <3>1 DEF Lesser
  <2>7. lo <= q.nonces[a] /\ Nonces(q.pending[a]) = lo .. (q.nonces[a] - 1)
    BY <1>4, <2>4, <2>6
  <2> QED BY <1>5, <2>7, Zenon
<1> QED BY <1>6, <1>7, Zenon

(* The tail of add, when the list takes t: t replaces what the list it     *)
(* goes to has at its nonce.                                               *)
Placed(p, q, t) ==
  LET old == At(Target(p, t), t.nonce)
  IN /\ q.all = (p.all \ old) \cup {t} /\ q.changes = p.changes
     /\ q.nonces = p.nonces /\ q.reserved = p.reserved \cup {t.from}
     /\ \A a \in Accounts \ {t.from} :
          q.pending[a] = p.pending[a] /\ q.queue[a] = p.queue[a]
     /\ OverPending(p, t) =>
          /\ q.pending[t.from] = (p.pending[t.from] \ old) \cup {t}
          /\ q.queue[t.from] = p.queue[t.from]
     /\ ~ OverPending(p, t) =>
          /\ q.queue[t.from] = (p.queue[t.from] \ old) \cup {t}
          /\ q.pending[t.from] = p.pending[t.from]

(* list.Add of one transaction that is accepted replaces the one with its  *)
(* nonce.                                                                  *)
LEMMA AddOne ==
  ASSUME NEW list, NEW t, Inserted(list, t)
  PROVE  AddAll(list, {t}) = (list \ At(list, t.nonce)) \cup {t}
<1>1. Taken(list, {t}) = {t}
  BY Zenon DEF Taken
<1>2. Displaced(list, {t}) = At(list, t.nonce)
  BY <1>1, Zenon DEF Displaced, Nonces, At
<1> QED BY <1>1, <1>2, Zenon DEF AddAll

(* enqueueTx, or the replacement in the pending list: the maps still       *)
(* agree, and the only transaction lost is the one replaced.               *)
LEMMA PlaceEffect ==
  ASSUME Setting, NEW p, Agreeing(p), NEW t \in Txs, t \notin p.all,
         Inserted(Target(p, t), t), NEW q, q = Place(p, t)
  PROVE  Agreeing(q) /\ Placed(p, q, t)
<1> DEFINE b == t.from
           old == At(Target(p, t), t.nonce)
           r == [p EXCEPT !.all = (p.all \ old) \cup {t}, !.reserved = p.reserved \cup {b}]
<1>1. b \in Accounts /\ t.nonce \in Nat /\ p \in PoolMaps
  BY Instance, Zenon DEF Agreeing
<1>2. /\ p.pending \in [Accounts -> SUBSET Txs] /\ p.queue \in [Accounts -> SUBSET Txs]
      /\ p.all \in SUBSET Txs /\ p.reserved \in SUBSET Accounts
  BY <1>1, Zenon DEF PoolMaps, TxLists
<1>3. r \in PoolMaps /\ r.all = (p.all \ old) \cup {t} /\ r.reserved = p.reserved \cup {b}
      /\ r.pending = p.pending /\ r.queue = p.queue /\ r.nonces = p.nonces
      /\ r.changes = p.changes
  <2> HIDE DEF old, b
  <2> QED BY <1>1, <1>2, Zenon DEF PoolMaps, TxLists
<1>4. old \subseteq Target(p, t) /\ \A u \in old : u.nonce = t.nonce
  BY Zenon DEF At
<1>5. AddAll(Target(p, t), {t}) = (Target(p, t) \ old) \cup {t}
  BY AddOne, Zenon
<1>6. q = IF OverPending(p, t)
          THEN [r EXCEPT !.pending = [p.pending EXCEPT ![b] = AddAll(p.pending[b], {t})]]
          ELSE [r EXCEPT !.queue = [p.queue EXCEPT ![b] = AddAll(p.queue[b], {t})]]
  <2>1. q = IF OverPending(p, t)
            THEN [r EXCEPT !.pending = [r.pending EXCEPT ![b] = AddAll(p.pending[b], {t})]]
            ELSE [r EXCEPT !.queue = [r.queue EXCEPT ![b] = AddAll(p.queue[b], {t})]]
    BY Zenon DEF Place
  <2> HIDE DEF r
  <2> QED BY <1>3, <2>1, Zenon
<1> HIDE DEF r, old
<1>7. Placed(p, q, t) /\ q \in PoolMaps
  <2>1. CASE OverPending(p, t)
    <3>1. Target(p, t) = p.pending[b]
      BY <2>1, Zenon DEF Target
    <3>2. q = [r EXCEPT !.pending = [p.pending EXCEPT ![b] = (p.pending[b] \ old) \cup {t}]]
      BY <1>5, <1>6, <2>1, <3>1, Zenon
    <3>3. [p.pending EXCEPT ![b] = (p.pending[b] \ old) \cup {t}] \in [Accounts -> SUBSET Txs]
      BY <1>1, <1>2, Zenon
    <3>4. q \in PoolMaps
      BY <1>3, <3>2, <3>3, Zenon DEF PoolMaps, TxLists
    <3>5. /\ q.pending = [p.pending EXCEPT ![b] = (p.pending[b] \ old) \cup {t}]
          /\ q.queue = p.queue /\ q.all = r.all /\ q.nonces = r.nonces
          /\ q.reserved = r.reserved /\ q.changes = r.changes
      BY <1>3, <3>2, Zenon DEF PoolMaps
    <3> QED BY <1>1, <1>2, <1>3, <2>1, <3>4, <3>5, Zenon DEF Placed, old
  <2>2. CASE ~ OverPending(p, t)
    <3>1. Target(p, t) = p.queue[b]
      BY <2>2, Zenon DEF Target
    <3>2. q = [r EXCEPT !.queue = [p.queue EXCEPT ![b] = (p.queue[b] \ old) \cup {t}]]
      BY <1>5, <1>6, <2>2, <3>1, Zenon
    <3>3. [p.queue EXCEPT ![b] = (p.queue[b] \ old) \cup {t}] \in [Accounts -> SUBSET Txs]
      BY <1>1, <1>2, Zenon
    <3>4. q \in PoolMaps
      BY <1>3, <3>2, <3>3, Zenon DEF PoolMaps, TxLists
    <3>5. /\ q.queue = [p.queue EXCEPT ![b] = (p.queue[b] \ old) \cup {t}]
          /\ q.pending = p.pending /\ q.all = r.all /\ q.nonces = r.nonces
          /\ q.reserved = r.reserved /\ q.changes = r.changes
      BY <1>3, <3>2, Zenon DEF PoolMaps
    <3> QED BY <1>1, <1>2, <1>3, <2>2, <3>4, <3>5, Zenon DEF Placed, old
  <2> QED BY <2>1, <2>2, Zenon
<1>8. ASSUME NEW a \in Accounts, a # b PROVE Held(q, a) = Held(p, a)
  BY <1>7, <1>8, Zenon DEF Placed, Held
<1>9. t \notin Held(p, b) /\ \A u \in Held(p, b) : u.from = b
  BY <1>1 DEF Agreeing, Lookup, Lists
<1>10. old = At(Held(p, b), t.nonce)
  <2>1. Target(p, t) \subseteq Held(p, b)
    BY Zenon DEF Target, Held
  <2>2. ASSUME NEW u \in Held(p, b), u.nonce = t.nonce PROVE u \in Target(p, t)
    <3>1. CASE OverPending(p, t)
      <4>1. PICK w \in p.pending[b] : w.nonce = t.nonce
        BY <3>1, Zenon DEF OverPending, At
      <4>2. w = u
        BY <1>1, <2>2, <4>1 DEF Agreeing, Lists, Unique, Held
      <4> QED BY <3>1, <4>1, <4>2, Zenon DEF Target
    <3>2. CASE ~ OverPending(p, t)
      BY <2>2, <3>2, Zenon DEF OverPending, At, Target, Held
    <3> QED BY <3>1, <3>2, Zenon
  <2> QED BY <2>1, <2>2, Zenon DEF old, At
<1>11. /\ Held(q, b) = (Held(p, b) \ old) \cup {t}
       /\ q.pending[b] \cap q.queue[b] = {}
  <2>1. p.pending[b] \cap p.queue[b] = {} /\ t \notin p.pending[b] /\ t \notin p.queue[b]
    BY <1>1, <1>9, Zenon DEF Agreeing, Lists, Held
  <2>2. CASE OverPending(p, t)
    <3>1. old \cap p.queue[b] = {}
      BY <1>4, <2>1, <2>2, Zenon DEF Target
    <3> QED BY <1>7, <2>1, <2>2, <3>1, Zenon DEF Placed, Held, old
  <2>3. CASE ~ OverPending(p, t)
    <3>1. old \cap p.pending[b] = {}
      BY <1>4, <2>1, <2>3, Zenon DEF Target
    <3> QED BY <1>7, <2>1, <2>3, <3>1, Zenon DEF Placed, Held, old
  <2> QED BY <2>2, <2>3, Zenon
<1>12. Lists(q)
  <2>1. ASSUME NEW a \in Accounts, a # b
        PROVE  /\ q.pending[a] \cap q.queue[a] = {} /\ Unique(Held(q, a))
               /\ \A u \in Held(q, a) : u.from = a
    BY <1>7, <1>8, <2>1 DEF Placed, Agreeing, Lists
  <2>2. \A u \in Held(q, b) : u.from = b
    BY <1>9, <1>11, Zenon
  <2>3. Unique(Held(q, b))
    BY <1>1, <1>10, <1>11, Zenon DEF Agreeing, Lists, Unique, At
  <2> QED BY <2>1, <2>2, <2>3, <1>11, Zenon DEF Lists
<1>13. Lookup(q)
  <2>1. q.all = (p.all \ old) \cup {t}
    BY <1>7, Zenon DEF Placed, old
  <2>2. ASSUME NEW u \in q.all PROVE \E a \in Accounts : u \in Held(q, a)
    <3>1. CASE u = t
      BY <1>1, <1>11, <3>1, Zenon
    <3>2. CASE u # t
      <4>1. u \in p.all \ old
        BY <2>1, <3>2, Zenon
      <4>2. u.from \in Accounts /\ u \in Held(p, u.from)
        BY <4>1, InLookup, Zenon
      <4> QED BY <1>8, <1>11, <4>1, <4>2, Zenon
    <3> QED BY <3>1, <3>2, Zenon
  <2>3. ASSUME NEW a \in Accounts, NEW u \in Held(q, a) PROVE u \in q.all
    <3>1. CASE a = b
      BY <1>1, <1>11, <2>1, <3>1 DEF Agreeing, Lookup
    <3>2. CASE a # b
      <4>1. u \in Held(p, a) /\ u.from = a /\ u \in p.all
        BY <1>8, <3>2, Zenon DEF Agreeing, Lists, Lookup
      <4>2. u \notin old
        BY <1>9, <1>10, <3>2, <4>1, Zenon DEF At
      <4> QED BY <2>1, <4>1, <4>2, Zenon
    <3> QED BY <3>1, <3>2, Zenon
  <2> QED BY <2>2, <2>3, Zenon DEF Lookup
<1> QED BY <1>7, <1>12, <1>13, Zenon DEF Agreeing

(* A transaction that can be paid keeps the pending list executable.       *)
LEMMA PlaceExecutable ==
  ASSUME Setting, NEW p, Agreeing(p), NEW v, ExecutableOn(p, v),
         NEW t \in Txs, t.nonce >= v.nonce[t.from], t.cost <= v.balance[t.from],
         NEW q, Placed(p, q, t)
  PROVE  ExecutableOn(q, v)
<1> DEFINE b == t.from
<1>1. q.nonces = p.nonces
  BY Zenon DEF Placed
<1>2. ASSUME NEW a \in Accounts, a # b
      PROVE  q.pending[a] = p.pending[a] /\ Held(q, a) = Held(p, a)
  BY <1>2, Zenon DEF Placed, Held
<1>3. b \in Accounts
  BY Instance, Zenon
<1>4. (\A u \in Held(q, b) : u \in Held(p, b) \/ u = t) /\ (\A u \in q.pending[b] : u \in p.pending[b] \/ u = t)
  BY Zenon DEF Placed, Held
<1>5. Nonces(q.pending[b]) = Nonces(p.pending[b])
  <2>1. CASE OverPending(p, t)
    <3>1. Target(p, t) = p.pending[b] /\ q.pending[b] = (p.pending[b] \ At(p.pending[b], t.nonce)) \cup {t}
      BY <2>1, Zenon DEF Placed, Target
    <3>2. t.nonce \in Nonces(p.pending[b])
      BY <2>1, Zenon DEF OverPending, At, Nonces
    <3>3. ASSUME NEW u \in p.pending[b] PROVE u.nonce \in Nonces(q.pending[b])
      <4>1. CASE u.nonce = t.nonce
        BY <3>1, <4>1, Zenon DEF Nonces
      <4>2. CASE u.nonce # t.nonce
        BY <3>1, <4>2, Zenon DEF Nonces, At
      <4> QED BY <4>1, <4>2, Zenon
    <3>4. ASSUME NEW u \in q.pending[b] PROVE u.nonce \in Nonces(p.pending[b])
      BY <1>4, <3>2, Zenon DEF Nonces
    <3> QED BY <3>3, <3>4, Zenon DEF Nonces
  <2>2. CASE ~ OverPending(p, t)
    BY <2>2, Zenon DEF Placed
  <2> QED BY <2>1, <2>2, Zenon
<1>6. SUFFICES ASSUME NEW a \in Accounts
               PROVE  /\ v.nonce[a] <= q.nonces[a]
                      /\ Nonces(q.pending[a]) = v.nonce[a] .. (q.nonces[a] - 1)
                      /\ \A u \in Held(q, a) : u.nonce >= v.nonce[a]
                      /\ \A u \in q.pending[a] : u.cost <= v.balance[a]
  BY Zenon DEF ExecutableOn
<1>7. /\ v.nonce[a] <= p.nonces[a] /\ Nonces(p.pending[a]) = v.nonce[a] .. (p.nonces[a] - 1)
      /\ \A u \in Held(p, a) : u.nonce >= v.nonce[a]
      /\ \A u \in p.pending[a] : u.cost <= v.balance[a]
  BY Zenon DEF ExecutableOn
<1>8. CASE a = b
  BY <1>1, <1>4, <1>5, <1>7, <1>8, Zenon
<1>9. CASE a # b
  BY <1>1, <1>2, <1>7, <1>9, Zenon
<1> QED BY <1>8, <1>9, Zenon

(* promoteExecutables: what is ready moves to the pending list without     *)
(* displacing anything; of the rest, what is old, cannot be paid or        *)
(* exceeds AccountQueue leaves.                                            *)
Promotes(p, q, v, accounts) ==
  /\ q.changes = p.changes
  /\ \A a \in Accounts :
       LET R == Readies(p, v, accounts, a)
       IN /\ q.pending[a] = p.pending[a] \cup R
          /\ R \subseteq p.queue[a] /\ q.queue[a] \subseteq p.queue[a] \ R
          /\ a \in accounts => \A t \in q.queue[a] : t.nonce >= v.nonce[a]
          /\ q.nonces[a] = IF R = {} THEN p.nonces[a] ELSE Max(Nonces(R)) + 1

(* promoteExecutables moves the ready transactions of the accounts asked   *)
(* for from the queue to the pending lists and drops what is stale,        *)
(* unpayable or over the queue limit; the maps still agree.                *)
LEMMA PromoteEffect ==
  ASSUME Setting, NEW p, Agreeing(p), NEW v, NEW accounts \in SUBSET Accounts,
         NEW q, q = PromoteExecutables(p, v, accounts)
  PROVE  /\ Agreeing(q) /\ Promotes(p, q, v, accounts)
         /\ Reserves(p) => Reserves(q)
         /\ Promoted(p, v, accounts) = UNION {Readies(p, v, accounts, a) : a \in Accounts}
<1> DEFINE R(a) == Readies(p, v, accounts, a)
           kept(a) == IF a \in accounts THEN Capped(Payable(p, v, a) \ R(a), AccountQueue)
                      ELSE p.queue[a]
           taken(a) == Taken(p.pending[a], R(a))
           after(a) == AddAll(p.pending[a], R(a))
<1>p. p \in PoolMaps
  BY Zenon DEF Agreeing
<1>1. ASSUME NEW a \in Accounts
      PROVE  /\ R(a) \subseteq p.queue[a] /\ kept(a) \subseteq p.queue[a] \ R(a)
             /\ a \in accounts => \A t \in kept(a) : t.nonce >= v.nonce[a]
  <2>1. Payable(p, v, a) \subseteq p.queue[a] /\ \A t \in Payable(p, v, a) : t.nonce >= v.nonce[a]
    BY Zenon DEF Payable
  <2>2. R(a) = IF a \in accounts THEN Ready(Payable(p, v, a), p.nonces[a]) ELSE {}
    BY Zenon DEF Readies
  <2>3. R(a) \subseteq p.queue[a]
    BY <2>1, <2>2, ReadyWithin, Zenon
  <2> HIDE DEF R
  <2>4. a \in accounts => kept(a) \subseteq Payable(p, v, a) \ R(a)
    BY Zenon DEF Capped
  <2> QED BY <2>1, <2>2, <2>3, <2>4, Zenon
<1>2. ASSUME NEW a \in Accounts PROVE taken(a) = R(a) /\ after(a) = p.pending[a] \cup R(a)
  <2>1. \A t \in R(a), u \in p.pending[a] : t.nonce # u.nonce
    <3>1. \A t \in p.queue[a], u \in p.pending[a] : t.nonce # u.nonce
      BY Zenon DEF Agreeing, Lists, Unique, Held
    <3> QED BY <1>1, <3>1, Zenon
  <2> HIDE DEF R
  <2> QED BY <2>1, AddNew, Zenon
<1>3. q = [p EXCEPT
       !.all = p.all \ UNION {((p.queue[a] \cup p.pending[a]) \ (kept(a) \cup after(a))) :
                                a \in Accounts},
       !.pending = [a \in Accounts |-> after(a)],
       !.queue = [a \in Accounts |-> kept(a)],
       !.nonces = [a \in Accounts |->
                     IF taken(a) = {} THEN p.nonces[a] ELSE Max(Nonces(taken(a))) + 1],
       !.reserved = p.reserved \ {a \in accounts : /\ p.queue[a] # {}
                                          /\ kept(a) = {} /\ after(a) = {}}]
  BY Zenon DEF PromoteExecutables
<1> HIDE DEF kept, taken, after, R
<1>4. /\ q.all = p.all \ UNION {((p.queue[a] \cup p.pending[a]) \ (kept(a) \cup after(a))) :
                                a \in Accounts}
      /\ q.pending = [a \in Accounts |-> after(a)] /\ q.queue = [a \in Accounts |-> kept(a)]
      /\ q.nonces = [a \in Accounts |->
                     IF taken(a) = {} THEN p.nonces[a] ELSE Max(Nonces(taken(a))) + 1]
      /\ q.reserved = p.reserved \ {a \in accounts : /\ p.queue[a] # {}
                                          /\ kept(a) = {} /\ after(a) = {}}
      /\ q.changes = p.changes
  BY <1>3, <1>p, Zenon DEF PoolMaps
<1>5. ASSUME NEW a \in Accounts
      PROVE  /\ q.pending[a] = p.pending[a] \cup R(a) /\ q.queue[a] = kept(a)
             /\ q.nonces[a] = IF R(a) = {} THEN p.nonces[a] ELSE Max(Nonces(R(a))) + 1
  BY <1>2, <1>4
<1>6. Promotes(p, q, v, accounts)
  BY <1>1, <1>4, <1>5 DEF Promotes, R
<1>7. ASSUME NEW a \in Accounts PROVE q.nonces[a] \in Nat
  <2>1. p.nonces[a] \in Nat /\ R(a) \in SUBSET Txs
    BY <1>1, <1>p, MapsType, Zenon
  <2>2. Nonces(R(a)) \subseteq Nat /\ IsFiniteSet(Nonces(R(a)))
    BY <2>1, ListFinite, Zenon
  <2>3. R(a) # {} => Nonces(R(a)) # {}
    BY Zenon DEF Nonces
  <2>4. R(a) # {} => Max(Nonces(R(a))) \in Nat
    BY <2>2, <2>3, GreatestOf, Zenon
  <2> QED BY <1>5, <2>1, <2>4
<1>8. q \in PoolMaps
  <2>1. \A a \in Accounts : q.pending[a] \in SUBSET Txs /\ q.queue[a] \in SUBSET Txs
    BY <1>1, <1>5, <1>p, MapsType
  <2>2. q.pending \in TxLists /\ q.queue \in TxLists /\ q.nonces \in [Accounts -> Nat]
    BY <1>4, <1>7, <2>1, Zenon DEF TxLists
  <2>3. q.all \in SUBSET Txs /\ q.changes \in Nat /\ q.reserved \in SUBSET Accounts
    BY <1>4, <1>p, Zenon DEF PoolMaps
  <2>4. q = [pending |-> q.pending, queue |-> q.queue, all |-> q.all, nonces |-> q.nonces,
             reserved |-> q.reserved, changes |-> q.changes]
    BY <1>3, <1>p, Zenon DEF PoolMaps
  <2> QED BY <2>2, <2>3, <2>4, Zenon DEF PoolMaps
<1>9. ASSUME NEW a \in Accounts
      PROVE  /\ Held(q, a) \subseteq Held(p, a) /\ q.pending[a] \cap q.queue[a] = {}
             /\ Held(q, a) = kept(a) \cup after(a)
  <2>1. p.pending[a] \cap p.queue[a] = {}
    BY Zenon DEF Agreeing, Lists
  <2> QED BY <1>1, <1>2, <1>5, <2>1 DEF Held
<1>10. Agreeing(q)
  <2>1. ASSUME NEW a \in Accounts, NEW t \in Held(p, a) PROVE t \in q.all <=> t \in Held(q, a)
    <3>1. t \in p.all /\ t.from = a
      BY Zenon DEF Agreeing, Lookup, Lists
    <3>2. ASSUME NEW b \in Accounts, t \in (p.queue[b] \cup p.pending[b]) \ (kept(b) \cup after(b))
          PROVE  b = a
      BY <3>1, <3>2, Zenon DEF Agreeing, Lists, Held
    <3>3. t \in UNION {((p.queue[b] \cup p.pending[b]) \ (kept(b) \cup after(b))) : b \in Accounts}
          <=> t \in (p.queue[a] \cup p.pending[a]) \ (kept(a) \cup after(a))
      BY <3>2, Zenon
    <3> QED BY <1>4, <1>9, <3>1, <3>3, Zenon DEF Held
  <2>2. q.all \subseteq p.all
    BY <1>4, Zenon
  <2>3. \A a \in Accounts : Held(q, a) \subseteq Held(p, a) /\ q.pending[a] \cap q.queue[a] = {}
    BY <1>9, Zenon
  <2> QED BY <1>8, <2>1, <2>2, <2>3, AgreeingLess, Zenon
<1>11. ASSUME Reserves(p) PROVE Reserves(q)
  <2>1. ASSUME NEW a \in Accounts PROVE a \in q.reserved <=> Held(q, a) # {}
    <3>1. a \in p.reserved <=> Held(p, a) # {}
      BY <1>11, Zenon DEF Reserves
    <3>2. a \in q.reserved <=> a \in p.reserved /\ ~ (a \in accounts /\ p.queue[a] # {} /\ Held(q, a) = {})
      BY <1>4, <1>9
    <3>3. CASE a \in accounts
      BY <1>5, <1>9, <3>1, <3>2, <3>3, Zenon DEF Held
    <3>4. CASE a \notin accounts
      <4>1. kept(a) = p.queue[a]
        BY <3>4, Zenon DEF kept
      <4> QED BY <1>5, <1>9, <3>1, <3>2, <3>4, <4>1 DEF Held
    <3> QED BY <3>3, <3>4, Zenon
  <2>2. q.reserved \subseteq Accounts
    BY <1>4, <1>p, Zenon DEF PoolMaps
  <2> QED BY <2>1, <2>2, Zenon DEF Reserves
<1>12. Promoted(p, v, accounts) = UNION {R(a) : a \in Accounts}
  <2>1. {taken(a) : a \in Accounts} = {R(a) : a \in Accounts}
    BY <1>2, Zenon
  <2> QED BY <2>1, Zenon DEF Promoted, taken, R
<1> QED BY <1>6, <1>10, <1>11, <1>12, Zenon DEF R

(* The pending transactions that a state has not passed run on without a   *)
(* gap; the virtual nonce is at one end of them.                           *)
Live(p, v, a) == {t \in p.pending[a] : t.nonce >= v.nonce[a]}
Gapless(p, v, a, h) == v.nonce[a] <= h /\ Nonces(Live(p, v, a)) = v.nonce[a] .. (h - 1)
Resumable(p, v) ==
  \A a \in Accounts : \E h \in Nat : Gapless(p, v, a, h) /\ p.nonces[a] \in {v.nonce[a], h}

(* An executable pool has no stale transaction, and its pending nonces run *)
(* up to the pending nonce of the account.                                 *)
LEMMA ExecutableResumes ==
  ASSUME Setting, NEW p, Agreeing(p), NEW v, ExecutableOn(p, v),
         NEW a \in Accounts
  PROVE  Live(p, v, a) = p.pending[a] /\ p.nonces[a] \in Nat /\ Gapless(p, v, a, p.nonces[a])
<1>1. Live(p, v, a) = p.pending[a]
  BY Zenon DEF Live, ExecutableOn, Held
<1>2. p.nonces[a] \in Nat
  BY MapsType, Zenon DEF Agreeing
<1> QED BY <1>1, <1>2, Zenon DEF Gapless, ExecutableOn

(* Promotion goes on where the live pending transactions end.              *)
LEMMA PromoteGapless ==
  ASSUME Setting, NEW p, Agreeing(p), NEW v, v.nonce \in [Accounts -> Nat],
         v.balance \in [Accounts -> Nat], NEW accounts \in SUBSET Accounts, NEW q, Promotes(p, q, v, accounts),
         NEW a \in Accounts, NEW h \in Nat, Gapless(p, v, a, h),
         p.nonces[a] \in {v.nonce[a], h}
  PROVE  LET R == Readies(p, v, accounts, a)
         IN /\ R = {} => Gapless(q, v, a, h)
            /\ R # {} => /\ Gapless(q, v, a, Max(Nonces(R)) + 1)
                         /\ Max(Nonces(R)) \in Nat /\ h <= Max(Nonces(R))
            /\ \A t \in R : t.nonce >= v.nonce[a] /\ t.cost <= v.balance[a]
<1> DEFINE R == Readies(p, v, accounts, a)
           Q == Payable(p, v, a)
           lo == v.nonce[a]
<1>1. q.pending[a] = p.pending[a] \cup R
  BY Zenon DEF Promotes
<1>2. R = IF a \in accounts THEN Ready(Q, p.nonces[a]) ELSE {}
  BY Zenon DEF Readies
<1>3. /\ lo \in Nat /\ p.pending[a] \in SUBSET Txs /\ p.queue[a] \in SUBSET Txs
      /\ \A t \in Held(p, a) : t.nonce \in Nat /\ t.cost \in Nat
  BY MapsType, Zenon DEF Agreeing
<1>4. /\ Q \subseteq p.queue[a] /\ \A t \in Q : t.nonce >= lo
      /\ \A t \in Q : ~ (t.cost > v.balance[a])
  BY Zenon DEF Payable, TooCostly
<1>5. R \subseteq Q
  BY <1>2, ReadyWithin
<1>6. \A t \in Q, u \in p.pending[a] : t.nonce # u.nonce
  BY <1>4 DEF Agreeing, Lists, Unique, Held
<1>7. Live(q, v, a) = Live(p, v, a) \cup R
  BY <1>1, <1>4, <1>5, Zenon DEF Live
<1>8. CASE R = {}
  BY <1>7, <1>8, Zenon DEF Gapless
<1>9. ASSUME R # {} PROVE Continues(R, h)
  <2> HIDE DEF lo, Q, R
  <2>1. R = Ready(Q, p.nonces[a])
    BY <1>2, <1>9, Zenon
  <2>2. Q \in SUBSET Txs
    BY <1>3, <1>4, Zenon
  <2>3. Nonces({t \in p.pending[a] : t.nonce >= lo}) = lo .. (h - 1) /\ lo <= h
    BY Zenon DEF Gapless, Live, lo
  <2>4. p.nonces[a] \in {lo, h}
    BY Zenon DEF lo
  <2>5. lo \in Nat /\ p.pending[a] \in SUBSET Txs /\ \A t \in Q : t.nonce >= lo
    BY <1>3, <1>4, Zenon
  <2> QED BY <1>6, <1>9, <2>1, <2>2, <2>3, <2>4, <2>5, ReadyContinues, Zenon
<1>10. ASSUME R # {} PROVE Gapless(q, v, a, Max(Nonces(R)) + 1)
  <2> DEFINE m == Max(Nonces(R))
  <2>1. lo <= h /\ Nonces(Live(p, v, a)) = lo .. (h - 1)
    BY Zenon DEF Gapless
  <2>2. Nonces(Live(q, v, a)) = Nonces(Live(p, v, a)) \cup Nonces(R)
    <3> HIDE DEF R
    <3> QED BY <1>7, Zenon DEF Nonces
  <2>3. m \in Nat /\ h <= m /\ Nonces(R) = h .. m
    BY <1>9, <1>10, Zenon DEF Continues
  <2> HIDE DEF m, R
  <2>4. Nonces(Live(q, v, a)) = lo .. m
    BY <1>3, <2>1, <2>2, <2>3
  <2> QED BY <1>3, <2>1, <2>3, <2>4 DEF Gapless, m
<1>11. ASSUME NEW t \in R PROVE t.nonce >= lo /\ t.cost <= v.balance[a]
  <2>1. t \in Held(p, a) /\ ~ (t.cost > v.balance[a]) /\ t.nonce >= lo
    BY <1>4, <1>5, Zenon DEF Held
  <2> QED BY <1>3, <2>1
<1> QED BY <1>8, <1>9, <1>10, <1>11, Zenon DEF Continues

(* promoteExecutables keeps an executable pool executable on the same      *)
(* state.                                                                  *)
LEMMA PromoteExecutable ==
  ASSUME Setting, NEW p, Agreeing(p), NEW v, v.nonce \in [Accounts -> Nat],
         v.balance \in [Accounts -> Nat], NEW accounts \in SUBSET Accounts,
         NEW q, Promotes(p, q, v, accounts), ExecutableOn(p, v)
  PROVE  ExecutableOn(q, v)
<1>1. SUFFICES ASSUME NEW a \in Accounts
               PROVE  /\ v.nonce[a] <= q.nonces[a]
                      /\ Nonces(q.pending[a]) = v.nonce[a] .. (q.nonces[a] - 1)
                      /\ \A u \in Held(q, a) : u.nonce >= v.nonce[a]
                      /\ \A u \in q.pending[a] : u.cost <= v.balance[a]
  BY Zenon DEF ExecutableOn
<1> DEFINE h == p.nonces[a]
           R == Readies(p, v, accounts, a)
<1>2. h \in Nat /\ Gapless(p, v, a, h)
  BY ExecutableResumes, Zenon
<1>3. /\ q.pending[a] = p.pending[a] \cup R
      /\ R \subseteq p.queue[a] /\ q.queue[a] \subseteq p.queue[a] \ R
      /\ q.nonces[a] = IF R = {} THEN h ELSE Max(Nonces(R)) + 1
  BY Zenon DEF Promotes
<1>4. /\ R = {} => Gapless(q, v, a, h)
      /\ R # {} => Gapless(q, v, a, Max(Nonces(R)) + 1)
      /\ \A t \in R : t.cost <= v.balance[a]
  <2>1. h \in {v.nonce[a], h}
    BY Zenon
  <2> HIDE DEF h
  <2> QED BY <1>2, <2>1, PromoteGapless, Zenon DEF h
<1>5. Gapless(q, v, a, q.nonces[a])
  BY <1>3, <1>4, Zenon
<1>6. \A u \in Held(q, a) : u.nonce >= v.nonce[a]
  BY <1>3, Zenon DEF Held, ExecutableOn
<1>7. Live(q, v, a) = q.pending[a]
  BY <1>6, Zenon DEF Held, Live
<1>8. \A u \in q.pending[a] : u.cost <= v.balance[a]
  BY <1>3, <1>4, Zenon DEF ExecutableOn
<1> QED BY <1>5, <1>6, <1>7, <1>8, Zenon DEF Gapless

(* demoteUnexecutables leaves the front of the live transactions, up to    *)
(* the first that cannot be paid.                                          *)
Demotes(p, q, v) ==
  /\ q.nonces = p.nonces /\ q.changes = p.changes
  /\ \A a \in Accounts :
       /\ q.pending[a] \subseteq Live(p, v, a)
       /\ Held(q, a) \subseteq p.queue[a] \cup Live(p, v, a)
       /\ \A t \in q.pending[a] : ~ (t.cost > v.balance[a])
       /\ \A t \in q.pending[a], u \in Live(p, v, a) : u.nonce <= t.nonce => u \in q.pending[a]

(* demoteUnexecutables drops what is stale or unpayable and moves what     *)
(* follows a gap back to the queue; the maps still agree.                  *)
LEMMA DemoteEffect ==
  ASSUME Setting, NEW p, Agreeing(p), NEW v, v.nonce \in [Accounts -> Nat],
         NEW q, q = DemoteUnexecutables(p, v)
  PROVE  Agreeing(q) /\ Demotes(p, q, v) /\ (Reserves(p) => Reserves(q))
<1> DEFINE live(a) == {t \in p.pending[a] : t.nonce >= v.nonce[a]}
           drops(a) == TooCostly(live(a), v.balance[a])
           front(a) == live(a) \ (drops(a) \cup Invalids(live(a), drops(a)))
           rest(a) == IF At(front(a), v.nonce[a]) = {} THEN {} ELSE front(a)
           back(a) == live(a) \ (drops(a) \cup rest(a))
<1>p. p \in PoolMaps
  BY Zenon DEF Agreeing
<1>0. q = [p EXCEPT
       !.all = p.all \ UNION {(p.pending[a] \ (rest(a) \cup back(a)))
                            \cup Displaced(p.queue[a], back(a)) : a \in Accounts},
       !.pending = [a \in Accounts |-> rest(a)],
       !.queue = [a \in Accounts |-> AddAll(p.queue[a], back(a))],
       !.reserved = p.reserved \ {a \in Accounts : /\ p.pending[a] # {}
                                          /\ rest(a) = {} /\ p.queue[a] = {}
                                          /\ back(a) = {}}]
  BY Zenon DEF DemoteUnexecutables
<1>1. ASSUME NEW a \in Accounts
      PROVE  /\ rest(a) \subseteq live(a) /\ back(a) \subseteq live(a) \ rest(a)
             /\ live(a) = Live(p, v, a) /\ live(a) \subseteq p.pending[a]
             /\ \A t \in rest(a) : ~ (t.cost > v.balance[a])
  <2>1. rest(a) \subseteq front(a) /\ live(a) = Live(p, v, a) /\ live(a) \subseteq p.pending[a]
    BY Zenon DEF Live
  <2>2. \A t \in front(a) : ~ (t.cost > v.balance[a])
    BY Zenon DEF TooCostly
  <2> HIDE DEF front
  <2> QED BY <2>1, <2>2, Zenon DEF front
<1>2. ASSUME NEW a \in Accounts, NEW t \in rest(a), NEW u \in live(a), u.nonce <= t.nonce
      PROVE  u \in rest(a)
  <2>1. rest(a) = front(a) /\ t \in front(a)
    BY <1>2, Zenon
  <2>2. t \in live(a) \ drops(a) /\ \A r \in drops(a) : ~ (r.nonce < t.nonce)
    BY <2>1, Zenon DEF Invalids
  <2>3. drops(a) \subseteq live(a) /\ live(a) \subseteq p.pending[a]
    BY Zenon DEF TooCostly
  <2> HIDE DEF live, drops
  <2>4. /\ \A w \in live(a) : w.nonce \in Nat
        /\ \A w, x \in live(a) : w.nonce = x.nonce => w = x
    <3>1. \A w \in Held(p, a) : w.nonce \in Nat
      BY <1>p, MapsType, Zenon
    <3> QED BY <2>3, <3>1, Zenon DEF Held, Agreeing, Lists, Unique
  <2>5. u \notin drops(a)
    BY <1>2, <2>2, <2>4
  <2>6. u \notin Invalids(live(a), drops(a))
    <3>1. ASSUME NEW r \in drops(a), r.nonce < u.nonce PROVE FALSE
      BY <1>2, <2>2, <2>3, <2>4, <3>1
    <3> QED BY <3>1, Zenon DEF Invalids
  <2> QED BY <2>1, <2>5, <2>6, Zenon
<1> HIDE DEF live, drops, front, rest, back
<1>3. ASSUME NEW a \in Accounts
      PROVE  /\ Displaced(p.queue[a], back(a)) = {}
             /\ AddAll(p.queue[a], back(a)) = p.queue[a] \cup back(a)
  <2>1. \A t \in back(a), u \in p.queue[a] : t.nonce # u.nonce
    BY <1>1 DEF Agreeing, Lists, Unique, Held
  <2> QED BY <2>1, AddNew, Zenon
<1> DEFINE left(a) == p.pending[a] \ (rest(a) \cup back(a))
<1>4. /\ q.all = p.all \ UNION {left(a) : a \in Accounts}
      /\ q.pending = [a \in Accounts |-> rest(a)]
      /\ q.queue = [a \in Accounts |-> p.queue[a] \cup back(a)]
      /\ q.reserved = p.reserved \ {a \in Accounts : p.pending[a] # {} /\ rest(a) = {}
                                                     /\ p.queue[a] = {} /\ back(a) = {}}
      /\ q.nonces = p.nonces /\ q.changes = p.changes
  <2>1. UNION {left(a) \cup Displaced(p.queue[a], back(a)) : a \in Accounts}
          = UNION {left(a) : a \in Accounts}
    <3> HIDE DEF left
    <3> QED BY <1>3
  <2>2. [a \in Accounts |-> AddAll(p.queue[a], back(a))]
          = [a \in Accounts |-> p.queue[a] \cup back(a)]
    BY <1>3, Zenon
  <2> QED BY <1>0, <1>p, <2>1, <2>2, Zenon DEF PoolMaps
<1>5. ASSUME NEW a \in Accounts
      PROVE  /\ q.pending[a] = rest(a) /\ q.queue[a] = p.queue[a] \cup back(a)
             /\ Held(q, a) = p.queue[a] \cup rest(a) \cup back(a)
             /\ Held(q, a) \subseteq Held(p, a) /\ q.pending[a] \cap q.queue[a] = {}
  <2>1. p.pending[a] \cap p.queue[a] = {}
    BY Zenon DEF Agreeing, Lists
  <2>2. q.pending[a] = rest(a) /\ q.queue[a] = p.queue[a] \cup back(a)
    BY <1>4, Zenon
  <2> QED BY <1>1, <2>1, <2>2 DEF Held
<1>6. q \in PoolMaps
  <2>1. \A a \in Accounts : q.pending[a] \in SUBSET Txs /\ q.queue[a] \in SUBSET Txs
    BY <1>1, <1>5, <1>p, MapsType
  <2>2. q.pending \in TxLists /\ q.queue \in TxLists
    BY <1>4, <2>1, Zenon DEF TxLists
  <2>3. /\ q.all \in SUBSET Txs /\ q.changes \in Nat /\ q.reserved \in SUBSET Accounts
        /\ q.nonces \in [Accounts -> Nat]
    BY <1>4, <1>p, Zenon DEF PoolMaps
  <2>4. q = [pending |-> q.pending, queue |-> q.queue, all |-> q.all, nonces |-> q.nonces,
             reserved |-> q.reserved, changes |-> q.changes]
    BY <1>0, <1>p, Zenon DEF PoolMaps
  <2> QED BY <2>2, <2>3, <2>4, Zenon DEF PoolMaps
<1>7. Agreeing(q)
  <2>1. ASSUME NEW a \in Accounts, NEW t \in Held(p, a) PROVE t \in q.all <=> t \in Held(q, a)
    <3>1. t \in p.all /\ t.from = a /\ p.pending[a] \cap p.queue[a] = {}
      BY Zenon DEF Agreeing, Lookup, Lists
    <3>2. ASSUME NEW b \in Accounts, t \in left(b) PROVE b = a
      BY <3>1, <3>2, Zenon DEF Agreeing, Lists, Held
    <3>3. t \in UNION {left(b) : b \in Accounts} <=> t \in left(a)
      <4> HIDE DEF left
      <4> QED BY <3>2, Zenon
    <3> QED BY <1>4, <1>5, <3>1, <3>3 DEF Held
  <2>2. q.all \subseteq p.all
    BY <1>4, Zenon
  <2>3. \A a \in Accounts : Held(q, a) \subseteq Held(p, a) /\ q.pending[a] \cap q.queue[a] = {}
    BY <1>5, Zenon
  <2> QED BY <1>6, <2>1, <2>2, <2>3, AgreeingLess, Zenon
<1>8. ASSUME Reserves(p) PROVE Reserves(q)
  <2>1. ASSUME NEW a \in Accounts PROVE a \in q.reserved <=> Held(q, a) # {}
    <3>1. a \in p.reserved <=> Held(p, a) # {}
      BY <1>8, Zenon DEF Reserves
    <3>2. a \in q.reserved <=> a \in p.reserved /\ ~ (p.pending[a] # {} /\ Held(q, a) = {})
      BY <1>4, <1>5
    <3> QED BY <1>5, <3>1, <3>2 DEF Held
  <2>2. q.reserved \subseteq Accounts
    BY <1>4, <1>p, Zenon DEF PoolMaps
  <2> QED BY <2>1, <2>2, Zenon DEF Reserves
<1>9. Demotes(p, q, v)
  <2>1. ASSUME NEW a \in Accounts
        PROVE /\ q.pending[a] \subseteq Live(p, v, a)
              /\ Held(q, a) \subseteq p.queue[a] \cup Live(p, v, a)
              /\ \A t \in q.pending[a] : ~ (t.cost > v.balance[a])
              /\ \A t \in q.pending[a], u \in Live(p, v, a) :
                   u.nonce <= t.nonce => u \in q.pending[a]
    BY <1>1, <1>2, <1>5
  <2> QED BY <1>4, <2>1, Zenon DEF Demotes
<1> QED BY <1>7, <1>8, <1>9, Zenon

(* A run of nonces that ends before k has k - 1 as its greatest.           *)
LEMMA EndOfRun ==
  ASSUME Setting, NEW list, list # {}, IsFiniteSet(list), NEW lo \in Nat, NEW k \in Int,
         Nonces(list) = lo .. (k - 1)
  PROVE  Max(Nonces(list)) + 1 = k
<1>0. Nonces(list) # {}
  BY Zenon DEF Nonces
<1>1. Nonces(list) \subseteq Nat /\ Nonces(list) # {}
  BY <1>0
<1>2. IsFiniteSet(Nonces(list))
  BY NoncesFinite, Zenon
<1>3. Max(Nonces(list)) \in Nonces(list) /\ \A y \in Nonces(list) : y <= Max(Nonces(list))
  BY <1>1, <1>2, GreatestOf, Zenon
<1> QED BY <1>1, <1>3

(* A reset: what demotion leaves, with the virtual nonces set to its ends. *)
LEMMA DemoteExecutable ==
  ASSUME Setting, NEW p, Agreeing(p), NEW v, v.nonce \in [Accounts -> Nat],
         v.balance \in [Accounts -> Nat],
         \A a \in Accounts : \E h \in Nat : Gapless(p, v, a, h),
         \A a \in Accounts : \A t \in p.queue[a] : t.nonce >= v.nonce[a],
         NEW q, Agreeing(q), Demotes(p, q, v), NEW s, s = SetAllNonces(q, v)
  PROVE  Agreeing(s) /\ ExecutableOn(s, v) /\ (Reserves(q) => Reserves(s))
<1> DEFINE N(a) == IF q.pending[a] = {} THEN v.nonce[a] ELSE Max(Nonces(q.pending[a])) + 1
<1>1. s = [q EXCEPT !.nonces = [a \in Accounts |-> N(a)]]
  BY Zenon DEF SetAllNonces
<1>2. ASSUME NEW a \in Accounts
      PROVE  /\ N(a) \in Nat /\ v.nonce[a] <= N(a)
             /\ Nonces(q.pending[a]) = v.nonce[a] .. (N(a) - 1)
  <2> DEFINE lo == v.nonce[a]
             L == Live(p, v, a)
             K == q.pending[a]
  <2>1. PICK h \in Nat : lo <= h /\ Nonces(L) = lo .. (h - 1)
    BY Zenon DEF Gapless
  <2>2. lo \in Nat /\ K \subseteq L /\ IsFiniteSet(K)
    <3>1. K \in SUBSET Txs
      BY MapsType, Zenon DEF Agreeing
    <3> QED BY <3>1, ListFinite, Zenon DEF Demotes
  <2>3. \E k \in Nat : lo <= k /\ Nonces(K) = lo .. (k - 1)
    <3>1. CASE K = L
      BY <2>1, <3>1, Zenon
    <3>2. CASE K # L
      <4>1. \A t \in K, u \in L : u.nonce <= t.nonce => u \in K
        BY Zenon DEF Demotes
      <4> HIDE DEF K, L, lo
      <4>2. /\ Min(Nonces(L \ K)) \in lo .. (h - 1)
            /\ Nonces(K) = lo .. (Min(Nonces(L \ K)) - 1)
        BY <2>1, <2>2, <3>2, <4>1, CutRun, Zenon
      <4> QED BY <2>2, <4>2
    <3> QED BY <3>1, <3>2, Zenon
  <2>4. PICK k \in Nat : lo <= k /\ Nonces(K) = lo .. (k - 1)
    BY <2>3, Zenon
  <2> HIDE DEF K, lo
  <2>5. CASE K = {}
    <3>1. Nonces(K) = {}
      BY <2>5, Zenon DEF Nonces
    <3>2. k = lo
      <4>1. lo \notin lo .. (k - 1)
        BY <2>4, <3>1, Zenon
      <4> QED BY <2>2, <2>4, <4>1
    <3> QED BY <2>4, <2>5, <3>2, Zenon DEF K, lo
  <2>6. CASE K # {}
    <3>1. Max(Nonces(K)) + 1 = k
      BY <2>2, <2>4, <2>6, EndOfRun
    <3>2. N(a) = k
      BY <2>6, <3>1, Zenon DEF K
    <3> HIDE DEF N
    <3> QED BY <2>4, <3>2, Zenon DEF K, lo
  <2> QED BY <2>5, <2>6, Zenon
<1> HIDE DEF N
<1>3. /\ s.pending = q.pending /\ s.queue = q.queue /\ s.all = q.all
      /\ s.reserved = q.reserved /\ s.nonces = [a \in Accounts |-> N(a)]
      /\ s \in PoolMaps
  <2>1. q \in PoolMaps /\ [a \in Accounts |-> N(a)] \in [Accounts -> Nat]
    BY <1>2, Zenon DEF Agreeing
  <2> QED BY <1>1, <2>1, Zenon DEF PoolMaps
<1>4. \A a \in Accounts : Held(s, a) = Held(q, a)
  BY <1>3, Zenon DEF Held
<1>5. Agreeing(s) /\ (Reserves(q) => Reserves(s))
  BY <1>3, <1>4 DEF Agreeing, Lists, Lookup, Reserves
<1>6. ASSUME NEW a \in Accounts
      PROVE  /\ v.nonce[a] <= s.nonces[a]
             /\ Nonces(s.pending[a]) = v.nonce[a] .. (s.nonces[a] - 1)
             /\ \A u \in Held(s, a) : u.nonce >= v.nonce[a]
             /\ \A u \in s.pending[a] : u.cost <= v.balance[a]
  <2>1. \A u \in Held(s, a) : u.nonce >= v.nonce[a]
    BY <1>4, Zenon DEF Demotes, Live
  <2>2. \A u \in s.pending[a] : u.cost <= v.balance[a]
    <3>1. \A u \in q.pending[a] : u.cost \in Nat /\ ~ (u.cost > v.balance[a])
      BY MapsType, Zenon DEF Agreeing, Held, Demotes
    <3> QED BY <1>3, <3>1
  <2> QED BY <1>2, <1>3, <2>1, <2>2, Zenon
<1> QED BY <1>5, <1>6, Zenon DEF ExecutableOn

(* truncatePending cuts at a level of at least one.                        *)
LEMMA LevelPositive ==
  ASSUME Setting, NEW p \in PoolMaps, Accounts # {}
  PROVE  Level(p.pending) \in Nat \ {0}
<1> DEFINE f == [a \in Accounts |-> Cardinality(p.pending[a])]
           sizes == {Cardinality(p.pending[a]) : a \in Accounts}
           fits == {n \in AccountSlots .. Max(sizes) : Total(p.pending, n) <= GlobalSlots}
<1>1. sizes \subseteq Nat
  BY MapsType, ListFinite, Zenon
<1>2. DOMAIN f = Accounts /\ {f[x] : x \in DOMAIN f} = sizes
  BY Zenon
<1>3. IsFiniteSet(sizes)
  <2> HIDE DEF f, sizes
  <2> QED BY <1>2, Instance, ImageOf, Zenon
<1>4. sizes # {}
  BY Zenon
<1>5. Max(sizes) \in Nat
  <2> HIDE DEF sizes
  <2> QED BY <1>1, <1>3, <1>4, GreatestOf, Zenon
<1>6. AccountSlots \in Nat \ {0}
  BY Instance, Zenon
<1>7. fits \subseteq Nat \ {0} /\ IsFiniteSet(fits)
  <2> HIDE DEF sizes
  <2>1. IsFiniteSet(AccountSlots .. Max(sizes))
    BY <1>5, <1>6 DEF Setting, FiniteSetFacts
  <2>2. fits \in SUBSET (AccountSlots .. Max(sizes))
    BY Zenon
  <2>3. IsFiniteSet(fits)
    BY <2>1, <2>2, SubsetOf, Zenon
  <2>4. AccountSlots .. Max(sizes) \subseteq Nat \ {0}
    BY <1>5, <1>6
  <2> QED BY <2>2, <2>3, <2>4, Zenon
<1>8. fits # {} => Max(fits) \in fits
  <2> HIDE DEF fits
  <2> QED BY <1>7, GreatestOf, Zenon
<1>9. Level(p.pending) = IF fits = {} THEN AccountSlots ELSE Max(fits)
  BY Zenon DEF Level
<1> HIDE DEF fits
<1> QED BY <1>6, <1>7, <1>8, <1>9, Zenon

(* truncatePending cuts the ends of lists, and never a whole one.          *)
Truncates(p, q) ==
  /\ q.changes = p.changes
  /\ \A a \in Accounts :
       /\ q.queue[a] = p.queue[a] /\ q.pending[a] \subseteq p.pending[a]
       /\ p.pending[a] # {} => q.pending[a] # {}
       /\ \A t \in q.pending[a], u \in p.pending[a] : u.nonce <= t.nonce => u \in q.pending[a]
       /\ q.nonces[a] = IF p.pending[a] = q.pending[a] THEN p.nonces[a]
                        ELSE Lesser(p.nonces[a], Min(Nonces(p.pending[a] \ q.pending[a])))

(* truncatePending cuts the longest lists, from their highest nonces, and  *)
(* lowers the pending nonces of their accounts; the maps still agree.      *)
LEMMA TruncateEffect ==
  ASSUME Setting, NEW p, Agreeing(p), NEW q, q = TruncatePending(p)
  PROVE  Agreeing(q) /\ Truncates(p, q) /\ (Reserves(p) => Reserves(q))
<1> DEFINE kept(a) == Capped(p.pending[a], Level(p.pending))
           cut(a) == p.pending[a] \ kept(a)
<1>p. p \in PoolMaps
  BY Zenon DEF Agreeing
<1>0. q = [p EXCEPT
       !.all = p.all \ UNION {cut(a) : a \in Accounts},
       !.pending = [a \in Accounts |-> kept(a)],
       !.nonces = [a \in Accounts |-> IF cut(a) = {} THEN p.nonces[a]
                                      ELSE Lesser(p.nonces[a], Min(Nonces(cut(a))))]]
  BY Zenon DEF TruncatePending
<1>1. ASSUME NEW a \in Accounts
      PROVE  /\ kept(a) \subseteq p.pending[a] /\ (p.pending[a] # {} => kept(a) # {})
             /\ \A t \in kept(a), u \in p.pending[a] : u.nonce <= t.nonce => u \in kept(a)
  <2>1. Level(p.pending) \in Nat \ {0}
    BY <1>p, LevelPositive, Zenon
  <2>2. p.pending[a] \in SUBSET Txs
    BY <1>p, MapsType, Zenon
  <2> QED BY <2>1, <2>2, CappedPrefix, Zenon
<1> HIDE DEF kept
<1>2. /\ q.all = p.all \ UNION {cut(a) : a \in Accounts}
      /\ q.pending = [a \in Accounts |-> kept(a)] /\ q.queue = p.queue
      /\ q.nonces = [a \in Accounts |-> IF cut(a) = {} THEN p.nonces[a]
                                        ELSE Lesser(p.nonces[a], Min(Nonces(cut(a))))]
      /\ q.reserved = p.reserved /\ q.changes = p.changes
  <2> HIDE DEF cut
  <2> QED BY <1>0, <1>p, Zenon DEF PoolMaps
<1>3. ASSUME NEW a \in Accounts
      PROVE  /\ q.pending[a] = kept(a) /\ q.queue[a] = p.queue[a]
             /\ q.nonces[a] = IF p.pending[a] = q.pending[a] THEN p.nonces[a]
                              ELSE Lesser(p.nonces[a], Min(Nonces(p.pending[a] \ q.pending[a])))
  <2>1. q.pending[a] = kept(a) /\ q.queue[a] = p.queue[a]
    BY <1>2, Zenon
  <2>2. cut(a) = {} <=> p.pending[a] = kept(a)
    BY <1>1, Zenon
  <2>3. q.nonces[a] = IF cut(a) = {} THEN p.nonces[a]
                      ELSE Lesser(p.nonces[a], Min(Nonces(cut(a))))
    <3> HIDE DEF cut
    <3> QED BY <1>2, Zenon
  <2> QED BY <2>1, <2>2, <2>3, Zenon
<1>4. Truncates(p, q)
  BY <1>1, <1>2, <1>3 DEF Truncates
<1>5. ASSUME NEW a \in Accounts PROVE q.nonces[a] \in Nat
  <2>1. p.nonces[a] \in Nat /\ cut(a) \in SUBSET Txs
    BY <1>p, MapsType, Zenon
  <2> HIDE DEF cut
  <2>2. Nonces(cut(a)) \subseteq Nat
    BY <2>1, ListFinite, Zenon
  <2>3. cut(a) # {} => Nonces(cut(a)) # {}
    BY Zenon DEF Nonces
  <2>4. cut(a) # {} => Min(Nonces(cut(a))) \in Nat
    BY <2>2, <2>3, LeastOf, Zenon
  <2> QED BY <1>2, <2>1, <2>4, Zenon DEF Lesser
<1>6. q \in PoolMaps
  <2>1. \A a \in Accounts : q.pending[a] \in SUBSET Txs
    BY <1>1, <1>3, <1>p, MapsType, Zenon
  <2>2. q.pending \in TxLists /\ q.nonces \in [Accounts -> Nat]
    BY <1>2, <1>5, <2>1, Zenon DEF TxLists
  <2>3. /\ q.all \in SUBSET Txs /\ q.changes \in Nat /\ q.reserved \in SUBSET Accounts
        /\ q.queue \in TxLists
    BY <1>2, <1>p, Zenon DEF PoolMaps
  <2>4. q = [pending |-> q.pending, queue |-> q.queue, all |-> q.all, nonces |-> q.nonces,
             reserved |-> q.reserved, changes |-> q.changes]
    <3> HIDE DEF cut
    <3> QED BY <1>0, <1>p, Zenon DEF PoolMaps
  <2> QED BY <2>2, <2>3, <2>4, Zenon DEF PoolMaps
<1>7. Agreeing(q)
  <2>1. ASSUME NEW a \in Accounts, NEW t \in Held(p, a) PROVE t \in q.all <=> t \in Held(q, a)
    <3>1. t \in p.all /\ t.from = a /\ p.pending[a] \cap p.queue[a] = {}
      BY Zenon DEF Agreeing, Lookup, Lists
    <3>2. ASSUME NEW b \in Accounts, t \in cut(b) PROVE b = a
      BY <3>1, <3>2, Zenon DEF Agreeing, Lists, Held
    <3>3. t \in UNION {cut(b) : b \in Accounts} <=> t \in cut(a)
      <4> HIDE DEF cut
      <4> QED BY <3>2, Zenon
    <3> QED BY <1>2, <1>3, <3>1, <3>3 DEF Held
  <2>2. q.all \subseteq p.all
    BY <1>2, Zenon
  <2>3. \A a \in Accounts : Held(q, a) \subseteq Held(p, a) /\ q.pending[a] \cap q.queue[a] = {}
    <3>1. \A a \in Accounts : p.pending[a] \cap p.queue[a] = {}
      BY Zenon DEF Agreeing, Lists
    <3>2. \A a \in Accounts : q.pending[a] \subseteq p.pending[a] /\ q.queue[a] = p.queue[a]
      BY <1>1, <1>3, Zenon
    <3> QED BY <3>1, <3>2, Zenon DEF Held
  <2> QED BY <1>6, <2>1, <2>2, <2>3, AgreeingLess, Zenon
<1>8. ASSUME Reserves(p) PROVE Reserves(q)
  <2>1. ASSUME NEW a \in Accounts PROVE Held(q, a) # {} <=> Held(p, a) # {}
    BY <1>1, <1>3, Zenon DEF Held
  <2> QED BY <1>2, <1>8, <2>1, Zenon DEF Reserves
<1> QED BY <1>4, <1>7, <1>8, Zenon

(* truncatePending keeps an executable pool executable: it cuts a run of   *)
(* nonces at its end.                                                      *)
LEMMA TruncateExecutable ==
  ASSUME Setting, NEW p, Agreeing(p), NEW v, v.nonce \in [Accounts -> Nat],
         ExecutableOn(p, v), NEW q, Truncates(p, q)
  PROVE  ExecutableOn(q, v)
<1>1. SUFFICES ASSUME NEW a \in Accounts
               PROVE  /\ v.nonce[a] <= q.nonces[a]
                      /\ Nonces(q.pending[a]) = v.nonce[a] .. (q.nonces[a] - 1)
                      /\ \A t \in Held(q, a) : t.nonce >= v.nonce[a]
                      /\ \A t \in q.pending[a] : t.cost <= v.balance[a]
  BY Zenon DEF ExecutableOn
<1> DEFINE P == p.pending[a]
           K == q.pending[a]
           lo == v.nonce[a]
           hi == p.nonces[a]
           m == Min(Nonces(P \ K))
<1>2. /\ K \subseteq P /\ q.queue[a] = p.queue[a]
      /\ \A t \in K, u \in P : u.nonce <= t.nonce => u \in K
      /\ q.nonces[a] = IF P = K THEN hi ELSE Lesser(hi, m)
  BY Zenon DEF Truncates
<1>3. /\ lo <= hi /\ Nonces(P) = lo .. (hi - 1)
      /\ \A t \in Held(p, a) : t.nonce >= lo
      /\ \A t \in P : t.cost <= v.balance[a]
  BY Zenon DEF ExecutableOn
<1>4. lo \in Nat /\ hi \in Nat
  BY MapsType, Zenon DEF Agreeing
<1>5. (\A t \in Held(q, a) : t.nonce >= lo) /\ (\A t \in K : t.cost <= v.balance[a])
  BY <1>2, <1>3, Zenon DEF Held
<1>6. CASE P = K
  BY <1>2, <1>3, <1>5, <1>6, Zenon
<1>7. CASE P # K
  <2> HIDE DEF P, K, lo, hi
  <2>1. m \in lo .. (hi - 1) /\ Nonces(K) = lo .. (m - 1)
    BY <1>2, <1>3, <1>4, <1>7, CutRun, ZenonT(60)
  <2> HIDE DEF m
  <2>2. q.nonces[a] = m
    BY <1>2, <1>4, <1>7, <2>1 DEF Lesser
  <2>3. lo <= q.nonces[a] /\ Nonces(K) = lo .. (q.nonces[a] - 1)
    BY <1>4, <2>1, <2>2
  <2> QED BY <1>5, <2>3, Zenon DEF K, lo
<1> QED BY <1>6, <1>7, Zenon

(***************************************************************************)
(* A run of runReorg                                                       *)
(***************************************************************************)
LEMMA StateType ==
  ASSUME Setting, NEW v \in ChainState
  PROVE  /\ v.nonce \in [Accounts -> Nat] /\ v.balance \in [Accounts -> Nat]
         /\ \A a \in Accounts : v.nonce[a] \in Nat /\ v.balance[a] \in Nat
<1>1. 0 .. MaxNonce \subseteq Nat /\ Balances \subseteq Nat
  BY Instance
<1>2. v.nonce \in [Accounts -> 0 .. MaxNonce] /\ v.balance \in [Accounts -> Balances]
  BY Zenon DEF ChainState
<1> QED BY <1>1, <1>2, Zenon

(* The parts of a run of runReorg that was launched.                       *)
LEMMA RunType ==
  ASSUME Setting, TypeOK, run # None
  PROVE  run.reset \in Header /\ run.dirty \subseteq Accounts /\ run.events \subseteq Txs
BY Zenon DEF TypeOK, RunOf, Accounts, Txs

(* The live part of an executable list on a later state                    *)
LEMMA LaterState ==
  ASSUME Setting, NEW p, Agreeing(p), NEW w, NEW v,
         NEW a \in Accounts, w.nonce[a] \in Nat, v.nonce[a] \in Nat,
         ExecutableOn(p, w), w.nonce[a] <= v.nonce[a]
  PROVE  \E h \in Nat : Gapless(p, v, a, h)
<1> DEFINE c == v.nonce[a]
           lo == w.nonce[a]
           hi == p.nonces[a]
           h == IF hi < c THEN c ELSE hi
<1>1. lo <= hi /\ Nonces(p.pending[a]) = lo .. (hi - 1)
  BY Zenon DEF ExecutableOn
<1>2. hi \in Nat /\ c \in Nat /\ lo \in Nat /\ lo <= c
  BY MapsType, Zenon DEF Agreeing
<1>3. h \in Nat /\ c <= h
  BY <1>2
<1>4. ASSUME NEW n \in c .. (h - 1) PROVE n \in Nonces(Live(p, v, a))
  <2>1. n \in lo .. (hi - 1) /\ n >= c
    BY <1>2
  <2>2. PICK t \in p.pending[a] : t.nonce = n
    BY <1>1, <2>1, Zenon DEF Nonces
  <2> QED BY <2>1, <2>2, Zenon DEF Nonces, Live
<1>5. ASSUME NEW t \in Live(p, v, a) PROVE t.nonce \in c .. (h - 1)
  <2>1. t.nonce \in lo .. (hi - 1) /\ t.nonce >= c
    BY <1>1, Zenon DEF Live, Nonces
  <2> QED BY <1>2, <2>1
<1>6. Nonces(Live(p, v, a)) = c .. (h - 1)
  BY <1>4, <1>5, Zenon DEF Nonces
<1> QED BY <1>3, <1>6, Zenon DEF Gapless

(* What a run starts from: without a reset the pool as it is, otherwise    *)
(* lists that can be resumed on the new state.                             *)
LEMMA ResetEffect ==
  ASSUME Setting, TypeOK, Agreeing(pool), Reserves(pool), Behind,
         ~ panicked, run # None, NEW read \in BOOLEAN, StateAfter(read) # NoState,
         NEW p, p = ResetState(read), NEW v, v = StateAfter(read)
  PROVE  /\ v \in ChainState /\ Agreeing(p) /\ Reserves(p)
         /\ p.pending = pool.pending /\ p.queue = pool.queue
         /\ run.reset = None => p = pool /\ v = view
         /\ run.reset # None => Resumable(p, v)
         /\ run.reset # None /\ read => p.nonces = v.nonce
<1>1. None # "zero" /\ None # "block"
  BY NoneAssumption, Zenon
<1>2. run.reset \in {None, "block"}
  BY RunType, Zenon DEF Header, StateAfter
<1>3. chain \in ChainState /\ view \in ChainState \cup {NoState} /\ pool \in PoolMaps
  BY Zenon DEF TypeOK
<1>4. CASE run.reset = "block" /\ read
  <2>1. v = chain /\ p = [pool EXCEPT !.nonces = chain.nonce]
    BY <1>4, Zenon DEF StateAfter, ResetState
  <2>2. chain.nonce \in [Accounts -> Nat] /\ \A a \in Accounts : chain.nonce[a] \in Nat
    BY <1>3, StateType, Zenon
  <2>3. /\ p \in PoolMaps /\ p.pending = pool.pending /\ p.queue = pool.queue
        /\ p.all = pool.all /\ p.reserved = pool.reserved /\ p.nonces = chain.nonce
    BY <1>3, <2>1, <2>2, Zenon DEF PoolMaps
  <2>4. \A a \in Accounts : Held(p, a) = Held(pool, a)
    BY <2>3, Zenon DEF Held
  <2>5. Agreeing(p) /\ Reserves(p)
    BY <2>3, <2>4 DEF Agreeing, Lists, Lookup, Reserves
  <2>6. ASSUME NEW a \in Accounts PROVE \E h \in Nat : Gapless(p, v, a, h)
    <3>0. Live(p, v, a) = Live(pool, v, a)
      BY <2>3, Zenon DEF Live
    <3>1. CASE view = NoState
      <4>1. pool.pending[a] = {}
        BY <3>1 DEF Behind, Agreeing, Lookup, Held
      <4>2. Nonces(Live(p, v, a)) = {}
        BY <3>0, <4>1, Zenon DEF Live, Nonces
      <4>3. chain.nonce[a] .. (chain.nonce[a] - 1) = {}
        BY <2>2
      <4>4. chain.nonce[a] <= chain.nonce[a] /\ v.nonce[a] = chain.nonce[a]
        BY <2>1, <2>2
      <4>5. Nonces(Live(p, v, a)) = chain.nonce[a] .. (chain.nonce[a] - 1)
        BY <4>2, <4>3, Zenon
      <4>6. Gapless(p, v, a, chain.nonce[a])
        BY <4>4, <4>5, Zenon DEF Gapless
      <4> QED BY <2>2, <4>6, Zenon
    <3>2. CASE view # NoState
      <4>1. ExecutableOn(pool, view) /\ view.nonce[a] <= chain.nonce[a] /\ view \in ChainState
        BY <1>3, <3>2, Zenon DEF Behind
      <4>2. view.nonce[a] \in Nat
        BY <4>1, StateType, Zenon
      <4>3. \E h \in Nat : Gapless(pool, v, a, h)
        BY <2>1, <2>2, <4>1, <4>2, LaterState, Zenon
      <4> QED BY <3>0, <4>3, Zenon DEF Gapless
    <3> QED BY <3>1, <3>2, Zenon
  <2>7. Resumable(p, v)
    BY <2>1, <2>3, <2>6, Zenon DEF Resumable
  <2> QED BY <1>1, <1>3, <1>4, <2>1, <2>3, <2>5, <2>7, Zenon
<1>5. CASE ~ (run.reset = "block" /\ read)
  <2>1. v = view /\ p = pool
    BY <1>1, <1>2, <1>5, Zenon DEF StateAfter, ResetState
  <2>2. v \in ChainState /\ ExecutableOn(p, v)
    BY <1>3, <2>1, Zenon DEF Behind
  <2>3. Resumable(p, v)
    <3>1. ASSUME NEW a \in Accounts
          PROVE  \E h \in Nat : Gapless(p, v, a, h) /\ p.nonces[a] \in {v.nonce[a], h}
      <4>1. p.nonces[a] \in Nat /\ Gapless(p, v, a, p.nonces[a])
        BY <2>1, <2>2, ExecutableResumes, Zenon
      <4> QED BY <4>1, Zenon
    <3> QED BY <3>1, Zenon DEF Resumable
  <2>4. ~ (run.reset # None /\ read)
    BY <1>2, <1>5, Zenon
  <2> QED BY <2>1, <2>2, <2>3, <2>4, Zenon
<1> QED BY <1>4, <1>5, Zenon

(* What the locked section of runReorg leaves, up to the truncation of the *)
(* queue                                                                   *)
LEMMA ReorgEffect ==
  ASSUME Setting, TypeOK, Agreeing(pool), Reserves(pool), Behind,
         ~ panicked, run # None, NEW read \in BOOLEAN, StateAfter(read) # NoState,
         NEW v, v = StateAfter(read), NEW q, q = Reorganised(read)
  PROVE  /\ Agreeing(q) /\ Reserves(q) /\ ExecutableOn(q, v) /\ q.all \subseteq pool.all
         /\ Pending(q) \subseteq Pending(pool)
              \cup Promoted(ResetState(read), v, Promoting)
<1> DEFINE p == ResetState(read)
           r == PromoteExecutables(p, v, Promoting)
           d == DemoteUnexecutables(r, v)
           s == SetAllNonces(d, v)
           e == IF run.reset = None THEN r ELSE s
<1>1. q = TruncatePending(e)
  BY Zenon DEF Reorganised
<1>2. /\ v \in ChainState /\ Agreeing(p) /\ Reserves(p)
      /\ p.pending = pool.pending /\ p.queue = pool.queue
      /\ run.reset = None => p = pool /\ v = view
      /\ run.reset # None => Resumable(p, v)
  BY ResetEffect
<1>3. v.nonce \in [Accounts -> Nat] /\ v.balance \in [Accounts -> Nat]
  BY <1>2, StateType, Zenon
<1>4. Promoting \in SUBSET Accounts
  BY RunType, Zenon DEF Promoting
<1> HIDE DEF p
<1>5. /\ Agreeing(r) /\ Promotes(p, r, v, Promoting) /\ Reserves(r)
      /\ Promoted(p, v, Promoting) = UNION {Readies(p, v, Promoting, a) : a \in Accounts}
  <2> HIDE DEF r
  <2> QED BY <1>2, <1>4, PromoteEffect DEF r
<1> HIDE DEF r
<1>6. ASSUME NEW a \in Accounts
      PROVE  r.pending[a] \subseteq Pending(pool) \cup Promoted(p, v, Promoting)
  <2>1. r.pending[a] = pool.pending[a] \cup Readies(p, v, Promoting, a)
    BY <1>2, <1>5, Zenon DEF Promotes
  <2>2. pool.pending[a] \subseteq Pending(pool)
    BY Zenon DEF Pending
  <2> QED BY <1>5, <2>1, <2>2, Zenon
<1>7. /\ Agreeing(e) /\ Reserves(e) /\ ExecutableOn(e, v)
      /\ \A a \in Accounts : e.pending[a] \subseteq r.pending[a] /\ Held(e, a) \subseteq Held(r, a)
  <2>1. CASE run.reset = None
    <3>1. ExecutableOn(p, v)
      BY <1>2, <2>1, Zenon DEF Behind
    <3>2. ExecutableOn(r, v)
      BY <1>2, <1>3, <1>4, <1>5, <3>1, PromoteExecutable, Zenon
    <3> QED BY <1>5, <2>1, <3>2, Zenon
  <2>2. CASE run.reset # None
    <3>1. Promoting = Accounts
      BY <2>2, Zenon DEF Promoting
    <3>2. ASSUME NEW a \in Accounts PROVE \E h \in Nat : Gapless(r, v, a, h)
      <4>1. PICK h \in Nat : Gapless(p, v, a, h) /\ p.nonces[a] \in {v.nonce[a], h}
        BY <1>2, <2>2, Zenon DEF Resumable
      <4> DEFINE R == Readies(p, v, Promoting, a)
      <4>2. /\ R = {} => Gapless(r, v, a, h)
            /\ R # {} => Gapless(r, v, a, Max(Nonces(R)) + 1) /\ Max(Nonces(R)) \in Nat
        BY <1>2, <1>3, <1>4, <1>5, <4>1, PromoteGapless, Zenon
      <4> HIDE DEF R
      <4> QED BY <4>2
    <3>3. \A a \in Accounts : \A t \in r.queue[a] : t.nonce >= v.nonce[a]
      BY <1>5, <3>1, Zenon DEF Promotes
    <3>4. Agreeing(d) /\ Demotes(r, d, v) /\ Reserves(d)
      BY <1>3, <1>5, DemoteEffect, Zenon
    <3> HIDE DEF d
    <3>5. Agreeing(s) /\ ExecutableOn(s, v) /\ Reserves(s)
      BY <1>3, <1>5, <3>2, <3>3, <3>4, DemoteExecutable, Zenon
    <3>6. s.pending = d.pending /\ s.queue = d.queue
      BY <3>4, Zenon DEF SetAllNonces, Agreeing, PoolMaps
    <3> HIDE DEF s
    <3>7. \A a \in Accounts : s.pending[a] \subseteq r.pending[a]
      BY <3>4, <3>6, Zenon DEF Demotes, Live
    <3>8. \A a \in Accounts : Held(s, a) \subseteq Held(r, a)
      BY <3>4, <3>6, Zenon DEF Demotes, Live, Held
    <3> QED BY <2>2, <3>5, <3>7, <3>8, Zenon
  <2> QED BY <2>1, <2>2, Zenon
<1> HIDE DEF e
<1>8. Agreeing(q) /\ Truncates(e, q) /\ Reserves(q)
  BY <1>1, <1>7, TruncateEffect, Zenon
<1>9. ExecutableOn(q, v)
  BY <1>3, <1>7, <1>8, TruncateExecutable, Zenon
<1>10. ASSUME NEW a \in Accounts
       PROVE  q.pending[a] \subseteq Pending(pool) \cup Promoted(p, v, Promoting)
  BY <1>6, <1>7, <1>8, Zenon DEF Truncates
<1>11. Pending(q) \subseteq Pending(pool) \cup Promoted(p, v, Promoting)
  BY <1>10, Zenon DEF Pending
<1>12. ASSUME NEW a \in Accounts PROVE Held(q, a) \subseteq Held(pool, a)
  <2>1. Held(q, a) \subseteq Held(e, a)
    BY <1>8, Zenon DEF Truncates, Held
  <2>2. Held(r, a) \subseteq Held(pool, a)
    BY <1>2, <1>5, Zenon DEF Promotes, Held
  <2> QED BY <1>7, <2>1, <2>2, Zenon
<1>13. q.all \subseteq pool.all
  BY <1>8, <1>12 DEF Agreeing, Lookup
<1> QED BY <1>8, <1>9, <1>11, <1>13, Zenon DEF p

(***************************************************************************)
(* The steps                                                               *)
(***************************************************************************)
LEMMA TypeStep ==
  ASSUME config' = config, chain' \in ChainState, view' \in ChainState \cup {NoState},
         {cached', hashKnown', moved', busy', panicked'} \subseteq BOOLEAN,
         notified' \in Header, pool' \in PoolMaps,
         asking' \in [Callers -> (SUBSET Accounts) \cup {None}], loop' \in Requests,
         run' \in RunOf(config) \cup {None}, gossiped' \subseteq Txs
  PROVE  TypeOK'
<1>1. Accounts' = Accounts /\ Txs' = Txs /\ Balances' = Balances /\ MaxNonce' = MaxNonce
      /\ Delegates' = Delegates
  BY Zenon DEF Accounts, Txs, Balances, MaxNonce, Delegates
<1>2. ChainState' = ChainState /\ PoolMaps' = PoolMaps /\ Requests' = Requests
      /\ RunOf(config)' = RunOf(config) /\ Header' = Header
  BY <1>1, Zenon DEF ChainState, PoolMaps, TxLists, Requests, RunOf, Header
<1> QED BY <1>1, <1>2, Zenon DEF TypeOK

(* The invariants of the maps, of a value of pool                          *)
MapsOK == Agreeing(pool) /\ Reserves(pool) /\ PoolBounded

(* What a step has to show of the new maps.                                *)
LEMMA MapsStep ==
  ASSUME config' = config, NEW q, pool' = q, Agreeing(q), Reserves(q),
         Cardinality(q.all) <= GlobalSlots + GlobalQueue
  PROVE  MapsOK'
<1>1. Accounts' = Accounts /\ Txs' = Txs /\ GlobalSlots' = GlobalSlots
      /\ GlobalQueue' = GlobalQueue
  BY Zenon DEF Accounts, Txs, GlobalSlots, GlobalQueue
<1>2. Agreeing(pool)'
  BY <1>1 DEF Agreeing, PoolMaps, TxLists, Lists, Lookup, Held, Unique
<1>3. Reserves(pool)'
  BY <1>1, Zenon DEF Reserves, Held
<1> QED BY <1>1, <1>2, <1>3, Zenon DEF MapsOK, PoolBounded

(* What a step has to show of the new maps and the state they were checked *)
(* against.                                                                *)
LEMMA BehindStep ==
  ASSUME config' = config, NEW q, pool' = q, NEW v, view' = v,
         v # NoState => /\ ExecutableOn(q, v)
                        /\ \A a \in Accounts : v.nonce[a] <= chain'.nonce[a],
         v = NoState /\ ~ panicked' => q.all = {}
  PROVE  Behind'
<1>1. Accounts' = Accounts
  BY Zenon DEF Accounts
<1> QED BY <1>1, Zenon DEF Behind, ExecutableOn, Held

(* A step that leaves the chain and the pool alone keeps what relates      *)
(* them.                                                                   *)
LEMMA KeepMaps ==
  ASSUME MapsOK, Behind, UNCHANGED <<config, chain, view, pool, panicked>>
  PROVE  MapsOK' /\ Behind'
<1>1. MapsOK'
  BY MapsStep, Zenon DEF MapsOK, PoolBounded
<1>2. Behind'
  BY BehindStep, Zenon DEF Behind
<1> QED BY <1>1, <1>2, Zenon

(* What scheduleReorgLoop does with its locals l and the run r             *)
LEMMA ScheduledEffect ==
  ASSUME Setting, NEW l \in Requests, NEW r \in RunOf(config) \cup {None},
         Scheduled(l, r)
  PROVE  /\ loop' \in Requests /\ run' \in RunOf(config) \cup {None}
         /\ \A t \in l.events : t \in loop'.events \/ (run' # None /\ t \in run'.events)
         /\ r # None => run' = r
         /\ loop'.events # {} => loop' = l
         /\ loop'.launch => run' # None
         /\ loop'.reset = "block" => l.reset = "block"
         /\ run' # None /\ run'.reset = "block" /\ r = None => l.reset = "block"
<1>1. None # "zero" /\ None # "block" /\ None \notin RunOf(config)
  BY NoneAssumption, Zenon DEF Setting
<1>2. l.launch \in BOOLEAN /\ l.reset \in Header /\ l.dirty \in SUBSET Accounts
      /\ l.events \in SUBSET Txs
  BY Zenon DEF Requests
<1>3. CASE l.launch /\ r = None
  <2>1. /\ run' = [locked |-> FALSE, reset |-> l.reset, dirty |-> l.dirty, events |-> l.events]
        /\ loop' = NoRequest
    BY <1>3, Zenon DEF Scheduled
  <2>2. run' \in RunOf(config)
    BY <1>2, <2>1, Zenon DEF RunOf, Accounts, Txs
  <2>3. run' # None
    BY <1>1, <2>2, Zenon
  <2>4. /\ loop' \in Requests /\ loop'.events = {} /\ ~ loop'.launch /\ loop'.reset = None
    BY <2>1, Zenon DEF NoRequest, Requests, Header
  <2>5. run'.events = l.events /\ run'.reset = l.reset
    BY <2>1, Zenon
  <2> QED BY <1>1, <1>3, <2>2, <2>3, <2>4, <2>5, Zenon
<1>4. CASE ~ (l.launch /\ r = None)
  <2>1. run' = r /\ loop' = l
    BY <1>4, Zenon DEF Scheduled
  <2> QED BY <1>4, <2>1, Zenon
<1> QED BY <1>3, <1>4, Zenon

(* The pool starts with the invariant.                                     *)
LEMMA InitInv ==
  ASSUME Setting, Init
  PROVE  PoolInv
<1>1. config \in Configs
  BY Zenon DEF Init
<1>2. /\ IsFiniteSet(Balances) /\ Balances # {} /\ Balances \subseteq Nat
  BY <1>1, PoolAssumption, Zenon DEF Balances
<1>3. Max(Balances) \in Balances /\ MaxNonce \in Nat
  BY <1>1, <1>2, GreatestOf, Instance, Zenon
<1>4. Start \in ChainState
  BY <1>3 DEF Start, ChainState
<1>5. /\ pool \in PoolMaps /\ pool.all = {} /\ pool.reserved = {} /\ pool.pending = [a \in Accounts |-> {}]
      /\ pool.queue = [a \in Accounts |-> {}]
  BY Zenon DEF Init, PoolMaps, TxLists
<1>6. \A a \in Accounts : Held(pool, a) = {} /\ pool.pending[a] = {}
  BY <1>5, Zenon DEF Held
<1>7. Agreeing(pool) /\ Reserves(pool)
  BY <1>5, <1>6 DEF Agreeing, Lists, Lookup, Unique, Reserves, Held
<1>8. PoolBounded
  BY <1>5, EmptyOf, Instance DEF PoolBounded
<1>9. TypeOK
  <2>1. loop \in Requests
    BY Zenon DEF Init, NoRequest, Requests, Header
  <2>2. asking \in [Callers -> (SUBSET Accounts) \cup {None}] /\ notified \in Header
    BY Zenon DEF Init, Header
  <2>3. chain \in ChainState /\ view = NoState /\ run = None /\ gossiped = {}
    BY <1>4, Zenon DEF Init
  <2>4. {cached, hashKnown, moved, busy, panicked} \subseteq BOOLEAN
    BY Zenon DEF Init
  <2> QED BY <1>5, <2>1, <2>2, <2>3, <2>4, Zenon DEF TypeOK
<1>10. Behind
  BY <1>5, Zenon DEF Init, Behind
<1>11. Readable
  <2>1. None # "block"
    BY NoneAssumption, Zenon
  <2> QED BY <2>1, Zenon DEF Init, Readable, NoRequest
<1>12. Events
  <2>1. Pending(pool) = {}
    BY <1>6, Zenon DEF Pending
  <2> QED BY <2>1, Zenon DEF Init, Events, NoRequest
<1> QED BY <1>1, <1>7, <1>8, <1>9, <1>10, <1>11, <1>12, Zenon DEF PoolInv

(* What a step has to show of the events that announce what is pending.    *)
LEMMA EventsStep ==
  ASSUME config' = config,
         ~ ContextFails => \A a \in Accounts : \A t \in pool'.pending[a] :
           t \in gossiped' \/ t \in loop'.events \/ (run' # None /\ t \in run'.events),
         loop'.launch => run' # None,
         loop'.events # {} => loop'.launch \/ \E c \in Callers : asking'[c] # None
  PROVE  Events'
<1>1. Accounts' = Accounts /\ ContextFails' = ContextFails
  BY Zenon DEF Accounts, ContextFails
<1>2. ASSUME ~ ContextFails, NEW t \in Pending(pool)'
      PROVE  t \in gossiped' \/ t \in loop'.events \/ (run' # None /\ t \in run'.events)
  <2>1. PICK a \in Accounts : t \in pool'.pending[a]
    BY <1>1, Zenon DEF Pending
  <2> QED BY <1>2, <2>1, Zenon
<1> QED BY <1>1, <1>2, Zenon DEF Events

(* What the invariant says of the events, list by list                     *)
LEMMA EventsOf ==
  ASSUME Events, ~ ContextFails, NEW a \in Accounts, NEW t \in pool.pending[a]
  PROVE  t \in gossiped \/ t \in loop.events \/ (run # None /\ t \in run.events)
<1>1. t \in Pending(pool)
  BY Zenon DEF Pending
<1> QED BY <1>1, Zenon DEF Events

=============================================================================
