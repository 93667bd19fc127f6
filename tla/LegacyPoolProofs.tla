-------------------------- MODULE LegacyPoolProofs --------------------------
(* For every instance of the pool and every schedule of its callers, blocks  *)
(* and runs: the maps agree with each other, what is pending is executable   *)
(* on the state the pool knows, the pool keeps to its size, and once it is   *)
(* quiet everything pending was broadcast.  The argument is one invariant    *)
(* (PoolInv); a step of the pool composes the operators on the maps, whose   *)
(* effects LegacyPoolMaps states.                                            *)
EXTENDS LegacyPoolMaps, SumsProofs, FiniteSetTheorems

(***************************************************************************)
(* Finite sets                                                             *)
(***************************************************************************)
(* The element with the fewest above it has none above it.                 *)
LEMMA GreatestElement ==
  ASSUME NEW S, S \subseteq Nat, S # {}, IsFiniteSet(S)
  PROVE  \E x \in S : \A y \in S : y <= x
<1> DEFINE Above(y) == {x \in S : x > y}
           D == {Cardinality(Above(y)) : y \in S}
<1>1. ASSUME NEW y \in S PROVE IsFiniteSet(Above(y)) /\ Cardinality(Above(y)) \in Nat
  <2>1. IsFiniteSet(Above(y))
    BY FS_Subset, Zenon
  <2> QED BY <2>1, FS_CardinalityType, Zenon
<1>2. D \subseteq Nat /\ D # {}
  BY <1>1, Zenon
<1>3. PICK c \in D : \A d \in D : c <= d
  <2> HIDE DEF D
  <2> QED BY <1>2, LeastElement, Zenon
<1>4. PICK y \in S : c = Cardinality(Above(y))
  BY <1>3, Zenon
<1>5. ASSUME NEW z \in S, z > y PROVE FALSE
  <2>1. Above(z) \in SUBSET Above(y) /\ z \in Above(y) /\ z \notin Above(z)
    <3> HIDE DEF D
    <3>1. z \in Nat /\ y \in Nat /\ \A x \in S : x \in Nat
      BY Zenon
    <3>2. \A x \in S : x > z => x > y
      BY <1>5, <3>1
    <3>3. ~ (z > z)
      BY <3>1
    <3> QED BY <1>5, <3>2, <3>3, Zenon
  <2>2. Cardinality(Above(z)) < Cardinality(Above(y))
    <3> HIDE DEF Above
    <3>1. Cardinality(Above(z)) <= Cardinality(Above(y)) /\ Cardinality(Above(y)) # Cardinality(Above(z))
      BY <1>1, <2>1, FS_Subset, Zenon
    <3> QED BY <3>1, <1>1
  <2>3. Cardinality(Above(z)) \in D
    BY Zenon
  <2> HIDE DEF D, Above
  <2> QED BY <1>1, <1>3, <1>4, <2>2, <2>3
<1>6. \A z \in S : z <= y
  BY <1>5
<1> QED BY <1>6, Zenon

(* The facts about finite sets that Setting assumes.                       *)
LEMMA FiniteSets == FiniteSetFacts
<1>1. ASSUME NEW S \in SUBSET Nat, S # {}
      PROVE  /\ \E x \in S : \A y \in S : x <= y
             /\ IsFiniteSet(S) => \E x \in S : \A y \in S : y <= x
  BY <1>1, LeastElement, GreatestElement, Zenon
<1>2. ASSUME NEW S, NEW T, IsFiniteSet(S), T \subseteq S
      PROVE  /\ IsFiniteSet(T) /\ Cardinality(T) \in Nat
             /\ Cardinality(S) \in Nat /\ Cardinality(T) <= Cardinality(S)
             /\ Cardinality(S \ T) = Cardinality(S) - Cardinality(T)
  <2>1. S \cap T = T
    BY <1>2, Zenon
  <2>2. Cardinality(S \ T) = Cardinality(S) - Cardinality(T)
    BY <1>2, <2>1, FS_Difference, Zenon
  <2> QED BY <1>2, <2>2, FS_Subset, FS_CardinalityType, Zenon
<1>3. ASSUME NEW S, NEW x, IsFiniteSet(S), x \notin S
      PROVE  IsFiniteSet(S \cup {x}) /\ Cardinality(S \cup {x}) = Cardinality(S) + 1
  BY <1>3, FS_AddElement, Zenon
<1>4. ASSUME NEW f, IsFiniteSet(DOMAIN f) PROVE IsFiniteSet({f[x] : x \in DOMAIN f})
  <2> DEFINE T == {f[x] : x \in DOMAIN f}
  <2>1. [x \in DOMAIN f |-> f[x]] \in Surjection(DOMAIN f, T)
    BY Zenon DEF Surjection
  <2> QED BY <1>4, <2>1, FS_Surjection, Zenon
<1>5. ASSUME NEW m \in Int, NEW n \in Int PROVE IsFiniteSet(m .. n)
  BY FS_Interval, Zenon
<1>6. IsFiniteSet({}) /\ Cardinality({}) = 0
  BY FS_EmptySet, Zenon
<1> QED BY <1>1, <1>2, <1>3, <1>4, <1>5, <1>6, Zenon DEF FiniteSetFacts

(* The parts of the invariant, named for the steps.                        *)
LEMMA InvFacts ==
  ASSUME Setting, PoolInv
  PROVE  /\ TypeOK /\ MapsOK /\ Behind /\ Readable /\ Events
         /\ chain \in ChainState /\ view \in ChainState \cup {NoState}
         /\ cached \in BOOLEAN /\ hashKnown \in BOOLEAN /\ moved \in BOOLEAN
         /\ busy \in BOOLEAN /\ panicked \in BOOLEAN /\ notified \in Header /\ pool \in PoolMaps
         /\ asking \in [Callers -> (SUBSET Accounts) \cup {None}] /\ loop \in Requests
         /\ run \in RunOf(config) \cup {None} /\ gossiped \subseteq Txs
         /\ ContextFails \in BOOLEAN /\ None \notin {"zero", "block"}
         /\ None \notin RunOf(config)
         /\ \A s \in SUBSET Accounts : s # None
<1>1. config \in Configs
  BY Zenon DEF PoolInv
<1>2. /\ ContextFails \in BOOLEAN /\ None \notin {"zero", "block"}
      /\ None \notin RunOf(config) /\ \A s \in SUBSET Accounts : s # None
  BY <1>1, NoneAssumption, Instance, Zenon DEF Accounts
<1> QED BY <1>1, <1>2, Zenon DEF PoolInv, MapsOK, TypeOK

(* What a step has to show of the invariant.                               *)
LEMMA InvStep ==
  ASSUME Setting, PoolInv, config' = config, TypeOK', MapsOK', Behind', Readable', Events'
  PROVE  PoolInv'
<1>1. config \in Configs
  BY Zenon DEF PoolInv
<1> QED BY <1>1, Zenon DEF PoolInv, MapsOK

(* NotifyNewBlock: the nonce of one account, its balance and some          *)
(* delegations changed.                                                    *)
LEMMA BlockStep ==
  ASSUME Setting, PoolInv, Block
  PROVE  PoolInv'
<1>1. PICK a \in Movers, b \in Balances, d \in SUBSET Delegates :
        \E n \in {chain.nonce[a], chain.nonce[a] + 1} :
          \E kept, found \in {TRUE, ~ ContextFails} : NotifyNewBlock(a, n, b, d, kept, found)
  BY Zenon DEF Block
<1>2. PICK n \in {chain.nonce[a], chain.nonce[a] + 1}, kept \in {TRUE, ~ ContextFails},
           found \in {TRUE, ~ ContextFails} : NotifyNewBlock(a, n, b, d, kept, found)
  BY <1>1, Zenon
<1>3. /\ ~ panicked /\ n <= MaxNonce /\ chain' = NextChain(a, n, b, d) /\ cached' = kept
      /\ notified' = (IF hashKnown /\ (kept \/ found) THEN "block" ELSE "zero")
      /\ hashKnown' = TRUE
      /\ UNCHANGED <<config, busy, moved, view, pool, asking, loop, run, gossiped, panicked>>
  BY <1>2, Zenon DEF NotifyNewBlock
<1>4. /\ TypeOK /\ MapsOK /\ Behind /\ Readable /\ Events
      /\ ContextFails \in BOOLEAN /\ chain \in ChainState
  BY InvFacts, Zenon
<1>5. a \in Accounts /\ MaxNonce \in Nat
  BY <1>4, Instance, Zenon
<1>6. /\ chain.nonce \in [Accounts -> 0 .. MaxNonce] /\ chain.balance \in [Accounts -> Balances]
  BY <1>4, Zenon DEF ChainState
<1>7. chain.nonce[a] \in Nat /\ n \in 0 .. MaxNonce /\ chain.nonce[a] <= n
  BY <1>2, <1>3, <1>5, <1>6
<1>8. chain' \in ChainState /\ chain'.nonce = [chain.nonce EXCEPT ![a] = n]
  <2>1. /\ [chain.nonce EXCEPT ![a] = n] \in [Accounts -> 0 .. MaxNonce]
        /\ [chain.balance EXCEPT ![a] = b] \in [Accounts -> Balances]
    BY <1>5, <1>6, <1>7, Zenon
  <2> QED BY <1>3, <2>1, Zenon DEF NextChain, ChainState
<1>9. TypeOK'
  <2>1. kept \in BOOLEAN /\ notified' \in Header
    BY <1>2, <1>3, <1>4, Zenon DEF Header
  <2> QED BY <1>3, <1>4, <1>8, <2>1, TypeStep DEF TypeOK
<1>10. MapsOK'
  BY <1>3, <1>4, MapsStep, Zenon DEF MapsOK, PoolBounded
<1>11. Behind'
  <2>1. ASSUME view # NoState, NEW c \in Accounts PROVE view.nonce[c] <= chain'.nonce[c]
    <3>1. view.nonce[c] <= chain.nonce[c] /\ view \in ChainState
      BY <1>4, <2>1, Zenon DEF Behind, TypeOK
    <3>2. view.nonce[c] \in Nat /\ chain.nonce[c] \in Nat
      BY <1>4, <3>1, StateType, Zenon
    <3>3. chain'.nonce[c] = IF c = a THEN n ELSE chain.nonce[c]
      BY <1>6, <1>8, Zenon
    <3> QED BY <1>7, <3>1, <3>2, <3>3
  <2> QED BY <1>3, <1>4, <2>1, BehindStep, Zenon DEF Behind
<1>12. Readable'
  <2>1. ContextFails' = ContextFails
    BY <1>3, Zenon DEF ContextFails
  <2> QED BY <1>2, <1>3, <1>4, <2>1, Zenon DEF Readable
<1>13. Events'
  BY <1>3, <1>4, EventsOf, EventsStep, Zenon DEF Events
<1> QED BY <1>3, <1>9, <1>10, <1>11, <1>12, <1>13, InvStep

(* The blockchain hands the loop a reset to the head it notified.          *)
LEMMA RequestResetStep ==
  ASSUME Setting, PoolInv, RequestReset
  PROVE  PoolInv'
<1> DEFINE l == [loop EXCEPT !.reset = notified, !.launch = TRUE]
<1>1. /\ ~ panicked /\ notified # None /\ Scheduled(l, run) /\ busy' = TRUE /\ notified' = None
      /\ UNCHANGED <<config, blockchain, moved, view, pool, asking, gossiped, panicked>>
  BY Zenon DEF RequestReset
<1>2. /\ TypeOK /\ MapsOK /\ Behind /\ Readable /\ Events
      /\ loop \in Requests /\ run \in RunOf(config) \cup {None} /\ notified \in Header
      /\ None # "block"
  BY InvFacts, Zenon
<1>3. l \in Requests /\ l.events = loop.events /\ l.launch /\ l.reset = notified
  BY <1>2, Zenon DEF Requests
<1> HIDE DEF l
<1>4. /\ loop' \in Requests /\ run' \in RunOf(config) \cup {None}
      /\ \A t \in l.events : t \in loop'.events \/ (run' # None /\ t \in run'.events)
      /\ run # None => run' = run
      /\ loop'.events # {} => loop' = l
      /\ loop'.launch => run' # None
      /\ loop'.reset = "block" => l.reset = "block"
      /\ run' # None /\ run'.reset = "block" /\ run = None => l.reset = "block"
  BY <1>1, <1>2, <1>3, ScheduledEffect, Zenon
<1>5. TypeOK'
  <2>1. notified' \in Header
    BY <1>1, Zenon DEF Header
  <2> QED BY <1>1, <1>2, <1>4, <2>1, TypeStep, Zenon DEF TypeOK, blockchain
<1>6. MapsOK' /\ Behind'
  BY <1>1, <1>2, KeepMaps, Zenon DEF blockchain
<1>7. Readable'
  <2>1. ContextFails' = ContextFails
    BY <1>1, Zenon DEF ContextFails
  <2> QED BY <1>1, <1>2, <1>3, <1>4, <2>1, Zenon DEF Readable, blockchain
<1>8. Events'
  <2>1. ASSUME ~ ContextFails, NEW a \in Accounts, NEW t \in pool'.pending[a]
        PROVE  t \in gossiped' \/ t \in loop'.events \/ (run' # None /\ t \in run'.events)
    BY <1>1, <1>2, <1>3, <1>4, <2>1, EventsOf
  <2> QED BY <1>1, <1>3, <1>4, <2>1, EventsStep
<1> QED BY <1>1, <1>5, <1>6, <1>7, <1>8, InvStep

(* add returns an error and changes nothing but what its caller waits for. *)
LEMMA AddRefusedStep ==
  ASSUME Setting, PoolInv, NEW c \in Callers, NEW t \in Txs, AddRefused(c, t)
  PROVE  PoolInv'
<1>1. /\ asking' = [asking EXCEPT ![c] = {}]
      /\ UNCHANGED <<config, blockchain, txpool, view, pool, loop, run, gossiped, panicked>>
  BY Zenon DEF AddRefused
<1>2. /\ TypeOK /\ MapsOK /\ Behind /\ Readable /\ Events
      /\ asking \in [Callers -> (SUBSET Accounts) \cup {None}]
      /\ \A s \in SUBSET Accounts : s # None
  BY InvFacts, Zenon
<1>3. asking' \in [Callers -> (SUBSET Accounts) \cup {None}] /\ asking'[c] # None
  BY <1>1, <1>2, Zenon
<1>4. TypeOK'
  BY <1>1, <1>2, <1>3, TypeStep, Zenon DEF TypeOK, blockchain, txpool
<1>5. MapsOK' /\ Behind'
  BY <1>1, <1>2, KeepMaps, Zenon DEF blockchain
<1>6. Readable'
  BY <1>1, <1>2, Zenon DEF Readable, blockchain, txpool, ContextFails
<1>7. Events'
  <2>1. ASSUME ~ ContextFails, NEW a \in Accounts, NEW u \in pool'.pending[a]
        PROVE  u \in gossiped' \/ u \in loop'.events \/ (run' # None /\ u \in run'.events)
    BY <1>1, <1>2, <2>1, EventsOf, Zenon
  <2>2. loop'.launch => run' # None
    BY <1>1, <1>2, Zenon DEF Events
  <2> QED BY <1>1, <1>3, <2>1, <2>2, EventsStep, Zenon
<1> QED BY <1>1, <1>4, <1>5, <1>6, <1>7, InvStep

(* A caller of add hands the loop the accounts it added to.                *)
LEMMA RequestPromoteStep ==
  ASSUME Setting, PoolInv, NEW c \in Callers, RequestPromote(c)
  PROVE  PoolInv'
<1> DEFINE l == [loop EXCEPT !.dirty = loop.dirty \cup asking[c], !.launch = TRUE]
<1>1. /\ asking[c] # None /\ Scheduled(l, run) /\ asking' = [asking EXCEPT ![c] = None]
      /\ UNCHANGED <<config, blockchain, txpool, view, pool, gossiped, panicked>>
  BY Zenon DEF RequestPromote
<1>2. /\ TypeOK /\ MapsOK /\ Behind /\ Readable /\ Events
      /\ loop \in Requests /\ run \in RunOf(config) \cup {None}
      /\ asking \in [Callers -> (SUBSET Accounts) \cup {None}] /\ None # "block"
  BY InvFacts, Zenon
<1>3. asking[c] \in SUBSET Accounts /\ asking' \in [Callers -> (SUBSET Accounts) \cup {None}]
  BY <1>1, <1>2, Zenon
<1>4. l \in Requests /\ l.events = loop.events /\ l.launch /\ l.reset = loop.reset
  BY <1>2, <1>3, Zenon DEF Requests
<1> HIDE DEF l
<1>5. /\ loop' \in Requests /\ run' \in RunOf(config) \cup {None}
      /\ \A t \in l.events : t \in loop'.events \/ (run' # None /\ t \in run'.events)
      /\ run # None => run' = run
      /\ loop'.events # {} => loop' = l
      /\ loop'.launch => run' # None
      /\ loop'.reset = "block" => l.reset = "block"
      /\ run' # None /\ run'.reset = "block" /\ run = None => l.reset = "block"
  BY <1>1, <1>2, <1>4, ScheduledEffect, Zenon
<1>6. TypeOK'
  BY <1>1, <1>2, <1>3, <1>5, TypeStep, Zenon DEF TypeOK, blockchain, txpool
<1>7. MapsOK' /\ Behind'
  BY <1>1, <1>2, KeepMaps, Zenon DEF blockchain
<1>8. Readable'
  <2>1. ContextFails' = ContextFails
    BY <1>1, Zenon DEF ContextFails
  <2> QED BY <1>1, <1>2, <1>4, <1>5, <2>1, Zenon DEF Readable, blockchain, txpool
<1>9. Events'
  <2>1. ASSUME ~ ContextFails, NEW a \in Accounts, NEW t \in pool'.pending[a]
        PROVE  t \in gossiped' \/ t \in loop'.events \/ (run' # None /\ t \in run'.events)
    BY <1>1, <1>2, <1>4, <1>5, <2>1, EventsOf
  <2> QED BY <1>1, <1>4, <1>5, <2>1, EventsStep
<1> QED BY <1>1, <1>6, <1>7, <1>8, <1>9, InvStep, Zenon

(* runReorg when the state of the new head cannot be read.                 *)
LEMMA UnreadStep ==
  ASSUME Setting, PoolInv, RunReorgUnread
  PROVE  PoolInv'
<1>1. /\ run # None /\ run' = [run EXCEPT !.locked = TRUE]
      /\ UNCHANGED <<config, blockchain, txpool, view, pool, asking, loop, gossiped, panicked>>
  BY Zenon DEF RunReorgUnread
<1>2. /\ TypeOK /\ MapsOK /\ Behind /\ Readable /\ Events
      /\ run \in RunOf(config) \cup {None} /\ None \notin RunOf(config)
  BY InvFacts, Zenon
<1>3. run' \in RunOf(config) /\ run'.events = run.events /\ run'.reset = run.reset /\ run' # None
  BY <1>1, <1>2, Zenon DEF RunOf
<1>4. TypeOK'
  BY <1>1, <1>2, <1>3, TypeStep, Zenon DEF TypeOK, blockchain, txpool
<1>5. MapsOK' /\ Behind'
  BY <1>1, <1>2, KeepMaps, Zenon DEF blockchain
<1>6. Readable'
  BY <1>1, <1>2, <1>3, Zenon DEF Readable, blockchain, txpool, ContextFails
<1>7. Events'
  <2>1. ASSUME ~ ContextFails, NEW a \in Accounts, NEW t \in pool'.pending[a]
        PROVE  t \in gossiped' \/ t \in loop'.events \/ (run' # None /\ t \in run'.events)
    BY <1>1, <1>2, <1>3, <2>1, EventsOf, Zenon
  <2>2. loop'.events # {} => loop'.launch \/ \E c \in Callers : asking'[c] # None
    BY <1>1, <1>2, Zenon DEF Events
  <2> QED BY <1>1, <1>3, <2>1, <2>2, EventsStep, Zenon
<1> QED BY <1>1, <1>4, <1>5, <1>6, <1>7, InvStep

(* runReorg before any state was read.                                     *)
LEMMA OnNilStep ==
  ASSUME Setting, PoolInv, RunReorgOnNil
  PROVE  PoolInv'
<1>1. /\ view' = NoState /\ panicked' = TRUE
      /\ UNCHANGED <<config, blockchain, txpool, pool, asking, loop, run, gossiped>>
  BY Zenon DEF RunReorgOnNil
<1>2. TypeOK /\ MapsOK /\ Behind /\ Readable /\ Events
  BY InvFacts, Zenon
<1>3. TypeOK'
  BY <1>1, <1>2, TypeStep, Zenon DEF TypeOK, blockchain, txpool
<1>4. MapsOK'
  BY <1>1, <1>2, MapsStep, Zenon DEF MapsOK, PoolBounded
<1>5. Behind'
  BY <1>1, Zenon DEF Behind
<1>6. Readable'
  BY <1>1, <1>2, Zenon DEF Readable, blockchain, txpool, ContextFails
<1>7. Events'
  <2>1. ASSUME ~ ContextFails, NEW a \in Accounts, NEW t \in pool'.pending[a]
        PROVE  t \in gossiped' \/ t \in loop'.events \/ (run' # None /\ t \in run'.events)
    BY <1>1, <1>2, <2>1, EventsOf, Zenon
  <2>2. /\ loop'.launch => run' # None
        /\ loop'.events # {} => loop'.launch \/ \E c \in Callers : asking'[c] # None
    BY <1>1, <1>2, Zenon DEF Events
  <2> QED BY <1>1, <2>1, <2>2, EventsStep, Zenon
<1> QED BY <1>1, <1>3, <1>4, <1>5, <1>6, <1>7, InvStep

(* A run announces its events and ends.                                    *)
LEMMA FinishStep ==
  ASSUME Setting, PoolInv, FinishRun
  PROVE  PoolInv'
<1>1. /\ run # None /\ gossiped' = (gossiped \cup run.events) \cap pool.all
      /\ busy' = (busy /\ run.reset = None) /\ moved' = (moved \/ run.reset # None)
      /\ Scheduled(loop, None)
      /\ UNCHANGED <<config, blockchain, notified, view, pool, asking, panicked>>
  BY Zenon DEF FinishRun
<1>2. /\ TypeOK /\ MapsOK /\ Behind /\ Readable /\ Events
      /\ loop \in Requests /\ busy \in BOOLEAN /\ moved \in BOOLEAN /\ pool \in PoolMaps
  BY InvFacts, Zenon
<1>3. /\ loop' \in Requests /\ run' \in RunOf(config) \cup {None}
      /\ \A t \in loop.events : t \in loop'.events \/ (run' # None /\ t \in run'.events)
      /\ loop'.events # {} => loop' = loop
      /\ loop'.launch => run' # None
      /\ loop'.reset = "block" => loop.reset = "block"
      /\ run' # None /\ run'.reset = "block" => loop.reset = "block"
  <2>1. None \in RunOf(config) \cup {None}
    BY Zenon
  <2> QED BY <1>1, <1>2, <2>1, ScheduledEffect, Zenon
<1>4. TypeOK'
  <2>1. gossiped' \subseteq Txs
    BY <1>1, <1>2, Zenon DEF PoolMaps
  <2> QED BY <1>1, <1>2, <1>3, <2>1, TypeStep, Zenon DEF TypeOK, blockchain
<1>5. MapsOK' /\ Behind'
  BY <1>1, <1>2, KeepMaps, Zenon DEF blockchain
<1>6. Readable'
  <2>1. ContextFails' = ContextFails
    BY <1>1, Zenon DEF ContextFails
  <2> QED BY <1>1, <1>2, <1>3, <2>1, Zenon DEF Readable, blockchain
<1>7. Events'
  <2>1. ASSUME ~ ContextFails, NEW a \in Accounts, NEW t \in pool'.pending[a]
        PROVE  t \in gossiped' \/ t \in loop'.events \/ (run' # None /\ t \in run'.events)
    <3>1. t \in pool.all
      BY <1>1, <1>2 DEF MapsOK, Agreeing, Lookup, Held
    <3>2. t \in gossiped \/ t \in loop.events \/ t \in run.events
      BY <1>1, <1>2, <2>1, EventsOf, Zenon
    <3> QED BY <1>1, <1>3, <3>1, <3>2, Zenon
  <2>2. loop'.events # {} => loop'.launch \/ \E c \in Callers : asking'[c] # None
    BY <1>1, <1>2, <1>3, Zenon DEF Events
  <2> QED BY <1>1, <1>3, <2>1, <2>2, EventsStep, Zenon
<1> QED BY <1>1, <1>4, <1>5, <1>6, <1>7, InvStep

(* The lookup is finite, and a part of it is smaller.                      *)
LEMMA Smaller ==
  ASSUME Setting, NEW p \in PoolMaps, NEW s, s \subseteq p.all
  PROVE  /\ IsFiniteSet(p.all) /\ Cardinality(p.all) \in Nat
         /\ IsFiniteSet(s) /\ Cardinality(s) \in Nat /\ Cardinality(s) <= Cardinality(p.all)
         /\ Cardinality(p.all \ s) = Cardinality(p.all) - Cardinality(s)
<1>1. p.all \in SUBSET Txs
  BY Zenon DEF PoolMaps
<1>2. IsFiniteSet(p.all)
  BY <1>1, ListFinite, Zenon
<1> QED BY <1>2, SubsetOf, Zenon

(* removeTx, called with the lock held for nothing else                    *)
LEMMA RemovalStep ==
  ASSUME Setting, PoolInv, ~ panicked, NEW drop \in SUBSET pool.all,
         pool' = RemoveTxs(pool, drop, None),
         UNCHANGED <<config, blockchain, txpool, view, asking, loop, run, gossiped, panicked>>
  PROVE  PoolInv'
<1> DEFINE q == RemoveTxs(pool, drop, None)
<1>1. /\ TypeOK /\ MapsOK /\ Behind /\ Readable /\ Events
      /\ pool \in PoolMaps /\ view \in ChainState \cup {NoState}
  BY InvFacts, Zenon
<1>2. Agreeing(pool) /\ Reserves(pool)
  BY <1>1, Zenon DEF MapsOK
<1>3. Agreeing(q) /\ Removed(pool, q, drop, None)
  BY <1>1, <1>2, RemoveEffect, Zenon
<1>4. Reserves(q)
  <2>1. /\ \A a \in Accounts : Held(q, a) # {} => a \in q.reserved
        /\ \A a \in q.reserved : a \in Accounts /\ (Held(q, a) # {} \/ a = None)
    BY <1>1, <1>2, RemoveReserves, Zenon
  <2>2. None \notin Accounts
    BY <1>1, Instance, Zenon
  <2> HIDE DEF q
  <2> QED BY <2>1, <2>2, Zenon DEF Reserves
<1>5. view # NoState => ExecutableOn(q, view)
  <2>1. ASSUME view # NoState PROVE ExecutableOn(q, view)
    <3>1. ExecutableOn(pool, view) /\ view.nonce \in [Accounts -> Nat]
      BY <1>1, <2>1, StateType, Zenon DEF Behind
    <3> QED BY <1>1, <1>2, <3>1, RemoveExecutable, Zenon
  <2> QED BY <2>1, Zenon
<1> HIDE DEF q
<1>6. pool' = q /\ q.all = pool.all \ drop /\ q \in PoolMaps
  BY <1>3, Zenon DEF q, Removed, Agreeing
<1>7. MapsOK'
  <2>1. Cardinality(q.all) <= Cardinality(pool.all) /\ Cardinality(q.all) \in Nat
        /\ Cardinality(pool.all) \in Nat
    <3>1. q.all \subseteq pool.all
      BY <1>6, Zenon
    <3> QED BY <1>1, <3>1, Smaller, Zenon
  <2>2. GlobalSlots \in Nat /\ GlobalQueue \in Nat
    BY <1>1, Instance, Zenon
  <2>3. Cardinality(q.all) <= GlobalSlots + GlobalQueue
    BY <1>1, <2>1, <2>2 DEF MapsOK, PoolBounded
  <2> QED BY <1>3, <1>4, <1>6, <2>3, MapsStep
<1>8. Behind'
  <2>1. view = NoState /\ ~ panicked => q.all = {}
    BY <1>1, <1>6, Zenon DEF Behind
  <2>2. view # NoState => \A a \in Accounts : view.nonce[a] <= chain'.nonce[a]
    BY <1>1, Zenon DEF Behind, blockchain
  <2> QED BY <1>5, <1>6, <2>1, <2>2, BehindStep
<1>9. TypeOK'
  BY <1>1, <1>6, TypeStep, Zenon DEF TypeOK, blockchain, txpool
<1>10. Readable'
  BY <1>1, Zenon DEF Readable, blockchain, txpool, ContextFails
<1>11. Events'
  <2>1. ASSUME ~ ContextFails, NEW a \in Accounts, NEW t \in pool'.pending[a]
        PROVE  t \in gossiped' \/ t \in loop'.events \/ (run' # None /\ t \in run'.events)
    <3>1. t \in pool.pending[a]
      BY <1>3, <1>6, Zenon DEF Removed
    <3> QED BY <1>1, <2>1, <3>1, EventsOf, Zenon
  <2>2. /\ loop'.launch => run' # None
        /\ loop'.events # {} => loop'.launch \/ \E c \in Callers : asking'[c] # None
    BY <1>1, Zenon DEF Events
  <2> QED BY <2>1, <2>2, EventsStep, Zenon
<1> QED BY <1>7, <1>8, <1>9, <1>10, <1>11, InvStep

(* RemoveTx, called for one transaction of the pool.                       *)
LEMMA RemoveTxStep ==
  ASSUME Setting, PoolInv, NEW t \in Txs, RemoveTx(t)
  PROVE  PoolInv'
BY RemovalStep, Zenon DEF RemoveTx

(* The loop evicts the queues of the accounts that were silent too long.   *)
LEMMA EvictStep ==
  ASSUME Setting, PoolInv, NEW silent \in SUBSET Accounts, Evict(silent)
  PROVE  PoolInv'
<1>1. UNION {pool.queue[a] : a \in silent} \in SUBSET pool.all
  BY InvFacts DEF MapsOK, Agreeing, Lookup, Held
<1> QED BY <1>1, RemovalStep, Zenon DEF Evict

(* The counter of changes has no part in the invariants of the maps.       *)
LEMMA ChangesOnly ==
  ASSUME Setting, NEW p, Agreeing(p), NEW n \in Nat,
         NEW q, q = [p EXCEPT !.changes = n]
  PROVE  /\ Agreeing(q) /\ (Reserves(p) => Reserves(q))
         /\ q.pending = p.pending /\ q.queue = p.queue /\ q.all = p.all
         /\ q.nonces = p.nonces /\ q.reserved = p.reserved
         /\ \A a \in Accounts : Held(q, a) = Held(p, a)
         /\ \A v : ExecutableOn(p, v) => ExecutableOn(q, v)
<1>1. /\ q.pending = p.pending /\ q.queue = p.queue /\ q.all = p.all
      /\ q.nonces = p.nonces /\ q.reserved = p.reserved /\ q \in PoolMaps
  BY Zenon DEF Agreeing, PoolMaps
<1>2. \A a \in Accounts : Held(q, a) = Held(p, a)
  BY <1>1, Zenon DEF Held
<1>3. Agreeing(q) /\ (Reserves(p) => Reserves(q))
  BY <1>1, <1>2 DEF Agreeing, Lists, Lookup, Reserves
<1>4. ASSUME NEW v, ExecutableOn(p, v) PROVE ExecutableOn(q, v)
  BY <1>1, <1>2, <1>4, Zenon DEF ExecutableOn
<1> QED BY <1>1, <1>2, <1>3, <1>4, Zenon

(* Making room: the maps without drop, the sender's address still reserved *)
LEMMA MakeRoomEffect ==
  ASSUME Setting, NEW p, Agreeing(p), Reserves(p), NEW t \in Txs,
         NEW drop \in SUBSET p.all, NEW q, q = MakeRoom(p, t, drop)
  PROVE  /\ Agreeing(q) /\ q.all = p.all \ drop
         /\ \A a \in Accounts : q.pending[a] \subseteq p.pending[a]
         /\ \A a \in Accounts : Held(q, a) # {} => a \in q.reserved
         /\ \A a \in q.reserved : a \in Accounts /\ (Held(q, a) # {} \/ a = t.from)
         /\ \A v : v.nonce \in [Accounts -> Nat] /\ ExecutableOn(p, v) => ExecutableOn(q, v)
<1> DEFINE r == RemoveTxs(p, drop, t.from)
           n == r.changes + Cardinality(PendingRemoved(p, drop))
<1>1. Agreeing(r) /\ Removed(p, r, drop, t.from)
  BY RemoveEffect, Zenon
<1>2. /\ \A a \in Accounts : Held(r, a) # {} => a \in r.reserved
      /\ \A a \in r.reserved : a \in Accounts /\ (Held(r, a) # {} \/ a = t.from)
  BY RemoveReserves
<1>3. ASSUME NEW v, v.nonce \in [Accounts -> Nat], ExecutableOn(p, v) PROVE ExecutableOn(r, v)
  BY <1>3, RemoveExecutable, Zenon
<1>4. n \in Nat
  <2>1. PendingRemoved(p, drop) \subseteq Txs
    BY MapsType DEF PendingRemoved, Agreeing
  <2>2. Cardinality(PendingRemoved(p, drop)) \in Nat
    BY <2>1, ListFinite, Zenon
  <2>3. r.changes \in Nat
    BY <1>1, Zenon DEF Agreeing, PoolMaps
  <2> QED BY <2>2, <2>3
<1>5. q = [r EXCEPT !.changes = n]
  BY Zenon DEF MakeRoom
<1> HIDE DEF r, n
<1>6. /\ Agreeing(q) /\ q.pending = r.pending /\ q.all = r.all /\ q.reserved = r.reserved
      /\ \A a \in Accounts : Held(q, a) = Held(r, a)
      /\ \A v : ExecutableOn(r, v) => ExecutableOn(q, v)
  BY <1>1, <1>4, <1>5, ChangesOnly
<1>7. q.all = p.all \ drop /\ \A a \in Accounts : q.pending[a] \subseteq p.pending[a]
  BY <1>1, <1>6, Zenon DEF Removed
<1> QED BY <1>2, <1>3, <1>6, <1>7, Zenon

(* add takes a transaction: it discards as many others as there is room    *)
(* missing, then places it.                                                *)
LEMMA AddAcceptedStep ==
  ASSUME Setting, PoolInv, NEW c \in Callers, NEW t \in Txs, AddAccepted(c, t)
  PROVE  PoolInv'
<1>1. /\ ~ panicked /\ view # NoState /\ t \notin pool.all /\ ValidateTx(pool, t)
      /\ UNCHANGED <<config, blockchain, txpool, view, run, gossiped, panicked>>
  BY Zenon DEF AddAccepted, CanAdd
<1>2. PICK drop \in Discard(pool, t) :
        LET p == MakeRoom(pool, t, drop)
            placed == Inserted(Target(p, t), t)
            replaced == At(Target(p, t), t.nonce) # {}
            announce == placed /\ OverPending(p, t)
        IN /\ pool' = Place(p, t)
           /\ loop' = IF announce THEN [loop EXCEPT !.events = Put(loop.events, {t})] ELSE loop
           /\ asking' = [asking EXCEPT ![c] = IF placed /\ ~ replaced THEN {t.from} ELSE {}]
  BY Zenon DEF AddAccepted
<1> DEFINE p == MakeRoom(pool, t, drop)
           q == Place(p, t)
           placed == Inserted(Target(p, t), t)
           replaced == At(Target(p, t), t.nonce) # {}
           announce == placed /\ OverPending(p, t)
<1>3. /\ pool' = q
      /\ loop' = IF announce THEN [loop EXCEPT !.events = Put(loop.events, {t})] ELSE loop
      /\ asking' = [asking EXCEPT ![c] = IF placed /\ ~ replaced THEN {t.from} ELSE {}]
  BY <1>2, Zenon
<1>4. /\ TypeOK /\ MapsOK /\ Behind /\ Readable /\ Events
      /\ pool \in PoolMaps /\ view \in ChainState /\ loop \in Requests
      /\ asking \in [Callers -> (SUBSET Accounts) \cup {None}]
      /\ \A s \in SUBSET Accounts : s # None
  BY <1>1, InvFacts, Zenon
<1>5. Agreeing(pool) /\ Reserves(pool) /\ ExecutableOn(pool, view)
      /\ view.nonce \in [Accounts -> Nat] /\ t.from \in Accounts
  BY <1>1, <1>4, StateType, Instance, Zenon DEF MapsOK, Behind
<1>6. GlobalSlots \in Nat \ {0} /\ GlobalQueue \in Nat \ {0}
  BY <1>4, Instance, Zenon
<1>7. drop \in SUBSET pool.all /\ Cardinality(pool.all \ drop) + 1 <= GlobalSlots + GlobalQueue
  <2>1. CASE ~ Full(pool)
    <3>1. drop = {} /\ pool.all \ drop = pool.all
      BY <2>1, Zenon DEF Discard
    <3>2. Cardinality(pool.all) \in Nat
      BY <1>4, Smaller, Zenon
    <3> QED BY <1>6, <2>1, <3>1, <3>2 DEF Full
  <2>2. CASE Full(pool)
    <3>1. /\ drop \in SUBSET pool.all
          /\ Cardinality(drop) = Cardinality(pool.all) + 1 - (GlobalSlots + GlobalQueue)
      BY <2>2, Zenon DEF Discard
    <3>2. /\ Cardinality(pool.all \ drop) = Cardinality(pool.all) - Cardinality(drop)
          /\ Cardinality(pool.all) \in Nat
      BY <1>4, <3>1, Smaller, Zenon
    <3> QED BY <1>6, <3>1, <3>2
  <2> QED BY <2>1, <2>2, Zenon
<1>8. /\ Agreeing(p) /\ p.all = pool.all \ drop
      /\ \A a \in Accounts : p.pending[a] \subseteq pool.pending[a]
      /\ \A a \in Accounts : Held(p, a) # {} => a \in p.reserved
      /\ \A a \in p.reserved : a \in Accounts /\ (Held(p, a) # {} \/ a = t.from)
      /\ ExecutableOn(p, view)
  BY <1>4, <1>5, <1>7, MakeRoomEffect
<1> HIDE DEF p
<1>9. t \notin p.all /\ p \in PoolMaps /\ Cardinality(p.all) \in Nat
      /\ Cardinality(p.all) + 1 <= GlobalSlots + GlobalQueue
  BY <1>1, <1>4, <1>7, <1>8, Smaller, Zenon DEF Agreeing
<1>10. /\ Agreeing(q) /\ Reserves(q) /\ ExecutableOn(q, view)
       /\ Cardinality(q.all) <= GlobalSlots + GlobalQueue
       /\ \A a \in Accounts : \A u \in q.pending[a] :
            u \in pool.pending[a] \/ (announce /\ u = t)
       /\ announce => \A a \in Accounts : \A u \in q.pending[a] :
            u # t => <<t.from, t.nonce>> # <<u.from, u.nonce>>
  <2>1. CASE ~ placed
    <3>1. q = p
      BY <2>1, Zenon DEF Place
    <3> HIDE DEF q
    <3>2. At(Target(p, t), t.nonce) # {}
      BY <2>1, Zenon DEF Inserted
    <3>3. Held(p, t.from) # {}
      BY <3>2, Zenon DEF At, Target, Held
    <3>4. Reserves(q)
      BY <1>8, <3>1, <3>3, Zenon DEF Reserves
    <3>5. Cardinality(q.all) <= GlobalSlots + GlobalQueue
      BY <1>6, <1>9, <3>1
    <3>6. ~ announce
      BY <2>1, Zenon
    <3> HIDE DEF announce
    <3> QED BY <1>8, <3>1, <3>4, <3>5, <3>6
  <2>2. CASE placed
    <3>1. Agreeing(q) /\ Placed(p, q, t)
      BY <1>4, <1>8, <1>9, <2>2, PlaceEffect
    <3> HIDE DEF q
    <3>2. /\ t.nonce >= view.nonce[t.from] /\ t.cost <= view.balance[t.from]
      <4>1. view.nonce[t.from] <= t.nonce /\ t.cost <= view.balance[t.from]
        BY <1>1, Zenon DEF ValidateTx, ValidateWithState
      <4> QED BY <1>4, <1>5, <4>1, Instance
    <3>3. ExecutableOn(q, view)
      BY <1>4, <1>8, <3>1, <3>2, PlaceExecutable
    <3>4. Reserves(q)
      <4>1. q.reserved = p.reserved \cup {t.from}
        BY <3>1, Zenon DEF Placed
      <4>2. \A a \in Accounts : a # t.from => Held(q, a) = Held(p, a)
        BY <3>1, Zenon DEF Placed, Held
      <4>3. t \in Held(q, t.from)
        BY <3>1, Zenon DEF Placed, Held
      <4> QED BY <1>5, <1>8, <4>1, <4>2, <4>3 DEF Reserves
    <3>5. Cardinality(q.all) <= GlobalSlots + GlobalQueue
      <4> DEFINE left == p.all \ At(Target(p, t), t.nonce)
      <4>1. q.all = left \cup {t}
        BY <3>1, Zenon DEF Placed
      <4>2. left \subseteq p.all /\ t \notin left
        BY <1>9, Zenon
      <4> HIDE DEF left
      <4>3. IsFiniteSet(left) /\ Cardinality(left) \in Nat
            /\ Cardinality(left) <= Cardinality(p.all)
        BY <1>4, <1>9, <4>2, Smaller, Zenon
      <4>4. Cardinality(q.all) = Cardinality(left) + 1
        BY <4>1, <4>2, <4>3, Zenon DEF Setting, FiniteSetFacts
      <4> QED BY <1>6, <1>9, <4>3, <4>4
    <3>6. ASSUME NEW a \in Accounts, NEW u \in q.pending[a]
          PROVE  u \in pool.pending[a] \/ (announce /\ u = t)
      <4>1. u \in p.pending[a] \/ (OverPending(p, t) /\ u = t)
        BY <3>1, <1>5, Zenon DEF Placed
      <4> QED BY <1>8, <2>2, <4>1, Zenon
    <3>7. ASSUME announce, NEW a \in Accounts, NEW u \in q.pending[a], u # t
          PROVE  ~ (t.from = u.from /\ t.nonce = u.nonce)
      <4>1. u.from = a
        BY <3>1, Zenon DEF Agreeing, Lists, Held
      <4>2. t \in Held(q, t.from)
        BY <3>1, Zenon DEF Placed, Held
      <4> QED BY <1>5, <3>1, <3>7, <4>1, <4>2 DEF Agreeing, Lists, Unique, Held
    <3> QED BY <3>1, <3>3, <3>4, <3>5, <3>6, <3>7
  <2> QED BY <2>1, <2>2, Zenon
<1> HIDE DEF q, placed, announce
<1>11. asking' \in [Callers -> (SUBSET Accounts) \cup {None}] /\ asking'[c] # None
  BY <1>3, <1>4, <1>5, Zenon
<1>12. loop' \in Requests /\ loop'.launch = loop.launch /\ loop'.reset = loop.reset
  <2>1. loop.events \in SUBSET Txs
    BY <1>4, Zenon DEF Requests
  <2>2. Put(loop.events, {t}) \in SUBSET Txs
    BY <2>1, Zenon DEF Put
  <2> QED BY <1>3, <1>4, <2>2, Zenon DEF Requests
<1>13. ASSUME NEW a \in Accounts, NEW u \in q.pending[a], u \in loop.events PROVE u \in loop'.events
  <2>1. CASE announce
    <3>1. loop'.events = Put(loop.events, {t})
      BY <1>3, <1>4, <2>1 DEF Requests
    <3>2. u = t \/ <<t.from, t.nonce>> # <<u.from, u.nonce>>
      BY <1>10, <2>1, Zenon
    <3> QED BY <1>13, <3>1, <3>2, Zenon DEF Put
  <2>2. CASE ~ announce
    BY <1>3, <1>13, <2>2, Zenon
  <2> QED BY <2>1, <2>2, Zenon
<1>14. announce => t \in loop'.events
  BY <1>3, <1>4, Zenon DEF Put, Requests
<1>15. MapsOK'
  BY <1>1, <1>3, <1>10, MapsStep
<1>16. Behind'
  <2>1. \A a \in Accounts : view.nonce[a] <= chain'.nonce[a]
    BY <1>1, <1>4, Zenon DEF Behind, blockchain
  <2> QED BY <1>1, <1>3, <1>10, <2>1, BehindStep
<1>17. TypeOK'
  <2>1. pool' \in PoolMaps
    BY <1>3, <1>10, Zenon DEF Agreeing
  <2> QED BY <1>1, <1>4, <1>11, <1>12, <2>1, TypeStep, Zenon DEF TypeOK, blockchain, txpool
<1>18. Readable'
  <2>1. ContextFails' = ContextFails
    BY <1>1, Zenon DEF ContextFails
  <2> QED BY <1>1, <1>4, <1>12, <2>1, Zenon DEF Readable, blockchain, txpool
<1>19. Events'
  <2>1. ASSUME ~ ContextFails, NEW a \in Accounts, NEW u \in pool'.pending[a]
        PROVE  u \in gossiped' \/ u \in loop'.events \/ (run' # None /\ u \in run'.events)
    <3>1. CASE announce /\ u = t
      BY <1>14, <3>1, Zenon
    <3>2. CASE ~ (announce /\ u = t)
      <4>1. u \in pool.pending[a]
        BY <1>3, <1>10, <3>2, Zenon
      <4>2. u \in gossiped \/ u \in loop.events \/ (run # None /\ u \in run.events)
        BY <1>4, <2>1, <4>1, EventsOf
      <4> QED BY <1>1, <1>3, <1>13, <4>2, Zenon
    <3> QED BY <3>1, <3>2, Zenon
  <2>2. loop'.launch => run' # None
    BY <1>1, <1>4, <1>12 DEF Events
  <2> QED BY <1>1, <1>11, <2>1, <2>2, EventsStep
<1> QED BY <1>1, <1>15, <1>16, <1>17, <1>18, <1>19, InvStep

(* What a run announces: the promoted transactions, and of the events it was *)
(* given those of transactions that stay pending                           *)
LEMMA AnnouncedEffect ==
  ASSUME Setting, PoolInv, ~ panicked, run # None, NEW read \in {TRUE, cached},
         StateAfter(read) # NoState, NEW v, v = StateAfter(read),
         NEW q, Agreeing(q), ExecutableOn(q, v),
         Pending(q) \subseteq Pending(pool) \cup Promoted(ResetState(read), v, Promoting)
  PROVE  /\ Announced(read) \subseteq Txs
         /\ ~ ContextFails => \A a \in Accounts : \A u \in q.pending[a] :
              u \in gossiped \/ u \in loop.events \/ u \in Announced(read)
<1> DEFINE p == ResetState(read)
           new == Promoted(p, v, Promoting)
           old == IF run.reset = None THEN run.events
                  ELSE {t \in run.events : t.nonce >= p.nonces[t.from]}
<1>1. /\ TypeOK /\ MapsOK /\ Behind /\ Readable /\ Events
      /\ cached \in BOOLEAN /\ pool \in PoolMaps
  BY InvFacts, Zenon
<1>2. /\ run.reset \in Header /\ run.dirty \subseteq Accounts /\ run.events \subseteq Txs
      /\ read \in BOOLEAN /\ Agreeing(pool) /\ Reserves(pool)
  BY <1>1, RunType, Zenon DEF MapsOK
<1>3. /\ v \in ChainState /\ Agreeing(p) /\ p.pending = pool.pending /\ p.queue = pool.queue
      /\ run.reset # None /\ read => p.nonces = v.nonce
  BY <1>1, <1>2, ResetEffect, Zenon
<1>4. Announced(read) = Put(old, new)
  BY Zenon DEF Announced
<1>5. Promoting \in SUBSET Accounts
  BY <1>2, Zenon DEF Promoting
<1> HIDE DEF p, new, old
<1>6. ASSUME NEW w \in new PROVE w.from \in Accounts /\ w \in pool.queue[w.from] /\ w \in Txs
  <2> DEFINE r == PromoteExecutables(p, v, Promoting)
  <2>1. /\ Promotes(p, r, v, Promoting)
        /\ new = UNION {Readies(p, v, Promoting, a) : a \in Accounts}
    BY <1>1, <1>3, <1>5, PromoteEffect DEF new
  <2> HIDE DEF r
  <2>2. PICK a \in Accounts : w \in Readies(p, v, Promoting, a)
    BY <1>6, <2>1, Zenon
  <2>3. w \in p.queue[a]
    BY <2>1, <2>2, Zenon DEF Promotes
  <2>4. w.from = a
    BY <1>3, <2>3, Zenon DEF Agreeing, Lists, Held
  <2> QED BY <1>1, <1>3, <2>3, <2>4, MapsType
<1>7. old \subseteq run.events
  BY Zenon DEF old
<1>8. Announced(read) \subseteq Txs
  BY <1>2, <1>4, <1>6, <1>7, Zenon DEF Put
<1>9. ASSUME ~ ContextFails, NEW a \in Accounts, NEW u \in q.pending[a]
      PROVE  u \in gossiped \/ u \in loop.events \/ u \in Announced(read)
  <2>1. CASE u \in new
    BY <1>4, <2>1, Zenon DEF Put
  <2>2. CASE u \notin new
    <3>1. u \in Pending(pool)
      BY <2>2, Zenon DEF Pending, new, p
    <3>2. PICK b \in Accounts : u \in pool.pending[b]
      BY <3>1, Zenon DEF Pending
    <3>3. u.from = b /\ u \in Held(pool, b)
      BY <1>2, <3>2, Zenon DEF Agreeing, Lists, Held
    <3>4. u.from = a /\ u \in Held(q, a)
      BY Zenon DEF Agreeing, Lists, Held
    <3>5. ASSUME NEW w \in new PROVE <<w.from, w.nonce>> # <<u.from, u.nonce>>
      <4>1. w # u /\ w \in Held(pool, w.from) /\ w.from \in Accounts
        BY <1>6, <2>2, <3>5, Zenon DEF Held
      <4>2. w.from = u.from => w.nonce # u.nonce
        BY <1>2, <3>3, <4>1, Zenon DEF Agreeing, Lists, Unique
      <4> QED BY <4>2, Zenon
    <3>6. ASSUME u \in run.events PROVE u \in old
      <4>1. CASE run.reset = None
        BY <3>6, <4>1, Zenon DEF old
      <4>2. CASE run.reset # None
        <5>1. run.reset = "block"
          BY <1>2, <4>2, Zenon DEF Header, StateAfter
        <5>2. read = TRUE
          BY <1>1, <1>9, <5>1, Zenon DEF Readable
        <5>3. p.nonces = v.nonce
          BY <1>3, <4>2, <5>2, Zenon
        <5>4. u.nonce >= v.nonce[a]
          BY <3>4, Zenon DEF ExecutableOn
        <5> QED BY <3>4, <3>6, <4>2, <5>3, <5>4 DEF old
      <4> QED BY <4>1, <4>2, Zenon
    <3>7. u \in old => u \in Announced(read)
      BY <1>4, <3>5, Zenon DEF Put
    <3> QED BY <1>1, <1>9, <3>2, <3>6, <3>7, EventsOf
  <2> QED BY <2>1, <2>2, Zenon
<1> QED BY <1>8, <1>9, Zenon

(* runReorg under the pool lock: reset, promote, demote, truncate.         *)
LEMMA RunReorgStep ==
  ASSUME Setting, PoolInv, RunReorg
  PROVE  PoolInv'
<1>1. /\ ~ panicked /\ run # None
      /\ UNCHANGED <<config, blockchain, txpool, asking, loop, gossiped, panicked>>
  BY Zenon DEF RunReorg
<1>2. PICK read \in {TRUE, cached} :
        /\ StateAfter(read) # NoState
        /\ view' = StateAfter(read)
        /\ \E drop \in QueueOverflow(Reorganised(read)) :
             pool' = [TruncateQueue(Reorganised(read), drop) EXCEPT !.changes = 0]
        /\ run' = [run EXCEPT !.locked = TRUE, !.events = Announced(read)]
  BY Zenon DEF RunReorg
<1> DEFINE v == StateAfter(read)
           q == Reorganised(read)
<1>3. PICK drop \in QueueOverflow(q) : pool' = [TruncateQueue(q, drop) EXCEPT !.changes = 0]
  BY <1>2, Zenon
<1> DEFINE r == RemoveTxs(q, drop, None)
           e == [r EXCEPT !.changes = 0]
<1>4. pool' = e
  BY <1>3, Zenon DEF TruncateQueue
<1>5. /\ TypeOK /\ MapsOK /\ Behind /\ Readable /\ Events
      /\ chain \in ChainState /\ view \in ChainState \cup {NoState}
      /\ cached \in BOOLEAN /\ pool \in PoolMaps /\ run \in RunOf(config)
      /\ None \notin RunOf(config)
  BY <1>1, InvFacts, Zenon
<1>6. /\ run.reset \in Header /\ run.dirty \subseteq Accounts /\ run.events \subseteq Txs
      /\ read \in BOOLEAN /\ Agreeing(pool) /\ Reserves(pool)
  BY <1>1, <1>5, RunType, Zenon DEF MapsOK
<1>7. /\ v \in ChainState
      /\ run.reset = None => v = view
  BY <1>1, <1>2, <1>5, <1>6, ResetEffect
<1>8. /\ Agreeing(q) /\ Reserves(q) /\ ExecutableOn(q, v) /\ q.all \subseteq pool.all
      /\ Pending(q) \subseteq Pending(pool) \cup Promoted(ResetState(read), v, Promoting)
  BY <1>1, <1>2, <1>5, <1>6, ReorgEffect, Zenon
<1>9. v = chain \/ v = view
  BY <1>2, Zenon DEF StateAfter
<1>v. view' = v /\ v # NoState
  BY <1>2, Zenon
<1> HIDE DEF q, v
<1>10. drop \in SUBSET q.all
  <2>1. drop \subseteq Queued(q)
    BY <1>3, Zenon DEF QueueOverflow
  <2>2. Queued(q) \subseteq q.all
    BY <1>8 DEF Queued, Agreeing, Lookup, Held
  <2> QED BY <2>1, <2>2, Zenon
<1>11. v.nonce \in [Accounts -> Nat]
  BY <1>5, <1>7, StateType, Zenon
<1>12. Agreeing(r) /\ Removed(q, r, drop, None) /\ ExecutableOn(r, v)
  BY <1>5, <1>8, <1>11, RemoveEffect, RemoveExecutable
<1>13. Reserves(r)
  <2>1. /\ \A a \in Accounts : Held(r, a) # {} => a \in r.reserved
        /\ \A a \in r.reserved : a \in Accounts /\ (Held(r, a) # {} \/ a = None)
    BY <1>5, <1>8, <1>10, RemoveReserves, Zenon
  <2>2. None \notin Accounts
    BY <1>5, Instance, Zenon
  <2> HIDE DEF r
  <2> QED BY <2>1, <2>2, Zenon DEF Reserves
<1> HIDE DEF r
<1>14. /\ Agreeing(e) /\ Reserves(e) /\ ExecutableOn(e, v)
       /\ e.pending = r.pending /\ e.all = r.all
  BY <1>5, <1>12, <1>13, ChangesOnly
<1> HIDE DEF e
<1>15. e.all \subseteq pool.all /\ \A a \in Accounts : e.pending[a] \subseteq q.pending[a]
  BY <1>8, <1>12, <1>14, Zenon DEF Removed
<1>16. Pending(e) \subseteq Pending(pool) \cup Promoted(ResetState(read), v, Promoting)
  BY <1>8, <1>15, Zenon DEF Pending
<1>17. /\ Announced(read) \subseteq Txs
       /\ ~ ContextFails => \A a \in Accounts : \A u \in e.pending[a] :
            u \in gossiped \/ u \in loop.events \/ u \in Announced(read)
  BY <1>1, <1>2, <1>14, <1>16, AnnouncedEffect, Zenon DEF v
<1>18. /\ run' \in RunOf(config) /\ run' # None
       /\ run'.events = Announced(read) /\ run'.reset = run.reset
  <2>1. run' \in RunOf(config) /\ run'.events = Announced(read) /\ run'.reset = run.reset
    BY <1>2, <1>5, <1>17, Zenon DEF RunOf, Txs
  <2> QED BY <1>5, <2>1, Zenon
<1>19. MapsOK'
  <2>1. Cardinality(e.all) <= Cardinality(pool.all) /\ Cardinality(e.all) \in Nat
        /\ Cardinality(pool.all) \in Nat
    BY <1>5, <1>15, Smaller, Zenon
  <2>2. GlobalSlots \in Nat /\ GlobalQueue \in Nat
    BY <1>5, Instance, Zenon
  <2>3. Cardinality(e.all) <= GlobalSlots + GlobalQueue
    BY <1>5, <2>1, <2>2 DEF MapsOK, PoolBounded
  <2> QED BY <1>1, <1>4, <1>14, <2>3, MapsStep
<1>20. Behind'
  <2>1. \A a \in Accounts : v.nonce[a] <= chain'.nonce[a]
    <3>1. chain' = chain /\ \A a \in Accounts : chain.nonce[a] \in Nat
      BY <1>1, <1>5, StateType, Zenon DEF blockchain
    <3> QED BY <1>5, <1>9, <1>v, <3>1 DEF Behind
  <2> QED BY <1>1, <1>4, <1>v, <1>14, <2>1, BehindStep
<1>21. TypeOK'
  <2>1. pool' \in PoolMaps /\ view' \in ChainState
    BY <1>4, <1>7, <1>v, <1>14 DEF Agreeing
  <2> QED BY <1>1, <1>5, <1>18, <2>1, TypeStep DEF TypeOK, blockchain, txpool
<1>22. Readable'
  <2>1. ContextFails' = ContextFails
    BY <1>1, Zenon DEF ContextFails
  <2> QED BY <1>1, <1>5, <1>18, <2>1, Zenon DEF Readable, blockchain, txpool
<1>23. Events'
  <2>1. ASSUME ~ ContextFails, NEW a \in Accounts, NEW t \in pool'.pending[a]
        PROVE  t \in gossiped' \/ t \in loop'.events \/ (run' # None /\ t \in run'.events)
    BY <1>1, <1>4, <1>17, <1>18, <2>1, Zenon
  <2>2. loop'.events # {} => loop'.launch \/ \E c \in Callers : asking'[c] # None
    BY <1>1, <1>5, Zenon DEF Events
  <2> QED BY <1>1, <1>18, <2>1, <2>2, EventsStep
<1> QED BY <1>1, <1>19, <1>20, <1>21, <1>22, <1>23, InvStep

(* Nothing changes.                                                        *)
LEMMA StutterStep ==
  ASSUME Setting, PoolInv, UNCHANGED vars
  PROVE  PoolInv'
<1>1. UNCHANGED <<config, chain, cached, hashKnown, notified, busy, moved, view, pool,
                  asking, loop, run, gossiped, panicked>>
  BY Zenon DEF vars, blockchain, txpool
<1>2. /\ TypeOK /\ MapsOK /\ Behind /\ Readable /\ Events
  BY InvFacts, Zenon
<1>3. MapsOK' /\ Behind'
  BY <1>1, <1>2, KeepMaps, Zenon
<1>4. TypeOK'
  BY <1>1, <1>2, TypeStep, Zenon DEF TypeOK
<1>5. Readable'
  BY <1>1, <1>2, Zenon DEF Readable, ContextFails
<1>6. Events'
  BY <1>1, <1>2, EventsStep, Zenon DEF Events, Pending
<1> QED BY <1>1, <1>2, <1>3, <1>4, <1>5, <1>6, InvStep

(* No step of the pool, its callers or its loops leaves the invariant.     *)
LEMMA NextStep ==
  ASSUME Setting, PoolInv, [Next]_vars
  PROVE  PoolInv'
<1>1. CASE Block BY <1>1, BlockStep, Zenon
<1>2. CASE RequestReset BY <1>2, RequestResetStep, Zenon
<1>3. CASE \E c \in Callers, t \in Txs : AddRefused(c, t) \/ AddAccepted(c, t)
  BY <1>3, AddRefusedStep, AddAcceptedStep, Zenon
<1>4. CASE \E c \in Callers : RequestPromote(c) BY <1>4, RequestPromoteStep, Zenon
<1>5. CASE \E t \in Txs : RemoveTx(t) BY <1>5, RemoveTxStep, Zenon
<1>6. CASE \E silent \in SUBSET Accounts : Evict(silent) BY <1>6, EvictStep
<1>7. CASE RunReorg BY <1>7, RunReorgStep, Zenon
<1>8. CASE RunReorgUnread BY <1>8, UnreadStep, Zenon
<1>9. CASE RunReorgOnNil BY <1>9, OnNilStep, Zenon
<1>10. CASE FinishRun BY <1>10, FinishStep, Zenon
<1>11. CASE Panicked BY <1>11, StutterStep, Zenon DEF Panicked
<1>12. CASE UNCHANGED vars BY <1>12, StutterStep, Zenon
<1> QED BY <1>1, <1>2, <1>3, <1>4, <1>5, <1>6, <1>7, <1>8, <1>9, <1>10, <1>11, <1>12 DEF Next

(* The inductive invariant of the pool holds in every reachable state, for *)
(* every finite set of accounts and transactions, every limit of the       *)
(* configuration and any number of concurrent callers of Add.              *)
THEOREM PoolInvariant == Spec => []PoolInv
<1>1. Init => PoolInv
  <2>1. Init => Setting
    BY FiniteSets, Zenon DEF Init, Setting
  <2> QED BY <2>1, InitInv, Zenon
<1>2. PoolInv /\ [Next]_vars => PoolInv'
  <2>1. PoolInv => Setting
    BY FiniteSets, Zenon DEF PoolInv, Setting
  <2> QED BY <2>1, NextStep, Zenon
<1> QED BY <1>1, <1>2, PTL DEF Spec

(* The maps and the locals of the loops keep their types: the virtual      *)
(* nonces never go below zero.                                             *)
THEOREM PoolTypes == Spec => []TypeOK
<1>1. PoolInv => TypeOK
  BY Zenon DEF PoolInv
<1> QED BY <1>1, PoolInvariant, PTL

(* The lookup of all transactions is exactly the pending and the queued    *)
(* ones, in one list each and one per nonce.                               *)
THEOREM LookupStaysExact == Spec => []LookupExact
<1>1. ASSUME PoolInv PROVE LookupExact
  <2>1. Lookup(pool) /\ Lists(pool)
    BY <1>1, Zenon DEF PoolInv, Agreeing
  <2>2. ASSUME NEW a \in Accounts, NEW t \in Held(pool, a)
        PROVE  t.from = a /\ At(Held(pool, a), t.nonce) = {t}
    BY <2>1 DEF Lists, Unique, At
  <2> QED BY <2>1, <2>2, Zenon DEF Lookup, Lists, LookupExact
<1> QED BY <1>1, PoolInvariant, PTL

(* What is pending can be executed one after the other from the state the  *)
(* pool knows: no removal, replacement, promotion or reset leaves a gap.   *)
THEOREM PendingStaysExecutable == Spec => []PendingExecutable
<1>1. PoolInv => PendingExecutable
  BY Zenon DEF PoolInv, Behind, ExecutableOn, PendingExecutable
<1> QED BY <1>1, PoolInvariant, PTL

(* An address is reserved exactly while the pool holds a transaction of it *)
THEOREM ReservedStaysExact == Spec => []ReservedExact
<1>1. PoolInv => ReservedExact
  BY Zenon DEF PoolInv, Reserves, ReservedExact
<1> QED BY <1>1, PoolInvariant, PTL

(* Add makes room before it places: the pool never outgrows its slots.     *)
THEOREM PoolStaysBounded == Spec => []PoolBounded
<1>1. PoolInv => PoolBounded
  BY Zenon DEF PoolInv
<1> QED BY <1>1, PoolInvariant, PTL

(* While the context can be read, a quiet pool has handed every pending    *)
(* transaction to BroadcastTxFn, however the runs, the replacements and    *)
(* the resets interleaved.                                                 *)
THEOREM QuietPoolGossiped == Spec => []PendingGossiped
<1>1. ASSUME PoolInv PROVE PendingGossiped
  <2>1. SUFFICES ASSUME Quiet, ~ ContextFails, NEW t \in Pending(pool) PROVE t \in gossiped
    BY Zenon DEF PendingGossiped
  <2>2. Events /\ run = None /\ \A c \in Callers : asking[c] = None
    BY <1>1, <2>1, Zenon DEF PoolInv, Quiet
  <2>3. loop.events = {}
    BY <2>2, Zenon DEF Events
  <2> QED BY <2>1, <2>2, <2>3, Zenon DEF Events
<1> QED BY <1>1, PoolInvariant, PTL
=============================================================================
