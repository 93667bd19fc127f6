----------------------- MODULE IndexerServiceProofs -----------------------
(* The index of the EVM indexer service has no holes, whatever the height  *)
(* of the chain, the number of restarts and the number of errors.          *)
EXTENDS IndexerService, TLAPS

(* The main loop has taken over from OnStart. *)
Running == pc \notin {"status", "subscribe", "load"}

(* What the main loop has done: nothing above lastBlock is indexed, and    *)
(* nothing between an indexed block and lastBlock was left out.            *)
Covered ==
  Running => /\ \A g \in db : g <= lastBlock
             /\ \A g \in db, h \in eth : g < h /\ h <= lastBlock => h \in db \cup failed

(* The inner loop works on the block after lastBlock, and on none that is  *)
(* not committed.                                                          *)
AtNext ==
  /\ pc \in {"for", "fetch", "index"} => i = lastBlock + 1
  /\ pc \in {"fetch", "index"} => i <= latestBlock

IInv == TypeOK /\ Covered /\ AtNext /\ NoGaps

LEMMA InitIInv == Init => IInv
  <1> SUFFICES ASSUME Init PROVE IInv OBVIOUS
  <1>1. TypeOK
    <2>1. eth \subseteq 1 .. height /\ height \in Nat \ {0} BY DEF Init
    <2>2. db \subseteq eth /\ failed \subseteq 1 .. height BY DEF Init
    <2>3. /\ published \in 0 .. height /\ latestBlock \in 0 .. height
          /\ lastBlock \in 0 .. height /\ i \in 0 .. height + 1
          /\ crashes \in Nat /\ errors \in Nat
      BY DEF Init
    <2>4. receiver \in {"off", "receive", "notify"} /\ pc \in PCs BY DEF Init, PCs
    <2>5. signal \in BOOLEAN /\ blockErr \in BOOLEAN BY Zenon DEF Init
    <2> QED BY <2>1, <2>2, <2>3, <2>4, <2>5 DEF TypeOK
  <1>2. Covered BY DEF Init, Covered, Running
  <1>3. AtNext BY DEF Init, AtNext
  <1>4. NoGaps BY DEF Init, NoGaps
  <1> QED BY <1>1, <1>2, <1>3, <1>4 DEF IInv

LEMMA NextTypeOK == ASSUME IInv, [Next]_vars PROVE TypeOK'
  <1> USE DEF IInv, TypeOK, PCs, chain, index, headers, main
  <1>1. ASSUME NEW isEth \in BOOLEAN, CommitBlock(isEth) PROVE TypeOK'
    BY <1>1 DEF CommitBlock
  <1>2. CASE Status BY <1>2 DEF Status
  <1>3. CASE Subscribe BY <1>3 DEF Subscribe
  <1>4. CASE LoadLast
    <2>1. lastBlock' \in 0 .. height BY <1>4 DEF LoadLast
    <2> QED BY <1>4, <2>1 DEF LoadLast
  <1>5. CASE Check BY <1>5 DEF Check
  <1>6. CASE Wake BY Zenon, <1>6 DEF Wake
  <1>7. CASE For BY <1>7 DEF For
  <1>8. CASE Fetch BY Zenon, <1>8 DEF Fetch
  <1>9. CASE FetchError BY <1>9 DEF FetchError
  <1>10. CASE IndexBlock BY <1>10 DEF IndexBlock, AtNext
  <1>11. CASE IndexBlockError BY <1>11 DEF IndexBlockError, AtNext
  <1>12. CASE Receive BY <1>12 DEF Receive
  <1>13. CASE Notify BY <1>13 DEF Notify
  <1>14. CASE Crash
    <2>1. /\ published' \in 0 .. height /\ latestBlock' \in 0 .. height
          /\ lastBlock' \in 0 .. height /\ i' \in 0 .. height + 1 /\ crashes' \in Nat
      BY <1>14 DEF Crash
    <2>2. receiver' \in {"off", "receive", "notify"} /\ pc' \in PCs BY <1>14 DEF Crash
    <2>3. signal' \in BOOLEAN /\ blockErr' \in BOOLEAN BY Zenon, <1>14 DEF Crash
    <2>4. UNCHANGED <<height, eth, db, failed, errors>> BY <1>14 DEF Crash
    <2> QED BY <2>1, <2>2, <2>3, <2>4
  <1>15. CASE UNCHANGED vars BY <1>15 DEF vars
  <1> QED
    BY <1>1, <1>2, <1>3, <1>4, <1>5, <1>6, <1>7, <1>8, <1>9, <1>10, <1>11, <1>12,
       <1>13, <1>14, <1>15 DEF Next, MainLoop, Receiver

LEMMA NextAtNext == ASSUME IInv, [Next]_vars PROVE AtNext'
  <1> USE DEF IInv, TypeOK, PCs, AtNext, chain, index, headers, main
  <1> SUFFICES ASSUME Next PROVE AtNext' BY DEF vars
  <1>1. CASE MainLoop
    BY Zenon, <1>1 DEF MainLoop, Status, Subscribe, LoadLast, Check, Wake, For, IndexBlock,
                IndexBlockError
  <1>2. CASE Receiver BY <1>2 DEF Receiver, Receive, Notify
  <1> QED BY <1>1, <1>2 DEF Next, CommitBlock, Fetch, FetchError, Crash

LEMMA NextCovered == ASSUME IInv, [Next]_vars PROVE Covered'
  <1> USE DEF IInv, TypeOK, PCs, Covered, Running, chain, index, headers, main
  <1>1. ASSUME NEW isEth \in BOOLEAN, CommitBlock(isEth) PROVE Covered'
    BY <1>1 DEF CommitBlock
  <1>2. CASE LoadLast
    <2>1. CASE db = {} BY <1>2, <2>1 DEF LoadLast
    <2>2. CASE db # {}
      <3>1. PICK k \in db : (\A g \in db : g <= k) /\ lastBlock' = k
        BY Zenon, <1>2, <2>2 DEF LoadLast
      <3>2. db' = db /\ eth' = eth /\ failed' = failed BY <1>2 DEF LoadLast
      <3> QED BY <3>1, <3>2 DEF NoGaps
    <2> QED BY <2>1, <2>2
  <1>3. CASE IndexBlock
    <2>1. i = lastBlock + 1 /\ i \in Int BY <1>3 DEF IndexBlock, AtNext
    <2> QED BY <1>3, <2>1 DEF IndexBlock
  <1>4. CASE IndexBlockError
    <2>1. i = lastBlock + 1 /\ i \in Int BY <1>4 DEF IndexBlockError, AtNext
    <2> QED BY <1>4, <2>1 DEF IndexBlockError
  <1>5. CASE Status \/ Subscribe \/ Crash BY <1>5 DEF Status, Subscribe, Crash
  <1>6. CASE Check \/ Wake \/ For \/ Fetch \/ FetchError
    BY Zenon, <1>6 DEF Check, Wake, For, Fetch, FetchError
  <1>7. CASE Receiver BY Zenon, <1>7 DEF Receiver, Receive, Notify
  <1>8. CASE UNCHANGED vars BY <1>8 DEF vars
  <1> QED BY <1>1, <1>2, <1>3, <1>4, <1>5, <1>6, <1>7, <1>8 DEF Next, MainLoop

LEMMA NextNoGaps == ASSUME IInv, [Next]_vars PROVE NoGaps'
  <1> USE DEF IInv, TypeOK, NoGaps, chain, index, headers, main
  <1>1. ASSUME NEW isEth \in BOOLEAN, CommitBlock(isEth) PROVE NoGaps'
    BY <1>1 DEF CommitBlock
  <1>2. CASE IndexBlock
    <2>1. i = lastBlock + 1 /\ i \in Int BY <1>2 DEF IndexBlock, AtNext
    <2>2. \A g \in db, h \in eth : g < h /\ h <= lastBlock => h \in db \cup failed
      BY <1>2 DEF IndexBlock, Covered, Running
    <2>3. \A g \in db : g <= lastBlock BY <1>2 DEF IndexBlock, Covered, Running
    <2> QED BY <1>2, <2>1, <2>2, <2>3 DEF IndexBlock
  <1>3. CASE UNCHANGED <<eth, db>> /\ failed \subseteq failed' BY <1>3
  <1>4. CASE IndexBlockError BY <1>3, <1>4 DEF IndexBlockError
  <1>5. CASE Status \/ Subscribe \/ LoadLast \/ Crash
    BY <1>3, <1>5 DEF Status, Subscribe, LoadLast, Crash
  <1>6. CASE Check \/ Wake \/ For \/ Fetch \/ FetchError
    BY Zenon, <1>3, <1>6 DEF Check, Wake, For, Fetch, FetchError
  <1>7. CASE Receiver BY <1>3, <1>7 DEF Receiver, Receive, Notify
  <1>8. CASE UNCHANGED vars BY <1>3, <1>8 DEF vars
  <1> QED BY <1>1, <1>2, <1>4, <1>5, <1>6, <1>7, <1>8 DEF Next, MainLoop

(* Along every run of the service, through restarts, lost signals and      *)
(* errors, no block with Ethereum transactions between two indexed blocks  *)
(* is missing from the index unless IndexBlock reported an error for it    *)
(* (OnStart of server/indexer_service.go).                                 *)
THEOREM IndexNoGaps == Spec => [](TypeOK /\ NoGaps)
  <1>1. Init => IInv BY InitIInv
  <1>2. IInv /\ [Next]_vars => IInv'
    BY NextTypeOK, NextAtNext, NextCovered, NextNoGaps DEF IInv
  <1>3. IInv => TypeOK /\ NoGaps BY DEF IInv
  <1> QED BY <1>1, <1>2, <1>3, PTL DEF Spec

(* The heights the two goroutines of the service hold stay in their ranges *)
(* (TypeOK of IndexerService).                                             *)
THEOREM ServiceTypes == Spec => []TypeOK
  <1> QED BY IndexNoGaps, PTL
===========================================================================
