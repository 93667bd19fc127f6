--------------------------- MODULE IndexerService ---------------------------
(* The service that indexes the Ethereum transactions of committed blocks    *)
(* (server/indexer_service.go) over the key-value index                      *)
(* (indexer/kv_indexer.go).  One goroutine receives block headers and raises *)
(* latestBlock, the main loop fetches and indexes blocks up to it, the node  *)
(* may stop at any point and start again with what the index holds.          *)
(* latestBlock is shared without a lock: it is one machine word that every   *)
(* loop iteration reads anew, so each read sees some earlier write whole.    *)
EXTENDS Integers, FiniteSets

CONSTANTS
  MaxHeight,   \* bound on the height of the chain
  MaxCrashes,  \* bound on the number of restarts
  MaxErrors    \* bound on the failures of fetching and of indexing

ASSUME ServiceAssumption ==
  MaxHeight \in Nat \ {0} /\ MaxCrashes \in Nat /\ MaxErrors \in Nat

VARIABLES
  height,       \* height of the committed chain
  eth,          \* the blocks in which IndexBlock finds transactions to save
  db,           \* the blocks the index holds an entry of
  failed,       \* the blocks IndexBlock returned an error for
  published,    \* height of the last header event received
  latestBlock,  \* shared by the two goroutines
  receiver,     \* the header goroutine: "off", "receive" or "notify"
  signal,       \* newBlockSignal holds a value (capacity 1)
  lastBlock,    \* the last block taken care of
  blockErr,     \* the last fetch failed
  i,            \* the block of the inner loop
  pc,           \* the main loop
  crashes, errors

chain == <<height, eth>>
index == <<db, failed>>
headers == <<published, latestBlock, receiver, signal>>
main == <<lastBlock, blockErr, i, pc>>
vars == <<chain, index, headers, main, crashes, errors>>

Init ==
  /\ height = 1 /\ eth \in SUBSET {1}
  /\ db = {} /\ failed = {}
  /\ published = 0 /\ latestBlock = 0 /\ receiver = "off" /\ signal = FALSE
  /\ lastBlock = 0 /\ blockErr = FALSE /\ i = 0 /\ pc = "status"
  /\ crashes = 0 /\ errors = 0

(* CometBFT commits a block, with or without Ethereum transactions.          *)
CommitBlock(isEth) ==
  /\ height < MaxHeight
  /\ height' = height + 1
  /\ eth' = IF isEth THEN eth \cup {height + 1} ELSE eth
  /\ UNCHANGED <<index, headers, main, crashes, errors>>

(***************************************************************************)
(* OnStart                                                                 *)
(***************************************************************************)
(* The latest height is asked for before the subscription is made.         *)
Status ==
  /\ pc = "status"
  /\ latestBlock' = height
  /\ pc' = "subscribe"
  /\ UNCHANGED <<chain, index, published, receiver, signal, lastBlock, blockErr,
                 i, crashes, errors>>

(* Subscribe: headers of the blocks from now on; the goroutine starts.     *)
Subscribe ==
  /\ pc = "subscribe"
  /\ published' = height
  /\ receiver' = "receive"
  /\ pc' = "load"
  /\ UNCHANGED <<chain, index, latestBlock, signal, lastBlock, blockErr, i,
                 crashes, errors>>

(* LastIndexedBlock; with an empty index the past is skipped.              *)
LoadLast ==
  /\ pc = "load"
  /\ \/ db = {} /\ lastBlock' = latestBlock
     \/ \E h \in db : (\A g \in db : g <= h) /\ lastBlock' = h
  /\ pc' = "check"
  /\ UNCHANGED <<chain, index, headers, blockErr, i, crashes, errors>>

(***************************************************************************)
(* The goroutine that receives headers                                     *)
(***************************************************************************)
Receive ==
  /\ receiver = "receive"
  /\ published < height
  /\ published' = published + 1
  /\ IF published + 1 > latestBlock
     THEN latestBlock' = published + 1 /\ receiver' = "notify"
     ELSE UNCHANGED <<latestBlock, receiver>>
  /\ UNCHANGED <<chain, index, signal, main, crashes, errors>>

(* The send that does not wait: a full channel holds a signal already.     *)
Notify ==
  /\ receiver = "notify"
  /\ signal' = TRUE
  /\ receiver' = "receive"
  /\ UNCHANGED <<chain, index, published, latestBlock, main, crashes, errors>>

(***************************************************************************)
(* The main loop                                                           *)
(***************************************************************************)
(* Mutants: the comparison lets the newest block wait; the inner loop      *)
(* starts at the newest block                                              *)
MutCheck ==
  /\ pc = "check"
  /\ IF latestBlock <= lastBlock + 1 \/ blockErr
     THEN pc' = "wait" /\ UNCHANGED i
     ELSE pc' = "for" /\ i' = lastBlock + 1
  /\ UNCHANGED <<chain, index, headers, lastBlock, blockErr, crashes, errors>>
MutCheckFrom ==
  /\ pc = "check"
  /\ IF latestBlock <= lastBlock \/ blockErr
     THEN pc' = "wait" /\ UNCHANGED i
     ELSE pc' = "for" /\ i' = latestBlock
  /\ UNCHANGED <<chain, index, headers, lastBlock, blockErr, crashes, errors>>

Check ==
  /\ pc = "check"
  /\ IF latestBlock <= lastBlock \/ blockErr
     THEN pc' = "wait" /\ UNCHANGED i
     ELSE pc' = "for" /\ i' = lastBlock + 1
  /\ UNCHANGED <<chain, index, headers, lastBlock, blockErr, crashes, errors>>

(* A new block was signalled, or NewBlockWaitTimeout passed.               *)
Wake ==
  /\ pc = "wait"
  /\ signal' \in {FALSE, signal}
  /\ pc' = "check"
  /\ UNCHANGED <<chain, index, published, latestBlock, receiver, lastBlock,
                 blockErr, i, crashes, errors>>

(* The condition of the inner loop reads latestBlock each time.            *)
For ==
  /\ pc = "for"
  /\ pc' = IF i <= latestBlock THEN "fetch" ELSE "check"
  /\ UNCHANGED <<chain, index, headers, lastBlock, blockErr, i, crashes, errors>>

(* Block and BlockResults                                                  *)
Fetch ==
  /\ pc = "fetch"
  /\ blockErr' = FALSE
  /\ pc' = "index"
  /\ UNCHANGED <<chain, index, headers, lastBlock, i, crashes, errors>>

FetchError ==
  /\ pc = "fetch"
  /\ errors < MaxErrors
  /\ errors' = errors + 1
  /\ blockErr' = TRUE
  /\ pc' = "check"
  /\ UNCHANGED <<chain, index, headers, lastBlock, i, crashes>>

(* IndexBlock writes one batch; a block without Ethereum transactions      *)
(* leaves no entry.                                                        *)
IndexBlock ==
  /\ pc = "index"
  /\ db' = IF i \in eth THEN db \cup {i} ELSE db
  /\ lastBlock' = i
  /\ i' = i + 1
  /\ pc' = "for"
  /\ UNCHANGED <<chain, failed, headers, blockErr, crashes, errors>>

(* An error of IndexBlock is only logged: the block is left behind.        *)
IndexBlockError ==
  /\ pc = "index"
  /\ errors < MaxErrors
  /\ errors' = errors + 1
  /\ failed' = failed \cup {i}
  /\ lastBlock' = i
  /\ i' = i + 1
  /\ pc' = "for"
  /\ UNCHANGED <<chain, db, headers, blockErr, crashes>>

(* The node stops, or OnStart returns an error, which ends the node: all   *)
(* but the index is lost, and the node starts again.                       *)
Crash ==
  /\ crashes < MaxCrashes
  /\ crashes' = crashes + 1
  /\ published' = 0 /\ latestBlock' = 0 /\ receiver' = "off" /\ signal' = FALSE
  /\ lastBlock' = 0 /\ blockErr' = FALSE /\ i' = 0 /\ pc' = "status"
  /\ UNCHANGED <<chain, index, errors>>

MainLoop == Status \/ Subscribe \/ LoadLast \/ Check \/ Wake \/ For
              \/ IndexBlock \/ IndexBlockError
Receiver == Receive \/ Notify

Next ==
  \/ \E isEth \in BOOLEAN : CommitBlock(isEth)
  \/ MainLoop
  \/ Fetch
  \/ FetchError
  \/ Receiver
  \/ Crash

(* Goroutines that can run do run, and a fetch that is tried again and     *)
(* again succeeds at last.                                                 *)
Fairness == WF_vars(MainLoop) /\ WF_vars(Receiver)
              /\ WF_vars(Fetch \/ FetchError) /\ SF_vars(Fetch)

Spec == Init /\ [][Next]_vars /\ Fairness

(***************************************************************************)
(* Properties                                                              *)
(***************************************************************************)
PCs == {"status", "subscribe", "load", "check", "wait", "for", "fetch", "index"}
TypeOK ==
  /\ height \in Nat \ {0}
  /\ eth \subseteq 1 .. height /\ db \subseteq eth /\ failed \subseteq 1 .. height
  /\ published \in 0 .. height /\ latestBlock \in 0 .. height
  /\ receiver \in {"off", "receive", "notify"} /\ signal \in BOOLEAN
  /\ lastBlock \in 0 .. height /\ blockErr \in BOOLEAN
  /\ i \in 0 .. height + 1 /\ pc \in PCs
  /\ crashes \in Nat /\ errors \in Nat

(* The index has no holes: a block with Ethereum transactions between two  *)
(* indexed ones is indexed, or IndexBlock reported an error for it.  Lost  *)
(* signals, headers missed before the subscription and restarts leave none.*)
NoGaps ==
  \A g, k \in db, h \in eth : g < h /\ h < k => h \in db \cup failed

(* A block the service has heard of and not dealt with is dealt with,      *)
(* unless the node stops or a fetch fails: no notification is lost between *)
(* the two goroutines.                                                     *)
Behind(h) == pc \notin {"status", "subscribe", "load"}
               /\ lastBlock < h /\ h <= latestBlock
Stopped == pc \in {"status", "subscribe", "load"}
CatchesUp ==
  \A h \in 1 .. MaxHeight : Behind(h) ~> (lastBlock >= h \/ Stopped \/ blockErr)

(* "wait before retrying the data fetching": after a failed fetch the      *)
(* service tries again, and so gets to the block at last.                  *)
Retries == \A h \in 1 .. MaxHeight : Behind(h) ~> (lastBlock >= h \/ Stopped)
=============================================================================
