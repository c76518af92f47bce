-------------------------------- MODULE LogFeed --------------------------------
(* What the indexer promises the decoder for one contract: every log of a      *)
(* final block is sent at least once, and the crawl cursor never passes a log  *)
(* that was not. The only excuse is an RPC node that answered from an old      *)
(* view of the chain.                                                          *)
EXTENDS Naturals

CONSTANTS
    LogBlocks,      \* blocks that hold a log of the contract
    StartBlock,     \* first block to crawl
    Versions        \* versions a block can have

VARIABLES
    canon,          \* version of each block on the canonical chain
    sent,           \* <<block, version>> of the logs handed to the broker
    cursor,         \* crawlers.lastProcessedBlock; StartBlock - 1 when there is none
    excused         \* blocks some node answered from an old view

vars == <<canon, sent, cursor, excused>>

Delivered(b) == <<b, canon[b]>> \in sent \/ b \in excused

Init ==
    /\ sent = {} /\ excused = {}
    /\ cursor = StartBlock - 1

\* Blocks are mined and reorganised, but none that the cursor covers.
ChainMoves ==
    /\ \A b \in LogBlocks : StartBlock <= b /\ b <= cursor => canon'[b] = canon[b]
    /\ UNCHANGED <<sent, cursor, excused>>

Excuse ==
    /\ excused \subseteq excused'
    /\ UNCHANGED <<canon, sent, cursor>>

\* Logs are sent, and sent again, ahead of the cursor only.
Send ==
    /\ \E b \in LogBlocks, v \in Versions :
         /\ cursor < b
         /\ v = canon[b] \/ b \in excused
         /\ sent' = sent \cup {<<b, v>>}
    /\ UNCHANGED <<canon, cursor, excused>>

Advance ==
    /\ cursor <= cursor'
    /\ \A b \in LogBlocks : cursor < b /\ b <= cursor' => Delivered(b)
    /\ UNCHANGED <<canon, sent, excused>>

Next == ChainMoves \/ Excuse \/ Send \/ Advance

Spec == Init /\ [][Next]_vars

===============================================================================
