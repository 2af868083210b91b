------------------------------ MODULE FreeList ------------------------------
(***************************************************************************)
(* What the block pool promises its callers about free blocks: uncached    *)
(* ones are handed out first come first served, then the cached ones,      *)
(* least recently accessed first; a cached one may be taken back before.   *)
(* KVBlocks is written over this view of the pool.                         *)
(***************************************************************************)
EXTENDS Integers, Sequences, FiniteSets, Functions

CONSTANTS
    NumBlocks,   \* num_blocks
    MaxAccess    \* bound on last_accessed

VARIABLES
    fifo,    \* free uncached blocks, the next one first
    aged,    \* last_accessed of each free cached block
    handed   \* the block handed out last

listVars == <<fifo, aged, handed>>

Blocks == 0..(NumBlocks - 1)
NoBlock == -1

Free == Range(fifo) \cup DOMAIN aged

ListInit ==
    /\ fifo = [i \in 1..NumBlocks |-> i - 1]
    /\ aged = <<>>
    /\ handed = NoBlock

HandOutUncached ==
    /\ fifo # <<>>
    /\ handed' = Head(fifo)
    /\ fifo' = Tail(fifo)
    /\ UNCHANGED aged

HandOutCached(b) ==
    /\ fifo = <<>>
    /\ b \in DOMAIN aged
    /\ \A c \in DOMAIN aged : aged[b] <= aged[c]
    /\ handed' = b
    /\ aged' = Restrict(aged, DOMAIN aged \ {b})
    /\ UNCHANGED fifo

TakeBack(b) ==
    /\ b \in DOMAIN aged
    /\ aged' = Restrict(aged, DOMAIN aged \ {b})
    /\ UNCHANGED <<fifo, handed>>

ReturnUncached(b) ==
    /\ b \notin Free
    /\ fifo' = Append(fifo, b)
    /\ UNCHANGED <<aged, handed>>

ReturnCached(b, t) ==
    /\ b \notin Free
    /\ aged' = [c \in DOMAIN aged \cup {b} |-> IF c = b THEN t ELSE aged[c]]
    /\ UNCHANGED <<fifo, handed>>

ListNext ==
    \/ HandOutUncached
    \/ \E b \in Blocks :
        \/ HandOutCached(b)
        \/ TakeBack(b)
        \/ ReturnUncached(b)
        \/ \E t \in 1..MaxAccess : ReturnCached(b, t)

ListSpec == ListInit /\ [][ListNext]_listVars
=============================================================================
