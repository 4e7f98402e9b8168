---------------------------- MODULE ForkingChain ----------------------------
(***************************************************************************)
(* The chain that the providers read: the best chain moves, a prefix of it *)
(* is finalized, and one transaction may be in it.  External to the        *)
(* repository; what is assumed of it is what the providers rely on.        *)
(*                                                                         *)
(* A block is identified with the chain that ends in it, as its hash       *)
(* commits to its ancestors.  A reorganisation goes to any chain above the *)
(* finalized block, so also back to one that was left before.              *)
(***************************************************************************)
EXTENDS Primitives, Sequences

CONSTANTS
    Labels,         \* what tells apart two blocks on the same parent: those without
    TxLabels,       \* the transaction, and those with it
    MaxHeight,      \* bound on the height of the chain
    MaxReorgs       \* bound on the reorganisations

Block == [label : Labels, tx : {FALSE}] \cup [label : TxLabels, tx : {TRUE}]

\* None is neither a number nor a block.
ASSUME ChainAssumption == /\ MaxHeight \in Nat \ {0}
                          /\ MaxReorgs \in Nat
                          /\ NoValue \notin Int
                          /\ NoValue \notin Seq(Block)

VARIABLES
    head,           \* the best chain: a sequence of blocks' contents
    finalized,      \* the height of the finalized block
    reorgs,         \* the reorganisations so far
    left            \* history: the blocks with the transaction that were on the
                    \* best chain and left it, since the reader last began anew

chainVars == <<head, finalized, reorgs>>

Ancestor(b, n) == SubSeq(b, 1, n)
\* get_block_hash, eth_getBlockByNumber: the block of that height, if any.
BlockAt(n) == IF n \in 1..Len(head) THEN Ancestor(head, n) ELSE NoValue
HasTx(b) == \E n \in 1..Len(b) : b[n].tx
TxBlock(b) == Ancestor(b, CHOOSE n \in 1..Len(b) : b[n].tx)
Inclusions(b) == {Ancestor(b, n) : n \in {m \in 1..Len(b) : b[m].tx}}
IsFinal(b) == Len(b) <= finalized /\ BlockAt(Len(b)) = b

\* A transaction is in a chain at most once (its nonce).
OnceAtMost(b) == \A m, n \in 1..Len(b) : b[m].tx /\ b[n].tx => m = n
Chains == {b \in UNION {[1..n -> Block] : n \in 1..MaxHeight} : OnceAtMost(b)}

ChainInit == /\ head \in Chains /\ Len(head) = 1
             /\ finalized = 0
             /\ reorgs = 0
             /\ left = {}

BlockMade == /\ Len(head) < MaxHeight
             /\ \E block \in Block : head' = Append(head, block) /\ OnceAtMost(head')
             /\ UNCHANGED <<finalized, reorgs, left>>

\* The best chain may become longer, shorter, or change at the same height.
Reorganised ==
    /\ reorgs < MaxReorgs /\ reorgs' = reorgs + 1
    /\ \E b \in Chains \ {head} :
        /\ finalized <= Len(b) /\ Ancestor(b, finalized) = Ancestor(head, finalized)
        /\ head' = b
    /\ left' = left \cup (Inclusions(head) \ Inclusions(head'))
    /\ UNCHANGED finalized

Finalized == /\ finalized < Len(head)
             /\ finalized' = finalized + 1
             /\ UNCHANGED <<head, reorgs, left>>

ChainStep == BlockMade \/ Reorganised \/ Finalized
=============================================================================
