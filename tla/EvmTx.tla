-------------------------------- MODULE EvmTx --------------------------------
(***************************************************************************)
(* A watch of an EVM transaction (providers/evm.py): every evaluation reads*)
(* the receipt, the canonical block at the height of the inclusion, the    *)
(* head and, if finality is asked for, the finalized (or safe) block, by   *)
(* separate RPCs.  The head is the latest one (poll) or the one that a     *)
(* notification named, which may not be canonical any more.                *)
(***************************************************************************)
EXTENDS ForkingChain

CONSTANTS
    Finalities,      \* what the watch may wait for
    Confirmations,   \* the numbers of confirmations that may be waited for
    MaxEvmFailures   \* bound on the reads that fail

VARIABLES
    read,            \* the read of the transaction in progress
    evmStatus,       \* the status that was read, until the next read begins
    wanted,          \* the finality and the confirmations waited for
    evmOutcome,      \* the primitive's last answer
    lost             \* reads that failed

evmVars == <<chainVars, left, read, evmStatus, wanted, evmOutcome, lost>>

-----------------------------------------------------------------------------
NoInclusion == NoValue
IdleRead == [at |-> "idle", pin |-> NoValue, inclusion |-> NoInclusion, depth |-> 0,
             steady |-> TRUE]
Pending == [level |-> "pending", block |-> NoValue, hash |-> NoValue,
            confirmations |-> NoValue, receipt |-> FALSE, pin |-> NoValue, steady |-> TRUE]

\* A read begins the history anew.
Reading(place) == /\ read.at = place /\ UNCHANGED <<chainVars, wanted, lost>>
                  /\ left' = IF place = "idle" THEN {} ELSE left
Onwards(r) == read' = r /\ UNCHANGED <<evmStatus, evmOutcome>>
Reads(s) ==
    /\ read' = IdleRead
    /\ evmStatus' = s
    /\ evmOutcome' = Transaction(wanted, NotFired, s).outcome

\* Errors that the runtime retries at the next head or tick.
Unavailable == Onwards(IdleRead)
\* A DecodeError ends the watch.
Undecodable == Onwards([IdleRead EXCEPT !.at = "decode_error"])

-----------------------------------------------------------------------------
EvmInit ==
    /\ ChainInit
    /\ read = IdleRead
    /\ evmStatus = Pending
    /\ wanted \in {[finality |-> f, confirmations |-> NoValue] : f \in Finalities}
                    \cup {[finality |-> "included", confirmations |-> n] : n \in Confirmations}
    /\ evmOutcome = "needs_data"
    /\ lost = 0

\* A tick without a block, or a notified head.
ReadBegins ==
    /\ Reading("idle") /\ evmOutcome # "match"
    /\ \E pin \in {NoValue, head} :
        read' = [IdleRead EXCEPT !.at = "receipt", !.pin = pin]
    /\ evmStatus' = Pending /\ UNCHANGED evmOutcome

\* eth_getTransactionReceipt
ReceiptRead ==
    /\ Reading("receipt")
    /\ Onwards(IF HasTx(head)
               THEN [read EXCEPT !.inclusion = TxBlock(head), !.at = "canonical"]
               ELSE [read EXCEPT !.at = "pending_head"])

\* eth_getBlockByNumber of the inclusion's height
CanonicalRead ==
    /\ Reading("canonical")
    /\ LET canonical == BlockAt(Len(read.inclusion))
       IN IF canonical = NoValue THEN Undecodable
          ELSE IF canonical # read.inclusion THEN Reads(Pending)
          ELSE Onwards([read EXCEPT !.at = "head"])

\* _read_block_ref: a notified head is looked up by its height and compared.
BlockRef == IF read.pin = NoValue THEN head ELSE BlockAt(Len(read.pin))
\* Mutant: the height of the notified head is enough.
MutNeverSuperseded == FALSE
Superseded == read.pin # NoValue /\ BlockRef # read.pin

PendingHeadRead ==
    /\ Reading("pending_head")
    /\ IF Superseded THEN Unavailable ELSE Reads(Pending)

\* steady (history): the inclusion stayed on the best chain since it was read.
Included(level, depth, steady) ==
    [level |-> level, block |-> read.inclusion, hash |-> read.inclusion,
     confirmations |-> depth, receipt |-> TRUE, pin |-> read.pin, steady |-> steady]

EvmHeadRead ==
    /\ Reading("head")
    /\ IF Superseded THEN Unavailable
       ELSE LET depth == Len(BlockRef) - Len(read.inclusion) + 1
                steady == read.inclusion \notin left
            IN IF depth < 1 THEN Reads(Pending)
               ELSE IF wanted.finality = "included"
               THEN Reads(Included("included", depth, steady))
               ELSE Onwards([read EXCEPT !.depth = depth, !.steady = steady,
                                         !.at = "finality"])

FinalityRead ==
    /\ Reading("finality")
    /\ Reads(Included(IF finalized >= Len(read.inclusion)
                      THEN wanted.finality ELSE "included", read.depth, read.steady))

\* A transport error or an error response.
ReadFails ==
    /\ read.at \in {"receipt", "canonical", "pending_head", "head", "finality"}
    /\ lost < MaxEvmFailures /\ lost' = lost + 1
    /\ Onwards(IdleRead)
    /\ UNCHANGED <<chainVars, left, wanted>>

ReadStep == \/ ReadBegins \/ ReceiptRead \/ CanonicalRead \/ PendingHeadRead
            \/ EvmHeadRead \/ FinalityRead \/ ReadFails
EvmNext == \/ ReadStep
           \/ ChainStep /\ UNCHANGED <<read, evmStatus, wanted, evmOutcome, lost>>

EvmSpec == EvmInit /\ [][EvmNext]_evmVars

-----------------------------------------------------------------------------
(* An inclusion reported at a notified head is an ancestor of that head, and *)
(* the confirmations are its depth below it, although the receipt, the block *)
(* and the head were read at different times (evm.py:478-509, 557-578), if   *)
(* the inclusion was on the best chain from the receipt to the head: when the*)
(* chain goes to another branch and back, the receipt and the block may be of*)
(* one branch and the head of the other, and nothing compares them.          *)
ConfirmedAtTheHead ==
    evmStatus.level # "pending" /\ evmStatus.pin # NoValue /\ evmStatus.steady =>
        /\ Len(evmStatus.pin) = Len(evmStatus.block) + evmStatus.confirmations - 1
        /\ Ancestor(evmStatus.pin, Len(evmStatus.block)) = evmStatus.block

(* A transaction reported as finalized is in a finalized block: the docstring *)
(* of _read_transaction calls an inclusion that is not canonical any more     *)
(* pending (evm.py:457-463), and bittensor.py:1774-1776 describes the order   *)
(* of reads that breaks this.                                                 *)
EvmFinalIsFinal == evmStatus.level = "finalized" => IsFinal(evmStatus.block)
=============================================================================
