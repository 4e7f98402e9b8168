------------------------------- MODULE TxScan -------------------------------
(***************************************************************************)
(* A watch of a Bittensor transaction (providers/bittensor.py, core/       *)
(* primitives/tx.py).  The node has no index of transactions: the provider *)
(* scans the bodies of a bounded number of blocks, from the head down, and *)
(* keeps a cursor between the calls, so that each call reads only what is  *)
(* new.  One action per RPC; the chain moves between any two of them.      *)
(***************************************************************************)
EXTENDS ForkingChain

CONSTANTS
    Horizon,        \* _TX_SEARCH_HORIZON_BLOCKS (300)
    BodiesFrom,     \* the lowest block whose body the node still has
    MaxFailures     \* bound on the RPCs that fail

ASSUME ScanAssumption == Horizon \in Nat /\ BodiesFrom \in Nat

VARIABLES
    cursor,         \* _TxScanState of the transaction
    call,           \* the call of get_block_finality in progress
    status,         \* the status returned last
    target,         \* the finality that the watch waits for
    outcome,        \* the primitive's last answer
    failures

scanVars == <<chainVars, left, cursor, call, status, target, outcome, failures>>

-----------------------------------------------------------------------------
Status(level, b) == [level |-> level, block |-> b]
NoStatus == Status("pending", NoValue)

NoCursor == [known |-> FALSE, lastHead |-> NoValue, next |-> NoValue,
             oldest |-> NoValue, scanHead |-> NoValue, match |-> NoValue,
             included |-> NoStatus]
Idle == [at |-> "idle", head |-> NoValue, final |-> NoValue]

Scanning(c) == c.next # NoValue
Oldest300(b) == IF Len(b) > Horizon THEN Len(b) - Horizon + 1 ELSE 1

\* _begin_tx_scan
Began(c, b, oldest) ==
    [c EXCEPT !.next = Len(b), !.oldest = oldest, !.scanHead = b]
\* _finish_tx_scan
Finished(c) ==
    [NoCursor EXCEPT !.known = TRUE, !.included = c.included,
        !.lastHead = IF c.scanHead = NoValue THEN c.lastHead ELSE c.scanHead]

\* A search that begins without a cursor begins the history anew.
At(place) == /\ call.at = place /\ UNCHANGED <<chainVars, target, failures>>
             /\ left' = IF place = "head" /\ ~cursor.known THEN {} ELSE left
Goto(place) == call' = [call EXCEPT !.at = place]

\* TxPrimitive.evaluate of the status that the call returns.
Observed(s) == [level |-> s.level, block |-> s.block, hash |-> s.block,
                confirmations |-> NoValue, receipt |-> FALSE]
Returns(s) ==
    /\ call' = Idle
    /\ status' = s
    /\ outcome' = Transaction([finality |-> target, confirmations |-> NoValue],
                              NotFired, Observed(s)).outcome
Continues == UNCHANGED <<status, outcome>>

-----------------------------------------------------------------------------
Init ==
    /\ ChainInit
    /\ cursor = NoCursor
    /\ call = Idle
    /\ status = NoStatus
    /\ target \in {"included", "finalized"}
    /\ outcome = "needs_data"
    /\ failures = 0

\* Mutant: a cached inclusion is returned as it was.
MutCallReturnsCached ==
    /\ At("idle") /\ outcome # "match"
    /\ UNCHANGED cursor
    /\ IF cursor.included = NoStatus THEN Goto("head") /\ Continues
       ELSE Returns(cursor.included)

\* get_block_finality: a cached inclusion is refreshed; a final one needs no RPC.
CallBegins ==
    /\ At("idle") /\ outcome # "match"
    /\ UNCHANGED cursor
    /\ CASE cursor.included.level = "finalized" -> Returns(cursor.included)
         [] cursor.included.level = "included" -> Goto("refreshFinal") /\ Continues
         [] cursor.included.level = "pending" -> Goto("head") /\ Continues

\* _refresh_cached_tx_finality: finality before canonicity.
RefreshFinal ==
    /\ At("refreshFinal")
    /\ call' = [call EXCEPT !.final = finalized, !.at = "refreshCanon"]
    /\ UNCHANGED cursor /\ Continues

LevelAt(b, final) == IF Len(b) <= final THEN "finalized" ELSE "included"

\* Mutant: canonicity is not looked at again.
MutRefreshUnchecked ==
    /\ At("refreshCanon")
    /\ LET b == cursor.included.block
       IN Returns(Status(LevelAt(b, call.final), b)) /\ UNCHANGED cursor

RefreshCanon ==
    /\ At("refreshCanon")
    /\ LET b == cursor.included.block
       IN IF BlockAt(Len(b)) # b
          THEN cursor' = NoCursor /\ Goto("head") /\ Continues
          ELSE Returns(Status(LevelAt(b, call.final), b)) /\ UNCHANGED cursor

\* The node scanned already, up to this very block.
NothingNew == cursor.known /\ ~Scanning(cursor) /\ head = cursor.lastHead
Resumes == cursor.known /\ Scanning(cursor)
Advanced == /\ cursor.known /\ ~Scanning(cursor)
            /\ Len(head) > Len(cursor.lastHead)
Searches(c) == /\ cursor' = c
               /\ Goto(IF c.match = NoValue THEN "scan" ELSE "final")

HeadRead ==
    /\ At("head")
    /\ IF NothingNew THEN Returns(NoStatus) /\ UNCHANGED cursor
       ELSE /\ Continues
            /\ IF Advanced
               THEN /\ call' = [call EXCEPT !.head = head, !.at = "previous"]
                    /\ UNCHANGED cursor
               ELSE IF Resumes THEN Searches(cursor)
               ELSE Searches(Began([NoCursor EXCEPT !.known = TRUE,
                                        !.lastHead = IF cursor.known THEN cursor.lastHead
                                                                     ELSE head],
                                   head, Oldest300(head)))

\* Mutant: the chain only grows.
MutPreviousAssumed ==
    /\ At("previous")
    /\ Searches(Began(cursor, call.head, Len(cursor.lastHead) + 1))
    /\ Continues

\* Is the chain scanned before still the canonical one?
PreviousRead ==
    /\ At("previous")
    /\ LET last == cursor.lastHead
           stands == BlockAt(Len(last)) = last
       IN Searches(Began(cursor, call.head,
                         IF stands THEN Len(last) + 1 ELSE Oldest300(call.head)))
    /\ Continues

\* _scan_for_tx, _block_extrinsic_hashes: one block, looked up by its height.
\* The cursor moves only when its body was read.
ScanBlock ==
    /\ At("scan") /\ cursor.next >= cursor.oldest
    /\ Continues
    /\ LET b == BlockAt(cursor.next)
           passed == [cursor EXCEPT !.next = @ - 1]
       IN IF b = NoValue THEN cursor' = passed /\ UNCHANGED call
          ELSE IF Len(b) < BodiesFrom THEN Goto("not_found") /\ UNCHANGED cursor
          ELSE IF b[Len(b)].tx THEN cursor' = [passed EXCEPT !.match = b] /\ Goto("final")
          ELSE cursor' = passed /\ UNCHANGED call

ScanEnds ==
    /\ At("scan") /\ cursor.next < cursor.oldest
    /\ cursor' = Finished(cursor)
    /\ Returns(NoStatus)

\* _build_finality_status
FinalRead ==
    /\ At("final")
    /\ call' = [call EXCEPT !.final = finalized, !.at = "canon"]
    /\ UNCHANGED cursor /\ Continues

CanonRead ==
    /\ At("canon")
    /\ LET b == cursor.match
           s == Status(LevelAt(b, call.final), b)
       IN IF BlockAt(Len(b)) # b
          THEN cursor' = NoCursor /\ Returns(NoStatus)
          ELSE cursor' = [Finished(cursor) EXCEPT !.included = s] /\ Returns(s)

\* A SubstrateRequestException: the runtime calls again, with the cursor as is.
RpcFails ==
    /\ call.at \in {"refreshFinal", "refreshCanon", "head", "previous", "scan",
                    "final", "canon"}
    /\ failures < MaxFailures /\ failures' = failures + 1
    /\ call' = Idle
    /\ UNCHANGED <<chainVars, left, cursor, target>> /\ Continues

CallStep == \/ CallBegins \/ RefreshFinal \/ RefreshCanon \/ HeadRead
            \/ PreviousRead \/ ScanBlock \/ ScanEnds \/ FinalRead \/ CanonRead
            \/ RpcFails

Next == \/ CallStep
        \/ ChainStep /\ UNCHANGED <<cursor, call, status, target, outcome, failures>>

Spec == Init /\ [][Next]_scanVars
\* The runtime polls, an RPC ends, and the chain finalizes what it has.
FairSpec == Spec /\ WF_scanVars(CallStep) /\ WF_chainVars(Finalized)

-----------------------------------------------------------------------------
(* A transaction reported as finalized is in a finalized block, whatever     *)
(* reorganisations happened between the RPCs that led to the report          *)
(* (bittensor.py:1766-1795 snapshots finality before it checks canonicity).  *)
FinalIsFinal == status.level = "finalized" => IsFinal(status.block)

(* Between two calls, whatever ranges were resumed after failures or scanned *)
(* while the chain was reorganised, the cursor has passed no block within the*)
(* horizon that holds the transaction, but for one that left the best chain  *)
(* while the cursor was kept.  Such a block may be back: it was looked up by *)
(* its height while the other branch was the best, and only the last head is *)
(* compared afterwards (bittensor.py:1656-1739, 1797-1828).                  *)
NothingMissed ==
    LET last == cursor.lastHead
    IN cursor.known /\ ~Scanning(cursor) /\ cursor.included = NoStatus
       => \A n \in Oldest300(last)..Len(last) : last[n].tx => Ancestor(last, n) \in left

(* A transaction that is final, was not too old for the first scan and did   *)
(* not leave the best chain since, is reported as final in the end, unless   *)
(* the node no longer has the bodies of the blocks (bittensor.py:1656-1739). *)
Reported == outcome = "match" \/ call.at = "not_found"
FinalAndRecent == \E n \in (MaxHeight - Horizon + 1)..MaxHeight :
                      n <= finalized /\ head[n].tx /\ Ancestor(head, n) \notin left
EventuallyFinal == FinalAndRecent ~> Reported
=============================================================================
