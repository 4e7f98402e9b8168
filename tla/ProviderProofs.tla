--------------------------- MODULE ProviderProofs ---------------------------
(***************************************************************************)
(* What the watches of transactions report, on Bittensor and on EVM chains:*)
(* for a chain of any length, reorganised to any other chain between any   *)
(* two RPCs, any horizon and any failures, a final report is final; and for*)
(* a block that did not leave the best chain meanwhile, the cursor does not*)
(* pass it, and an inclusion reported at a head is below that head.  Then  *)
(* the properties of the scenes of MC_Provider: the composed model has them*)
(* because the module of each scene has.                                   *)
(***************************************************************************)
EXTENDS MC_Provider, TLAPS


-----------------------------------------------------------------------------
(***************************************************************************)
(* The chain, as the transaction watches need it: which blocks are on the  *)
(* best chain, and what a step of the chain leaves of what was seen of it. *)
(* A finalized block is never left.  A block with the transaction that was *)
(* on the best chain is there still, or the history says that it left.     *)
(***************************************************************************)

Proper(b) == b \in Seq(Block) /\ Len(b) >= 1

\* The first n blocks of b are those of h.
Agrees(b, h, n) == n <= Len(h) /\ \A i \in 1..n : b[i] = h[i]
\* b ends in a block of h.
Canonical(b, h) == Agrees(b, h, Len(b))
\* Since b was the best chain, each of its blocks with the transaction is on h or
\* among those that left.
Recorded(b, h, l) ==
    /\ Proper(b)
    /\ \A n \in 1..Len(b) : b[n].tx => Ancestor(b, n) \in l \/ Agrees(b, h, n)

ChainType == Proper(head) /\ finalized \in 0..Len(head)

-----------------------------------------------------------------------------
(* The chain. *)

\* The provider's comparison of a block with the canonical one at its height.
LEMMA CanonicalBlock ==
    ASSUME ChainType, NEW b, Proper(b)
    PROVE  BlockAt(Len(b)) = b <=> Canonical(b, head)
  <1>1. b \in Seq(Block) /\ head \in Seq(Block) /\ Len(b) \in Nat /\ Len(head) \in Nat /\ Len(b) >= 1
    BY DEF ChainType, Proper
  <1>2. CASE Len(b) <= Len(head)
    <2>1. BlockAt(Len(b)) = SubSeq(head, 1, Len(b))
      BY <1>1, <1>2 DEF BlockAt, Ancestor
    <2> DEFINE a == SubSeq(head, 1, Len(b))
    <2>2. a \in Seq(Block) /\ Len(a) = Len(b) /\ \A i \in 1..Len(b) : a[i] = head[i]
      BY <1>1, <1>2
    <2> HIDE DEF a
    <2>3. a = b <=> \A i \in 1..Len(b) : a[i] = b[i]
      BY <1>1, <2>2
    <2>4. QED
      BY <1>2, <2>1, <2>2, <2>3 DEF Canonical, Agrees, a
  <1>3. CASE ~(Len(b) <= Len(head))
    <2>1. BlockAt(Len(b)) = NoValue
      BY <1>1, <1>3 DEF BlockAt
    <2>2. QED
      BY <1>1, <1>3, <2>1, ChainAssumption DEF Canonical, Agrees
  <1>4. QED
    BY <1>1, <1>2, <1>3

\* What BlockAt returns is a block of the best chain.
LEMMA BlockIsCanonical ==
    ASSUME ChainType, NEW n \in Int, BlockAt(n) # NoValue
    PROVE  /\ Proper(BlockAt(n)) /\ Canonical(BlockAt(n), head)
           /\ n \in 1..Len(head) /\ Len(BlockAt(n)) = n
           /\ \A i \in 1..n : BlockAt(n)[i] = head[i]
  <1>1. head \in Seq(Block) /\ Len(head) \in Nat
    BY DEF ChainType, Proper
  <1>2. n \in 1..Len(head) /\ BlockAt(n) = SubSeq(head, 1, n)
    BY <1>1 DEF BlockAt, Ancestor
  <1> DEFINE a == SubSeq(head, 1, n)
  <1>3. a \in Seq(Block) /\ Len(a) = n /\ \A i \in 1..n : a[i] = head[i]
    BY <1>1, <1>2
  <1> HIDE DEF a
  <1>4. BlockAt(n) = a
    BY <1>2 DEF a
  <1>5. QED
    BY <1>1, <1>2, <1>3, <1>4 DEF Proper, Canonical, Agrees

\* A block within the chain is found.
LEMMA BlockExists ==
    ASSUME ChainType, NEW n \in 1..Len(head)
    PROVE  BlockAt(n) # NoValue
  <1>1. head \in Seq(Block) /\ Len(head) \in Nat
    BY DEF ChainType, Proper
  <1>2. BlockAt(n) = SubSeq(head, 1, n)
    BY DEF BlockAt, Ancestor
  <1>3. SubSeq(head, 1, n) \in Seq(Block)
    BY <1>1
  <1>4. QED
    BY <1>2, <1>3, ChainAssumption

\* A step of the chain keeps what is finalized, and notes what it leaves.
Moves ==
    /\ finalized <= finalized' /\ finalized <= Len(head')
    /\ \A i \in 1..finalized : head'[i] = head[i]
    /\ left \subseteq left' /\ Inclusions(head) \subseteq left' \cup Inclusions(head')

LEMMA AppendedChain ==
    ASSUME NEW b \in Seq(Block), NEW x \in Block
    PROVE  /\ Proper(Append(b, x)) /\ Len(Append(b, x)) = Len(b) + 1
           /\ \A i \in 1..Len(b) : Append(b, x)[i] = b[i]
  <1> DEFINE c == Append(b, x)
  <1>1. c \in Seq(Block) /\ Len(c) = Len(b) + 1 /\ Len(b) \in Nat
    OBVIOUS
  <1>2. \A i \in 1..Len(b) : c[i] = b[i]
    OBVIOUS
  <1> HIDE DEF c
  <1>3. Proper(c)
    BY <1>1 DEF Proper
  <1>4. QED
    BY <1>1, <1>2, <1>3 DEF c

\* The blocks with the transaction of a chain, by their height.
LEMMA InclusionAt ==
    ASSUME NEW b, Proper(b), NEW a
    PROVE  a \in Inclusions(b) <=> \E n \in 1..Len(b) : b[n].tx /\ a = Ancestor(b, n)
  BY DEF Inclusions

\* Two chains that agree up to a height have the same block there.
LEMMA SameAncestor ==
    ASSUME NEW b, NEW h, Proper(b), Proper(h), NEW n \in 1..Len(b)
    PROVE  /\ Ancestor(b, n) \in Seq(Block) /\ Len(Ancestor(b, n)) = n
           /\ \A i \in 1..n : Ancestor(b, n)[i] = b[i]
           /\ n <= Len(h) => (Agrees(b, h, n) <=> Ancestor(b, n) = Ancestor(h, n))
  <1>1. b \in Seq(Block) /\ h \in Seq(Block) /\ Len(b) \in Nat /\ Len(h) \in Nat /\ n \in Nat
    BY DEF Proper
  <1> DEFINE a == SubSeq(b, 1, n)
             c == SubSeq(h, 1, n)
  <1>2. a \in Seq(Block) /\ Len(a) = n /\ \A i \in 1..n : a[i] = b[i]
    BY <1>1
  <1>3. n <= Len(h) => c \in Seq(Block) /\ Len(c) = n /\ \A i \in 1..n : c[i] = h[i]
    BY <1>1
  <1> HIDE DEF a, c
  <1>4. ASSUME n <= Len(h) PROVE a = c <=> \A i \in 1..n : b[i] = h[i]
    <2>1. /\ c \in Seq(Block) /\ Len(c) = n /\ a \in Seq(Block) /\ Len(a) = n
          /\ \A i \in 1..n : c[i] = h[i] /\ a[i] = b[i]
      BY <1>2, <1>3, <1>4
    <2>2. a = c <=> \A i \in 1..n : a[i] = c[i]
      BY <2>1
    <2>3. QED
      BY <2>1, <2>2
  <1>5. QED
    BY <1>2, <1>4 DEF Ancestor, Agrees, a, c

LEMMA LongerChainKeeps ==
    ASSUME Proper(head), Proper(head'), Len(head) <= Len(head'),
           \A i \in 1..Len(head) : head'[i] = head[i]
    PROVE  Inclusions(head) \subseteq Inclusions(head')
  <1>1. SUFFICES ASSUME NEW a \in Inclusions(head) PROVE a \in Inclusions(head')
    OBVIOUS
  <1>2. PICK n \in 1..Len(head) : head[n].tx /\ a = Ancestor(head, n)
    BY InclusionAt
  <1>3. n \in 1..Len(head') /\ head'[n].tx /\ Len(head) \in Nat /\ Len(head') \in Nat
    BY <1>2 DEF Proper
  <1>4. Agrees(head, head', n)
    BY <1>3 DEF Agrees
  <1>5. a = Ancestor(head', n)
    BY <1>2, <1>3, <1>4, SameAncestor
  <1>6. QED
    BY <1>3, <1>5, InclusionAt

LEMMA ChainStepMoves ==
    ASSUME ChainType, ChainStep
    PROVE  ChainType' /\ Moves
  <1>1. head \in Seq(Block) /\ Len(head) \in Nat /\ Len(head) >= 1 /\ Proper(head)
        /\ finalized \in Nat /\ finalized <= Len(head)
    BY DEF ChainType, Proper
  <1>2. CASE BlockMade
    <2>1. PICK x \in Block : head' = Append(head, x)
      BY <1>2 DEF BlockMade
    <2>2. finalized' = finalized /\ left' = left
      BY <1>2 DEF BlockMade
    <2>3. /\ Proper(head') /\ Len(head') = Len(head) + 1
          /\ \A i \in 1..Len(head) : head'[i] = head[i]
      BY <1>1, <2>1, AppendedChain
    <2>4. Inclusions(head) \subseteq Inclusions(head')
      BY <1>1, <2>3, LongerChainKeeps
    <2>5. QED
      BY <1>1, <2>2, <2>3, <2>4 DEF ChainType, Moves
  <1>3. CASE Finalized
    <2>1. finalized' = finalized + 1 /\ finalized < Len(head) /\ head' = head /\ left' = left
      BY <1>3 DEF Finalized
    <2>2. QED
      BY <1>1, <2>1 DEF ChainType, Moves
  <1>4. CASE Reorganised
    <2>1. PICK b \in Chains : /\ finalized <= Len(b) /\ head' = b
                             /\ Ancestor(b, finalized) = Ancestor(head, finalized)
      BY <1>4 DEF Reorganised
    <2>2. finalized' = finalized /\ left' = left \cup (Inclusions(head) \ Inclusions(head'))
      BY <1>4 DEF Reorganised
    <2>3. Proper(b)
      <3>1. PICK n \in 1..MaxHeight : b \in [1..n -> Block]
        BY <2>1 DEF Chains
      <3>2. n \in Nat \ {0}
        BY <3>1, ChainAssumption
      <3>3. b \in Seq(Block) /\ Len(b) = n
        BY <3>1, <3>2
      <3>4. QED
        BY <3>2, <3>3 DEF Proper
    <2>4. \A i \in 1..finalized : b[i] = head[i]
      <3>1. CASE finalized = 0
        BY <3>1
      <3>2. CASE finalized # 0
        <4>1. Len(b) \in Nat /\ finalized \in 1..Len(b)
          BY <1>1, <2>1, <2>3, <3>2 DEF Proper
        <4>2. Agrees(b, head, finalized)
          BY <1>1, <2>1, <2>3, <4>1, SameAncestor
        <4>3. QED
          BY <4>2 DEF Agrees
      <3>3. QED
        BY <3>1, <3>2
    <2>5. Proper(head') /\ finalized' \in 0..Len(head')
      BY <1>1, <2>1, <2>2, <2>3 DEF Proper
    <2>6. QED
      BY <1>1, <2>1, <2>2, <2>4, <2>5 DEF ChainType, Moves
  <1>5. QED
    BY <1>2, <1>3, <1>4 DEF ChainStep

-----------------------------------------------------------------------------
(* What a step of the chain leaves of what was read of it before. *)

LEMMA FinalStays ==
    ASSUME ChainType, ChainStep, NEW b, Proper(b), Len(b) <= finalized, Canonical(b, head)
    PROVE  Len(b) <= finalized' /\ Canonical(b, head')
  <1>1. finalized \in Nat /\ finalized' \in Nat /\ Len(b) \in Nat
        /\ Len(head) \in Nat /\ Len(head') \in Nat /\ Moves
    BY ChainStepMoves DEF ChainType, Proper
  <1>2. QED
    BY <1>1 DEF Moves, Canonical, Agrees

LEMMA RecordedStays ==
    ASSUME ChainType, ChainStep, NEW b, Recorded(b, head, left)
    PROVE  Recorded(b, head', left')
  <1>1. Moves /\ Proper(head) /\ Proper(head') /\ Proper(b)
        /\ Len(head) \in Nat /\ Len(head') \in Nat /\ Len(b) \in Nat
    BY ChainStepMoves DEF ChainType, Proper, Recorded
  <1>2. ASSUME NEW n \in 1..Len(b), b[n].tx, Agrees(b, head, n)
        PROVE  Ancestor(b, n) \in left' \/ Agrees(b, head', n)
    <2>1. n \in 1..Len(head) /\ n \in Nat /\ n <= Len(head) /\ head[n].tx
      BY <1>1, <1>2 DEF Agrees
    <2>2. Ancestor(b, n) = Ancestor(head, n)
      BY <1>1, <1>2, <2>1, SameAncestor
    <2>3. Ancestor(b, n) \in Inclusions(head)
      BY <1>1, <2>1, <2>2, InclusionAt
    <2>4. CASE Ancestor(b, n) \in Inclusions(head')
      <3>1. PICK m \in 1..Len(head') : Ancestor(b, n) = Ancestor(head', m)
        BY <1>1, <2>4, InclusionAt
      <3>2. Len(Ancestor(b, n)) = n /\ Len(Ancestor(head', m)) = m
        BY <1>1, SameAncestor
      <3>3. n = m /\ n <= Len(head')
        BY <1>1, <3>1, <3>2
      <3>4. QED
        BY <1>1, <3>1, <3>3, SameAncestor
    <2>5. QED
      BY <1>1, <2>3, <2>4 DEF Moves
  <1>3. QED
    BY <1>1, <1>2 DEF Recorded, Moves

\* The chain is where it was.
LEMMA ChainTypeStays == ASSUME ChainType, UNCHANGED chainVars PROVE ChainType'
  BY DEF ChainType, chainVars

\* The best chain is recorded now.
LEMMA HeadIsRecorded == ASSUME ChainType, NEW l PROVE Recorded(head, head, l)
  BY DEF ChainType, Recorded, Proper, Agrees

\* The chain begins with its first block.
LEMMA ChainTypeInit == ASSUME ChainInit PROVE ChainType
  <1>1. head \in Chains /\ Len(head) = 1 /\ finalized = 0
    BY DEF ChainInit
  <1>2. PICK n \in 1..MaxHeight : head \in [1..n -> Block]
    BY <1>1 DEF Chains
  <1>3. n \in Nat \ {0}
    BY <1>2, ChainAssumption
  <1>4. head \in Seq(Block)
    BY <1>2, <1>3
  <1>5. QED
    BY <1>1, <1>4 DEF ChainType, Proper

-----------------------------------------------------------------------------
(***************************************************************************)
(* What a transaction watch reports as final is final, and its cursor      *)
(* passes no block that holds the transaction and stayed on the best chain,*)
(* for a chain of any length that goes to any other one, any horizon and   *)
(* any failures.                                                           *)
(***************************************************************************)

(* The inductive invariant. *)

\* No status, or that of a block h has, if it is said to be final.
Known(s, h, f) ==
    \/ s = NoStatus
    \/ /\ \E level \in {"included", "finalized"} : s = Status(level, s.block)
       /\ Proper(s.block)
       /\ s.level = "finalized" => Len(s.block) <= f /\ Canonical(s.block, h)

MaybeBlock == Seq(Block) \cup {NoValue}
MaybeHeight == Nat \cup {NoValue}
Cursors ==
    [known : BOOLEAN, lastHead : MaybeBlock, next : MaybeHeight,
     oldest : MaybeHeight, scanHead : MaybeBlock, match : MaybeBlock,
     included : [level : {"pending", "included", "finalized"}, block : MaybeBlock]]

\* Of the blocks of b in the horizon that hold the transaction, those of a range
\* aside, all have left.
CleanBut(b, range, l) ==
    \A n \in Oldest300(b)..Len(b) : n \notin range /\ b[n].tx => Ancestor(b, n) \in l

\* A scan that is not at its end knows what it has passed.
ScanInv ==
    Scanning(cursor) =>
        /\ cursor.known /\ cursor.included = NoStatus
        /\ cursor.oldest \in Nat \ {0}
        /\ Recorded(cursor.scanHead, head, left)
        /\ cursor.match = NoValue =>
               CleanBut(cursor.scanHead, cursor.oldest..cursor.next, left)
CursorInv ==
    /\ cursor \in Cursors
    /\ Known(cursor.included, head, finalized)
    /\ cursor.match # NoValue => Proper(cursor.match) /\ Scanning(cursor)
    /\ cursor.known => Recorded(cursor.lastHead, head, left)
    /\ cursor.known /\ ~Scanning(cursor) /\ cursor.included = NoStatus =>
           CleanBut(cursor.lastHead, {}, left)
    /\ ScanInv

Refreshing == {"refreshFinal", "refreshCanon"}
Searching == {"head", "previous", "scan", "final", "canon"}
CallInv ==
    /\ call \in [at : Refreshing \cup Searching \cup {"idle", "not_found"},
                 head : MaybeBlock, final : MaybeHeight]
    /\ call.at \in Refreshing => cursor.included.level = "included"
    /\ call.at \in Searching => cursor.included = NoStatus
    /\ call.at \in {"refreshCanon", "canon"} => call.final \in Nat /\ call.final <= finalized
    /\ call.at = "previous" =>
           /\ cursor.known /\ ~Scanning(cursor)
           /\ Recorded(call.head, head, left) /\ Len(call.head) > Len(cursor.lastHead)
    /\ call.at = "scan" => Scanning(cursor) /\ cursor.match = NoValue
    /\ call.at \in {"final", "canon"} => cursor.match # NoValue

IInv == ChainType /\ CursorInv /\ CallInv /\ Known(status, head, finalized)
-----------------------------------------------------------------------------
(* The chain moves between two RPCs. *)

LEMMA CleanStays ==
    ASSUME NEW l, NEW m, l \subseteq m, NEW b, NEW range, CleanBut(b, range, l)
    PROVE  CleanBut(b, range, m)
  BY DEF CleanBut

LEMMA KnownStays ==
    ASSUME ChainType, ChainStep, NEW s, Known(s, head, finalized)
    PROVE  Known(s, head', finalized')
  <1>1. CASE s = NoStatus
    BY <1>1 DEF Known
  <1>2. CASE s # NoStatus
    BY <1>2, FinalStays DEF Known
  <1>3. QED
    BY <1>1, <1>2

LEMMA ChainStepKeeps ==
    ASSUME IInv, ChainStep, UNCHANGED <<cursor, call, status>>
    PROVE  IInv'
  <1>1. ChainType /\ CursorInv /\ CallInv /\ Known(status, head, finalized)
    BY DEF IInv
  <1>2. ChainType' /\ finalized \in Nat /\ finalized' \in Nat /\ finalized <= finalized'
        /\ left \subseteq left'
    BY <1>1, ChainStepMoves DEF ChainType, Proper, Moves
  <1>3. Known(status', head', finalized') /\ Known(cursor'.included, head', finalized')
    BY <1>1, KnownStays DEF CursorInv
  <1>4. CursorInv'
    <2>1. cursor.known => Recorded(cursor.lastHead, head', left')
      BY <1>1, RecordedStays DEF CursorInv
    <2>2. cursor.known /\ ~Scanning(cursor) /\ cursor.included = NoStatus =>
             CleanBut(cursor.lastHead, {}, left')
      BY <1>1, <1>2, CleanStays DEF CursorInv
    <2>3. ScanInv'
      BY <1>1, <1>2, RecordedStays, CleanStays DEF CursorInv, ScanInv
    <2>4. QED
      BY <1>1, <1>3, <2>1, <2>2, <2>3 DEF CursorInv, Cursors
  <1>5. CallInv'
    <2>1. call.at = "previous" => Recorded(call.head, head', left')
      BY <1>1, RecordedStays DEF CallInv
    <2>2. QED
      BY <1>1, <1>2, <2>1 DEF CallInv
  <1>6. QED
    BY <1>2, <1>3, <1>4, <1>5 DEF IInv

-----------------------------------------------------------------------------
(* The calls. *)

\* A cursor is as good as it was while the chain is where it was.
LEMMA CursorStays ==
    ASSUME CursorInv, UNCHANGED <<chainVars, left, cursor>> PROVE CursorInv'
  BY DEF CursorInv, ScanInv, chainVars

\* A call that has ended asks nothing of the cursor.
LEMMA IdleCall == ASSUME call' = Idle PROVE CallInv'
  BY DEF CallInv, Idle, MaybeBlock, MaybeHeight, Refreshing, Searching

\* A cursor that was given up, or begins anew.
LEMMA NoCursorInv ==
    ASSUME cursor' = NoCursor
    PROVE  CursorInv' /\ cursor'.included = NoStatus
  BY DEF CursorInv, Cursors, ScanInv, NoCursor, NoStatus, Status, Known, Scanning,
         MaybeBlock, MaybeHeight

LEMMA OldestIsHeight ==
    ASSUME NEW b, Proper(b)
    PROVE  /\ Oldest300(b) \in Nat \ {0}
           /\ \A a : Proper(a) /\ Len(a) <= Len(b) => Oldest300(a) <= Oldest300(b)
  <1>1. Len(b) \in Nat /\ \A a : Proper(a) => Len(a) \in Nat
    BY DEF Proper
  <1>2. QED
    BY <1>1, ScanAssumption DEF Oldest300

\* A scan of the whole horizon has passed nothing yet.
LEMMA WholeHorizon ==
    ASSUME NEW b, NEW l
    PROVE  CleanBut(b, Oldest300(b)..Len(b), l)
  BY DEF CleanBut

LEMMA CallBeginsKeeps == ASSUME IInv, CallBegins PROVE IInv'
  <1>1. ChainType /\ CursorInv /\ CallInv /\ Known(status, head, finalized)
        /\ UNCHANGED <<chainVars, left>> /\ UNCHANGED cursor
    BY DEF IInv, CallBegins, At
  <1>2. ChainType' /\ CursorInv'
    BY <1>1, ChainTypeStays, CursorStays
  <1>3. Known(cursor.included, head, finalized)
    BY <1>1 DEF CursorInv
  <1>4. CASE cursor.included.level = "finalized"
    <2>1. Returns(cursor.included)
      BY <1>4 DEF CallBegins
    <2>2. QED
      BY <1>1, <1>2, <1>3, <2>1, IdleCall DEF IInv, Returns, chainVars
  <1>5. CASE cursor.included.level = "included"
    <2>1. call' = [call EXCEPT !.at = "refreshFinal"] /\ status' = status
      BY <1>5 DEF CallBegins, Goto, Continues
    <2>2. CallInv'
      BY <1>1, <1>5, <2>1 DEF CallInv, Refreshing, Searching
    <2>3. QED
      BY <1>1, <1>2, <2>1, <2>2 DEF IInv, chainVars
  <1>6. CASE cursor.included.level = "pending"
    <2>1. call' = [call EXCEPT !.at = "head"] /\ status' = status
      BY <1>6 DEF CallBegins, Goto, Continues
    <2>2. cursor.included = NoStatus
      BY <1>3, <1>6 DEF Known, Status
    <2>3. CallInv'
      BY <1>1, <2>1, <2>2 DEF CallInv, Refreshing, Searching
    <2>4. QED
      BY <1>1, <1>2, <2>1, <2>3 DEF IInv, chainVars
  <1>7. QED
    BY <1>1, <1>4, <1>5, <1>6 DEF CursorInv, Cursors

LEMMA RefreshFinalKeeps == ASSUME IInv, RefreshFinal PROVE IInv'
  <1>1. ChainType /\ CursorInv /\ CallInv /\ Known(status, head, finalized)
        /\ UNCHANGED <<chainVars, left>> /\ UNCHANGED cursor /\ status' = status
        /\ call.at = "refreshFinal"
        /\ call' = [call EXCEPT !.final = finalized, !.at = "refreshCanon"]
    BY DEF IInv, RefreshFinal, At, Continues
  <1>2. ChainType' /\ CursorInv' /\ finalized \in Nat
    BY <1>1, ChainTypeStays, CursorStays DEF ChainType, Proper
  <1>3. CallInv'
    <2>1. /\ call'.at = "refreshCanon" /\ call'.final = finalized
          /\ call' \in [at : Refreshing \cup Searching \cup {"idle", "not_found"},
                       head : MaybeBlock, final : MaybeHeight]
      BY <1>1, <1>2 DEF CallInv, Refreshing, MaybeHeight
    <2>2. cursor'.included.level = "included" /\ finalized' = finalized
      BY <1>1 DEF CallInv, Refreshing, chainVars
    <2>3. QED
      BY <1>2, <2>1, <2>2 DEF CallInv, Refreshing, Searching
  <1>4. QED
    BY <1>1, <1>2, <1>3 DEF IInv, chainVars

\* The level that a finalized head read before gives a block that is canonical now.
LEMMA LevelIsTrue ==
    ASSUME ChainType, NEW b, Proper(b), BlockAt(Len(b)) = b,
           NEW final \in Nat, final <= finalized
    PROVE  /\ Known(Status(LevelAt(b, final), b), head, finalized)
           /\ Status(LevelAt(b, final), b).level \in {"included", "finalized"}
           /\ Status(LevelAt(b, final), b).block = b
           /\ Status(LevelAt(b, final), b) # NoStatus
  <1>1. Canonical(b, head) /\ Len(b) \in Nat /\ finalized \in Nat
    BY CanonicalBlock DEF ChainType, Proper
  <1>2. QED
    BY <1>1 DEF Known, Status, LevelAt, NoStatus

LEMMA RefreshCanonKeeps == ASSUME IInv, RefreshCanon PROVE IInv'
  <1> DEFINE b == cursor.included.block
             s == Status(LevelAt(b, call.final), b)
  <1>1. ChainType /\ CursorInv /\ CallInv /\ Known(status, head, finalized)
        /\ UNCHANGED <<chainVars, left>> /\ call.at = "refreshCanon"
    BY DEF IInv, RefreshCanon, At
  <1>2. ChainType'
    BY <1>1, ChainTypeStays
  <1>3. CASE BlockAt(Len(b)) # b
    <2>1. cursor' = NoCursor /\ call' = [call EXCEPT !.at = "head"] /\ status' = status
      BY <1>3 DEF RefreshCanon, Goto, Continues
    <2>2. CursorInv' /\ cursor'.included = NoStatus
      BY <2>1, NoCursorInv
    <2>3. CallInv'
      BY <1>1, <2>1, <2>2 DEF CallInv, Refreshing, Searching
    <2>4. QED
      BY <1>1, <1>2, <2>1, <2>2, <2>3 DEF IInv, chainVars
  <1>4. CASE BlockAt(Len(b)) = b
    <2>1. Returns(s) /\ UNCHANGED cursor
      BY <1>4 DEF RefreshCanon
    <2>2. Proper(b) /\ call.final \in Nat /\ call.final <= finalized
      BY <1>1 DEF CursorInv, CallInv, Known, NoStatus, Status, Refreshing
    <2>3. Known(s, head, finalized)
      BY <1>1, <1>4, <2>2, LevelIsTrue
    <2>4. QED
      BY <1>1, <1>2, <2>1, <2>3, IdleCall, CursorStays DEF IInv, Returns, chainVars
  <1>5. QED
    BY <1>3, <1>4

\* A search goes on with a cursor that is as it should be.
LEMMA SearchesOn ==
    ASSUME CallInv, NEW c, Searches(c), CursorInv', c.included = NoStatus, Scanning(c)
    PROVE  CallInv'
  <1>1. cursor' = c
        /\ call' = [call EXCEPT !.at = IF c.match = NoValue THEN "scan" ELSE "final"]
    BY DEF Searches, Goto
  <1>2. QED
    BY <1>1 DEF CallInv, Refreshing, Searching

\* A new scan of b, above a range that holds nothing if b is canonical.
LEMMA BeganKeeps ==
    ASSUME UNCHANGED chainVars, NEW c, NEW b, NEW oldest \in Nat \ {0},
           cursor' = Began(c, b, oldest),
           c \in Cursors, c.known, c.match = NoValue, c.included = NoStatus,
           Recorded(b, head, left'), Recorded(c.lastHead, head, left'),
           CleanBut(b, oldest..Len(b), left')
    PROVE  CursorInv' /\ Scanning(cursor') /\ cursor'.match = NoValue
           /\ cursor'.included = NoStatus
  <1>1. /\ b \in MaybeBlock /\ Len(b) \in MaybeHeight /\ Len(b) # NoValue
        /\ c.lastHead \in MaybeBlock /\ oldest \in MaybeHeight
    BY ChainAssumption DEF Recorded, Proper, MaybeBlock, MaybeHeight
  <1>2. cursor' = [c EXCEPT !.next = Len(b), !.oldest = oldest, !.scanHead = b]
    BY DEF Began
  <1>3. /\ cursor'.next = Len(b) /\ cursor'.oldest = oldest /\ cursor'.scanHead = b
        /\ cursor'.known /\ cursor'.match = NoValue /\ cursor'.included = NoStatus
        /\ cursor'.lastHead = c.lastHead
    BY <1>2 DEF Cursors
  <1>4. cursor' \in Cursors /\ Scanning(cursor')
    BY <1>1, <1>2, <1>3 DEF Cursors, Scanning
  <1>5. ScanInv'
    BY <1>3 DEF ScanInv, chainVars
  <1>6. QED
    BY <1>3, <1>4, <1>5 DEF CursorInv, Known, chainVars

LEMMA HeadReadKeeps == ASSUME IInv, HeadRead PROVE IInv'
  <1>1. ChainType /\ CursorInv /\ CallInv /\ Known(status, head, finalized)
        /\ UNCHANGED chainVars /\ call.at = "head" /\ cursor.included = NoStatus
        /\ (cursor.known => left' = left)
    BY DEF IInv, HeadRead, At, CallInv, Searching
  <1>2. ChainType' /\ Recorded(head, head, left') /\ Proper(head)
    BY <1>1, ChainTypeStays, HeadIsRecorded DEF ChainType
  <1>3. CASE NothingNew
    <2>1. Returns(NoStatus) /\ UNCHANGED cursor
      BY <1>3 DEF HeadRead
    <2>2. left' = left
      BY <1>1, <1>3 DEF NothingNew
    <2>3. QED
      BY <1>1, <1>2, <2>1, <2>2, IdleCall, CursorStays DEF IInv, Returns, Known, chainVars
  <1>4. CASE ~NothingNew /\ Advanced
    <2>1. /\ call' = [call EXCEPT !.head = head, !.at = "previous"]
          /\ UNCHANGED cursor /\ status' = status
      BY <1>4 DEF HeadRead, Continues
    <2>2. CursorInv' /\ left' = left
      BY <1>1, <1>4, <2>1, CursorStays DEF Advanced
    <2>3. CallInv'
      BY <1>1, <1>2, <1>4, <2>1, <2>2
      DEF CallInv, Refreshing, Searching, Advanced, MaybeBlock, Proper, chainVars
    <2>4. QED
      BY <1>1, <1>2, <2>1, <2>2, <2>3 DEF IInv, chainVars
  <1>5. CASE ~NothingNew /\ ~Advanced /\ Resumes
    <2>1. Searches(cursor) /\ status' = status
      BY <1>5 DEF HeadRead, Continues
    <2>2. cursor' = cursor
      BY <2>1 DEF Searches
    <2>3. CursorInv'
      BY <1>1, <1>5, <2>2, CursorStays DEF Resumes
    <2>4. CallInv'
      BY <1>1, <1>5, <2>1, <2>3, SearchesOn DEF Resumes
    <2>5. QED
      BY <1>1, <1>2, <2>1, <2>3, <2>4 DEF IInv, chainVars
  <1>6. CASE ~NothingNew /\ ~Advanced /\ ~Resumes
    <2> DEFINE last == IF cursor.known THEN cursor.lastHead ELSE head
               c == [NoCursor EXCEPT !.known = TRUE, !.lastHead = last]
               began == Began(c, head, Oldest300(head))
    <2>1. Searches(began) /\ status' = status
      BY <1>6 DEF HeadRead, Continues
    <2>2. cursor' = began
      BY <2>1 DEF Searches
    <2>3. c.known /\ c.match = NoValue /\ c.included = NoStatus /\ c.lastHead = last
      BY DEF NoCursor
    <2>4. Recorded(last, head, left')
      BY <1>1, <1>2 DEF CursorInv
    <2>5. NoCursor \in Cursors /\ last \in MaybeBlock
      BY <2>4 DEF NoCursor, NoStatus, Status, Cursors, MaybeBlock, MaybeHeight, Recorded, Proper
    <2>6. Oldest300(head) \in Nat \ {0} /\ CleanBut(head, Oldest300(head)..Len(head), left')
      BY <1>2, OldestIsHeight, WholeHorizon
    <2> HIDE DEF last
    <2>7. c \in Cursors
      BY <2>5 DEF Cursors
    <2> HIDE DEF c
    <2>8. /\ CursorInv' /\ Scanning(cursor') /\ cursor'.match = NoValue
          /\ cursor'.included = NoStatus
      BY <1>1, <1>2, <2>2, <2>3, <2>4, <2>6, <2>7, BeganKeeps
    <2> HIDE DEF began
    <2>9. CallInv'
      BY <1>1, <2>1, <2>2, <2>8, SearchesOn
    <2>10. QED
      BY <1>1, <1>2, <2>1, <2>8, <2>9 DEF IInv, chainVars
  <1>7. QED
    BY <1>3, <1>4, <1>5, <1>6

\* Between the chain scanned before and the new one, when the first is a part of
\* the second, there is nothing that was not looked at.
LEMMA OldPartIsClean ==
    ASSUME ChainType, NEW last, Recorded(last, head, left), CleanBut(last, {}, left),
           Canonical(last, head),
           NEW b, Recorded(b, head, left), Len(b) > Len(last)
    PROVE  CleanBut(b, (Len(last) + 1)..Len(b), left)
  <1>1. /\ Proper(last) /\ Proper(b) /\ Len(last) \in Nat /\ Len(b) \in Nat
        /\ Oldest300(last) \in Nat \ {0} /\ Oldest300(b) \in Nat \ {0}
        /\ Oldest300(last) <= Oldest300(b)
    BY OldestIsHeight DEF Recorded, Proper
  <1>2. SUFFICES ASSUME NEW n \in Oldest300(b)..Len(b), b[n].tx,
                        n \notin (Len(last) + 1)..Len(b)
                 PROVE  Ancestor(b, n) \in left
    BY DEF CleanBut
  <1>3. n \in Oldest300(last)..Len(last) /\ n \in 1..Len(last) /\ n \in 1..Len(b)
    BY <1>1, <1>2
  <1>4. SUFFICES ASSUME Agrees(b, head, n) PROVE Ancestor(b, n) \in left
    BY <1>2, <1>3 DEF Recorded
  <1>5. last[n] = b[n] /\ Agrees(b, last, n)
    BY <1>1, <1>3, <1>4 DEF Canonical, Agrees
  <1>6. Ancestor(b, n) = Ancestor(last, n)
    BY <1>1, <1>3, <1>5, SameAncestor
  <1>7. QED
    BY <1>2, <1>3, <1>5, <1>6 DEF CleanBut

LEMMA PreviousReadKeeps == ASSUME IInv, PreviousRead PROVE IInv'
  <1> DEFINE last == cursor.lastHead
             stands == BlockAt(Len(last)) = last
             oldest == IF stands THEN Len(last) + 1 ELSE Oldest300(call.head)
             began == Began(cursor, call.head, oldest)
  <1>1. ChainType /\ CursorInv /\ CallInv /\ Known(status, head, finalized)
        /\ UNCHANGED <<chainVars, left>> /\ call.at = "previous" /\ cursor.included = NoStatus
    BY DEF IInv, PreviousRead, At, CallInv, Searching
  <1>2. Searches(began) /\ status' = status
    BY DEF PreviousRead, Continues
  <1>3. /\ cursor.known /\ ~Scanning(cursor) /\ Recorded(call.head, head, left)
        /\ Len(call.head) > Len(last)
    BY <1>1 DEF CallInv
  <1>4. /\ cursor \in Cursors /\ cursor.match = NoValue
        /\ Recorded(last, head, left) /\ CleanBut(last, {}, left)
    BY <1>1, <1>3 DEF CursorInv
  <1>5. Proper(last) /\ Proper(call.head) /\ Len(last) \in Nat
    BY <1>3, <1>4 DEF Recorded, Proper
  <1>6. oldest \in Nat \ {0} /\ CleanBut(call.head, oldest..Len(call.head), left)
    <2>1. CASE stands
      BY <1>1, <1>3, <1>4, <1>5, <2>1, CanonicalBlock, OldPartIsClean
    <2>2. CASE ~stands
      BY <1>5, <2>2, OldestIsHeight, WholeHorizon
    <2>3. QED
      BY <2>1, <2>2
  <1> HIDE DEF oldest
  <1>7. cursor' = began
    BY <1>2 DEF Searches
  <1>8. /\ CursorInv' /\ Scanning(cursor') /\ cursor'.match = NoValue
        /\ cursor'.included = NoStatus
    BY <1>1, <1>3, <1>4, <1>6, <1>7, BeganKeeps
  <1> HIDE DEF began
  <1>9. CallInv'
    BY <1>1, <1>2, <1>7, <1>8, SearchesOn
  <1>10. QED
    BY <1>1, <1>2, <1>8, <1>9, ChainTypeStays DEF IInv, chainVars

\* The scan passes a block that does not hold the transaction.
LEMMA PassedKeeps ==
    ASSUME ChainType, CursorInv, UNCHANGED <<chainVars, left>>, Scanning(cursor),
           cursor.match = NoValue, cursor.next >= cursor.oldest,
           cursor' = [cursor EXCEPT !.next = @ - 1],
           cursor.next \in 1..Len(cursor.scanHead) /\ cursor.scanHead[cursor.next].tx =>
               Ancestor(cursor.scanHead, cursor.next) \in left
    PROVE  CursorInv' /\ Scanning(cursor') /\ cursor'.match = NoValue
           /\ cursor'.included = NoStatus
  <1>1. /\ cursor \in Cursors /\ cursor.known /\ cursor.included = NoStatus
        /\ cursor.oldest \in Nat \ {0} /\ Recorded(cursor.scanHead, head, left)
        /\ Recorded(cursor.lastHead, head, left)
        /\ CleanBut(cursor.scanHead, cursor.oldest..cursor.next, left)
    BY DEF CursorInv, ScanInv
  <1>2. cursor.next \in Nat /\ cursor.next - 1 \in Nat
    BY <1>1 DEF Scanning, Cursors, MaybeHeight
  <1>3. /\ cursor'.next = cursor.next - 1 /\ cursor'.oldest = cursor.oldest
        /\ cursor'.scanHead = cursor.scanHead /\ cursor'.known
        /\ cursor'.match = NoValue /\ cursor'.included = NoStatus
        /\ cursor'.lastHead = cursor.lastHead
    BY <1>1 DEF Cursors
  <1>4. cursor' \in Cursors /\ Scanning(cursor')
    BY <1>1, <1>2, <1>3, ChainAssumption DEF Cursors, Scanning, MaybeHeight
  <1>5. CleanBut(cursor.scanHead, cursor.oldest..(cursor.next - 1), left)
    <2>1. SUFFICES ASSUME NEW n \in Oldest300(cursor.scanHead)..Len(cursor.scanHead),
                          n \notin cursor.oldest..(cursor.next - 1), cursor.scanHead[n].tx
                   PROVE  Ancestor(cursor.scanHead, n) \in left
      BY DEF CleanBut
    <2>2. Oldest300(cursor.scanHead) \in Nat \ {0} /\ Len(cursor.scanHead) \in Nat
      BY <1>1, OldestIsHeight DEF Recorded, Proper
    <2>3. CASE n = cursor.next
      BY <2>1, <2>2, <2>3
    <2>4. CASE n # cursor.next
      BY <1>1, <1>2, <2>1, <2>2, <2>4 DEF CleanBut
    <2>5. QED
      BY <2>3, <2>4
  <1>6. ScanInv'
    BY <1>1, <1>3, <1>5 DEF ScanInv, chainVars
  <1>7. QED
    BY <1>1, <1>3, <1>4, <1>6 DEF CursorInv, Known, chainVars

LEMMA ScanBlockKeeps == ASSUME IInv, ScanBlock PROVE IInv'
  <1> DEFINE b == BlockAt(cursor.next)
             passed == [cursor EXCEPT !.next = @ - 1]
             sh == cursor.scanHead
  <1>1. /\ ChainType /\ CursorInv /\ CallInv /\ Known(status, head, finalized)
        /\ UNCHANGED <<chainVars, left>> /\ call.at = "scan" /\ status' = status
        /\ cursor.next >= cursor.oldest
        /\ Scanning(cursor) /\ cursor.match = NoValue
    BY DEF IInv, ScanBlock, At, Continues, CallInv
  <1>2. ChainType'
    BY <1>1, ChainTypeStays
  <1>3. /\ cursor \in Cursors /\ cursor.included = NoStatus /\ cursor.known
        /\ cursor.oldest \in Nat \ {0} /\ cursor.next \in Nat \ {0}
        /\ Proper(sh) /\ Len(sh) \in Nat /\ Recorded(sh, head, left)
    BY <1>1 DEF CursorInv, ScanInv, Scanning, Cursors, MaybeHeight, Recorded, Proper
  <1>4. ASSUME cursor.next \in 1..Len(sh), sh[cursor.next].tx,
               Ancestor(sh, cursor.next) \notin left
        PROVE  b # NoValue /\ Len(b) = cursor.next /\ b[Len(b)] = sh[cursor.next]
    <2>1. cursor.next \in 1..Len(head) /\ head[cursor.next] = sh[cursor.next]
      BY <1>3, <1>4, <1>1 DEF Recorded, Agrees, ChainType, Proper
    <2>2. b # NoValue
      BY <1>1, <2>1, BlockExists
    <2>3. Len(b) = cursor.next /\ \A i \in 1..cursor.next : b[i] = head[i]
      BY <1>1, <1>3, <2>2, BlockIsCanonical
    <2>4. QED
      BY <1>3, <2>1, <2>2, <2>3
  <1>5. CASE b = NoValue
    <2>1. cursor' = passed /\ call' = call
      BY <1>5 DEF ScanBlock
    <2>2. CursorInv' /\ Scanning(cursor') /\ cursor'.match = NoValue
          /\ cursor'.included = NoStatus
      BY <1>1, <1>4, <1>5, <2>1, PassedKeeps
    <2>3. CallInv'
      BY <1>1, <2>1, <2>2 DEF CallInv, Refreshing, Searching
    <2>4. QED
      BY <1>1, <1>2, <2>2, <2>3 DEF IInv, chainVars
  <1>6. CASE b # NoValue /\ Len(b) < BodiesFrom
    <2>1. call' = [call EXCEPT !.at = "not_found"] /\ UNCHANGED cursor
      BY <1>6 DEF ScanBlock, Goto
    <2>2. CursorInv'
      BY <1>1, <2>1, CursorStays
    <2>3. CallInv'
      BY <1>1, <2>1 DEF CallInv, Refreshing, Searching
    <2>4. QED
      BY <1>1, <1>2, <2>2, <2>3 DEF IInv, chainVars
  <1>7. CASE b # NoValue /\ ~(Len(b) < BodiesFrom) /\ b[Len(b)].tx
    <2>1. /\ cursor' = [passed EXCEPT !.match = b]
          /\ call' = [call EXCEPT !.at = "final"]
      BY <1>7 DEF ScanBlock, Goto
    <2>2. Proper(b) /\ b \in MaybeBlock
      BY <1>1, <1>3, <1>7, BlockIsCanonical DEF Proper, MaybeBlock
    <2>3. cursor.next - 1 \in MaybeHeight /\ cursor.next - 1 # NoValue
      BY <1>3, ChainAssumption DEF MaybeHeight
    <2> HIDE DEF b
    <2>4. /\ cursor' \in Cursors /\ cursor'.next = cursor.next - 1 /\ cursor'.match = b
          /\ cursor'.oldest = cursor.oldest /\ cursor'.scanHead = sh
          /\ cursor'.known = cursor.known /\ cursor'.included = cursor.included
          /\ cursor'.lastHead = cursor.lastHead
      BY <1>3, <2>1, <2>2, <2>3 DEF Cursors
    <2>5. CursorInv'
      BY <1>1, <1>3, <1>7, <2>2, <2>3, <2>4 DEF CursorInv, ScanInv, Scanning, Known, chainVars
    <2>6. CallInv'
      BY <1>1, <1>3, <1>7, <2>1, <2>4 DEF CallInv, Refreshing, Searching
    <2>7. QED
      BY <1>1, <1>2, <2>5, <2>6 DEF IInv, chainVars
  <1>8. CASE b # NoValue /\ ~(Len(b) < BodiesFrom) /\ ~b[Len(b)].tx
    <2>1. cursor' = passed /\ call' = call
      BY <1>8 DEF ScanBlock
    <2>2. CursorInv' /\ Scanning(cursor') /\ cursor'.match = NoValue
          /\ cursor'.included = NoStatus
      BY <1>1, <1>4, <1>8, <2>1, PassedKeeps
    <2>3. CallInv'
      BY <1>1, <2>1, <2>2 DEF CallInv, Refreshing, Searching
    <2>4. QED
      BY <1>1, <1>2, <2>2, <2>3 DEF IInv, chainVars
  <1>9. QED
    BY <1>5, <1>6, <1>7, <1>8

LEMMA ScanEndsKeeps == ASSUME IInv, ScanEnds PROVE IInv'
  <1>1. /\ ChainType /\ CursorInv /\ CallInv /\ Known(status, head, finalized)
        /\ UNCHANGED <<chainVars, left>> /\ Returns(NoStatus)
        /\ Scanning(cursor) /\ cursor.match = NoValue
        /\ cursor.next < cursor.oldest /\ cursor' = Finished(cursor)
    BY DEF IInv, ScanEnds, At, CallInv
  <1>2. /\ cursor \in Cursors /\ cursor.included = NoStatus
        /\ Recorded(cursor.scanHead, head, left)
        /\ CleanBut(cursor.scanHead, cursor.oldest..cursor.next, left)
        /\ cursor.oldest \in Nat /\ cursor.next \in Nat
    BY <1>1 DEF CursorInv, ScanInv, Scanning, Cursors, MaybeHeight
  <1>3. cursor.scanHead # NoValue /\ cursor.scanHead \in MaybeBlock
    BY <1>2, ChainAssumption DEF Recorded, Proper, MaybeBlock
  <1>4. cursor.oldest..cursor.next = {}
    BY <1>1, <1>2
  <1>5. /\ cursor'.known /\ cursor'.lastHead = cursor.scanHead /\ ~Scanning(cursor')
        /\ cursor'.match = NoValue /\ cursor'.included = NoStatus
    BY <1>1, <1>2, <1>3 DEF Finished, NoCursor, Scanning
  <1>6. cursor' \in Cursors
    BY <1>1, <1>2, <1>3 DEF Finished, NoCursor, Cursors, NoStatus, Status, MaybeBlock, MaybeHeight
  <1>7. CursorInv'
    BY <1>1, <1>2, <1>4, <1>5, <1>6 DEF CursorInv, ScanInv, Known, chainVars
  <1>8. Known(status', head', finalized') /\ CallInv'
    BY <1>1, IdleCall DEF Returns, Known
  <1>9. QED
    BY <1>1, <1>7, <1>8, ChainTypeStays DEF IInv

LEMMA FinalReadKeeps == ASSUME IInv, FinalRead PROVE IInv'
  <1>1. ChainType /\ CursorInv /\ CallInv /\ Known(status, head, finalized)
        /\ UNCHANGED <<chainVars, left>> /\ UNCHANGED cursor /\ status' = status
        /\ call.at = "final"
        /\ call' = [call EXCEPT !.final = finalized, !.at = "canon"]
    BY DEF IInv, FinalRead, At, Continues
  <1>2. ChainType' /\ CursorInv' /\ finalized \in Nat
    BY <1>1, ChainTypeStays, CursorStays DEF ChainType, Proper
  <1>3. CallInv'
    <2>1. /\ call'.at = "canon" /\ call'.final = finalized
          /\ call' \in [at : Refreshing \cup Searching \cup {"idle", "not_found"},
                       head : MaybeBlock, final : MaybeHeight]
      BY <1>1, <1>2 DEF CallInv, Searching, MaybeHeight
    <2>2. cursor'.included = NoStatus /\ cursor'.match # NoValue /\ finalized' = finalized
      BY <1>1 DEF CallInv, Searching, chainVars
    <2>3. QED
      BY <1>2, <2>1, <2>2 DEF CallInv, Refreshing, Searching
  <1>4. QED
    BY <1>1, <1>2, <1>3 DEF IInv, chainVars

LEMMA CanonReadKeeps == ASSUME IInv, CanonRead PROVE IInv'
  <1> DEFINE b == cursor.match
             s == Status(LevelAt(b, call.final), b)
  <1>1. ChainType /\ CursorInv /\ CallInv /\ Known(status, head, finalized)
        /\ UNCHANGED <<chainVars, left>> /\ call.at = "canon"
    BY DEF IInv, CanonRead, At
  <1>2. ChainType' /\ Proper(b) /\ Scanning(cursor)
        /\ call.final \in Nat /\ call.final <= finalized
    BY <1>1, ChainTypeStays DEF CursorInv, CallInv
  <1>3. CASE BlockAt(Len(b)) # b
    <2>1. cursor' = NoCursor /\ Returns(NoStatus)
      BY <1>3 DEF CanonRead
    <2>2. CursorInv' /\ Known(status', head', finalized') /\ CallInv'
      BY <2>1, NoCursorInv, IdleCall DEF Returns, Known
    <2>3. QED
      BY <1>2, <2>2 DEF IInv
  <1>4. CASE BlockAt(Len(b)) = b
    <2>1. cursor' = [Finished(cursor) EXCEPT !.included = s] /\ Returns(s)
      BY <1>4 DEF CanonRead
    <2>2. /\ Known(s, head, finalized) /\ s # NoStatus
          /\ s.level \in {"included", "finalized"} /\ s.block = b
      BY <1>1, <1>2, <1>4, LevelIsTrue
    <2>3. s \in [level : {"pending", "included", "finalized"}, block : MaybeBlock]
      BY <1>2 DEF Status, LevelAt, Proper, MaybeBlock
    <2> HIDE DEF s
    <2>4. /\ cursor \in Cursors /\ cursor.known /\ Recorded(cursor.scanHead, head, left)
          /\ cursor.scanHead \in MaybeBlock /\ cursor.scanHead # NoValue
      BY <1>1, <1>2, ChainAssumption DEF CursorInv, ScanInv, Recorded, Proper, MaybeBlock
    <2>5. /\ cursor' \in Cursors /\ cursor'.known /\ cursor'.lastHead = cursor.scanHead
          /\ ~Scanning(cursor') /\ cursor'.match = NoValue /\ cursor'.included = s
      BY <2>1, <2>3, <2>4 DEF Finished, NoCursor, Scanning, Cursors, MaybeBlock, MaybeHeight
    <2>6. CursorInv'
      BY <1>1, <2>2, <2>4, <2>5 DEF CursorInv, ScanInv, chainVars
    <2>7. Known(status', head', finalized') /\ CallInv'
      BY <1>1, <2>1, <2>2, IdleCall DEF Returns, chainVars
    <2>8. QED
      BY <1>2, <2>6, <2>7 DEF IInv
  <1>5. QED
    BY <1>3, <1>4

\* The runtime calls again, with the cursor as the failure left it.
LEMMA RpcFailsKeeps == ASSUME IInv, RpcFails PROVE IInv'
  <1>1. ChainType /\ CursorInv /\ Known(status, head, finalized)
        /\ UNCHANGED <<chainVars, left>> /\ UNCHANGED cursor /\ status' = status /\ call' = Idle
    BY DEF IInv, RpcFails, Continues
  <1>2. QED
    BY <1>1, ChainTypeStays, CursorStays, IdleCall DEF IInv, chainVars

-----------------------------------------------------------------------------
(* The invariant of the watch. *)

LEMMA IInvInit == Init => IInv
  <1>1. SUFFICES ASSUME Init PROVE IInv
    OBVIOUS
  <1>4. ChainType
    BY <1>1, ChainTypeInit DEF Init
  <1>5. CursorInv
    BY <1>1 DEF Init, CursorInv, Cursors, ScanInv, NoCursor, NoStatus, Status, Known,
                Scanning, MaybeBlock, MaybeHeight
  <1>6. CallInv /\ Known(status, head, finalized)
    BY <1>1 DEF Init, CallInv, Idle, Known, MaybeBlock, MaybeHeight, Refreshing, Searching
  <1>7. QED
    BY <1>4, <1>5, <1>6 DEF IInv

LEMMA IInvStep == IInv /\ [Next]_scanVars => IInv'
  <1>1. SUFFICES ASSUME IInv, [Next]_scanVars PROVE IInv'
    OBVIOUS
  <1>2. CASE CallStep
    BY <1>1, <1>2, CallBeginsKeeps, RefreshFinalKeeps, RefreshCanonKeeps, HeadReadKeeps,
       PreviousReadKeeps, ScanBlockKeeps, ScanEndsKeeps, FinalReadKeeps, CanonReadKeeps,
       RpcFailsKeeps DEF CallStep
  <1>3. CASE ChainStep /\ UNCHANGED <<cursor, call, status, target, outcome, failures>>
    BY <1>1, <1>3, ChainStepKeeps
  <1>4. CASE UNCHANGED scanVars
    <2>1. UNCHANGED <<chainVars, left, cursor>> /\ call' = call /\ status' = status
      BY <1>4 DEF scanVars
    <2>2. CallInv'
      BY <1>1, <2>1 DEF IInv, CallInv, chainVars
    <2>3. QED
      BY <1>1, <2>1, <2>2, ChainTypeStays, CursorStays DEF IInv, chainVars
  <1>5. QED
    BY <1>1, <1>2, <1>3, <1>4 DEF Next

LEMMA IInvHolds == Spec => []IInv
  BY IInvInit, IInvStep, PTL DEF Spec

-----------------------------------------------------------------------------
(* A transaction reported as finalized is in a finalized block of the best   *)
(* chain, for every chain, every horizon and every interleaving of its steps *)
(* with the provider's RPCs (bittensor.py:1766-1822).                        *)
THEOREM FinalReportIsFinal == Spec => []FinalIsFinal
  <1>1. IInv => FinalIsFinal
    <2>1. SUFFICES ASSUME IInv, status.level = "finalized" PROVE IsFinal(status.block)
      BY DEF FinalIsFinal
    <2>2. /\ ChainType /\ Proper(status.block)
          /\ Len(status.block) <= finalized /\ Canonical(status.block, head)
      BY <2>1 DEF IInv, Known, NoStatus, Status
    <2>3. QED
      BY <2>2, CanonicalBlock DEF IsFinal
  <1>2. QED
    BY <1>1, IInvHolds, PTL

(* Between two calls the cursor has passed no block of the horizon that holds*)
(* the transaction, but for those that left the best chain while the cursor  *)
(* was kept: for every chain and horizon, wherever RPCs fail and wherever the*)
(* chain goes, back to a branch it left included (bittensor.py:1656-1739).   *)
THEOREM ScanMissesNothing == Spec => []NothingMissed
  <1>1. IInv => NothingMissed
    <2>1. SUFFICES ASSUME IInv, cursor.known, ~Scanning(cursor), cursor.included = NoStatus,
                          NEW n \in Oldest300(cursor.lastHead)..Len(cursor.lastHead),
                          cursor.lastHead[n].tx
                   PROVE  Ancestor(cursor.lastHead, n) \in left
      BY DEF NothingMissed
    <2>2. CleanBut(cursor.lastHead, {}, left)
      BY <2>1 DEF IInv, CursorInv
    <2>3. QED
      BY <2>1, <2>2 DEF CleanBut
  <1>2. QED
    BY <1>1, IInvHolds, PTL

-----------------------------------------------------------------------------
(***************************************************************************)
(* What an EVM transaction watch reports at a notified head is true of that*)
(* head, for a chain of any height, any number of reorganisations between  *)
(* its separate reads, and any failures.                                   *)
(*                                                                         *)
(* The notified head is compared with the canonical block last.  If it is  *)
(* canonical then, and the inclusion did not leave the best chain since the*)
(* receipt was read, both are on the chain that is the best at that moment,*)
(* and the inclusion is an ancestor of the head.                           *)
(***************************************************************************)

Places == {"idle", "decode_error", "receipt", "canonical", "pending_head", "head", "finality"}

\* The block is an ancestor of the head, at that depth.
AtTheHead(pin, block, depth) ==
    /\ Proper(pin) /\ Proper(block)
    /\ Canonical(block, pin)
    /\ depth \in Nat /\ Len(pin) = Len(block) + depth - 1

ReadInv ==
    /\ read \in [at : Places, pin : MaybeBlock, inclusion : MaybeBlock, depth : Int,
                 steady : BOOLEAN]
    /\ read.pin # NoValue => Proper(read.pin)
    /\ read.at \in {"canonical", "head"} =>
          Recorded(read.inclusion, head, left) /\ read.inclusion[Len(read.inclusion)].tx
    /\ read.at = "finality" /\ read.pin # NoValue /\ read.steady =>
          AtTheHead(read.pin, read.inclusion, read.depth)

StatusInv ==
    evmStatus.level # "pending" /\ evmStatus.pin # NoValue /\ evmStatus.steady =>
        AtTheHead(evmStatus.pin, evmStatus.block, evmStatus.confirmations)

EvmInv == ChainType /\ ReadInv /\ StatusInv

-----------------------------------------------------------------------------
\* A block on a chain is the prefix of its length.
LEMMA PrefixIsBlock ==
    ASSUME NEW b, NEW p, Proper(b), Proper(p), Canonical(b, p)
    PROVE  Ancestor(p, Len(b)) = b
  <1>1. b \in Seq(Block) /\ p \in Seq(Block) /\ Len(b) \in Nat /\ Len(p) \in Nat
        /\ Len(b) >= 1 /\ Len(b) <= Len(p) /\ \A i \in 1..Len(b) : b[i] = p[i]
    BY DEF Proper, Canonical, Agrees
  <1> DEFINE a == SubSeq(p, 1, Len(b))
  <1>2. a \in Seq(Block) /\ Len(a) = Len(b) /\ \A i \in 1..Len(b) : a[i] = p[i]
    BY <1>1
  <1> HIDE DEF a
  <1>3. a = b
    BY <1>1, <1>2
  <1>4. QED
    BY <1>3 DEF a, Ancestor

\* Of two blocks on one chain the lower is on the chain of the higher.
LEMMA LowerIsAncestor ==
    ASSUME NEW b, NEW p, NEW h, Proper(b), Proper(p), Proper(h),
           Canonical(b, h), Canonical(p, h), Len(b) <= Len(p)
    PROVE  Canonical(b, p)
  <1>1. Len(b) \in Nat /\ Len(p) \in Nat /\ Len(h) \in Nat
    BY DEF Proper
  <1>2. QED
    BY <1>1 DEF Canonical, Agrees

\* The block of the transaction is a block of the chain.
LEMMA InclusionIsBlock ==
    ASSUME ChainType, HasTx(head), NEW l
    PROVE  Recorded(TxBlock(head), head, l) /\ TxBlock(head)[Len(TxBlock(head))].tx
  <1> DEFINE n == CHOOSE i \in 1..Len(head) : head[i].tx
             a == Ancestor(head, n)
  <1>1. n \in 1..Len(head) /\ head[n].tx
    BY DEF HasTx
  <1>2. Proper(head) /\ head \in Seq(Block) /\ Len(head) \in Nat
    BY DEF ChainType, Proper
  <1>3. TxBlock(head) = a
    BY DEF TxBlock
  <1> HIDE DEF n
  <1>4. a \in Seq(Block) /\ Len(a) = n /\ \A i \in 1..n : a[i] = head[i]
    BY <1>1, <1>2, SameAncestor
  <1> HIDE DEF a
  <1>5. n \in Nat /\ n >= 1 /\ n <= Len(head)
    BY <1>1, <1>2
  <1>6. \A m \in 1..n : Agrees(a, head, m)
    BY <1>2, <1>4, <1>5 DEF Agrees
  <1>7. Recorded(a, head, l)
    BY <1>4, <1>5, <1>6 DEF Recorded, Proper
  <1>8. a[n].tx
    BY <1>1, <1>4, <1>5
  <1>9. QED
    BY <1>3, <1>4, <1>7, <1>8

\* The inclusion is still on the best chain, or it left.
LEMMA InclusionStays ==
    ASSUME NEW b, NEW h, NEW l, Recorded(b, h, l), b[Len(b)].tx, b \notin l
    PROVE  Canonical(b, h)
  <1>1. Proper(b) /\ Len(b) \in Nat /\ Len(b) \in 1..Len(b)
    BY DEF Recorded, Proper
  <1>2. Canonical(b, b)
    BY <1>1 DEF Canonical, Agrees
  <1>3. Ancestor(b, Len(b)) = b
    BY <1>1, <1>2, PrefixIsBlock
  <1>4. QED
    BY <1>1, <1>3 DEF Recorded, Canonical

\* A read that has ended knows nothing.
LEMMA IdleReadInv ==
    ASSUME NEW place \in {"idle", "decode_error"}, read' = [IdleRead EXCEPT !.at = place]
    PROVE  ReadInv'
  <1> DEFINE T == [at : Places, pin : MaybeBlock, inclusion : MaybeBlock, depth : Int,
                   steady : BOOLEAN]
  <1>1. NoValue \in MaybeBlock /\ 0 \in Int /\ {"idle", "decode_error"} \subseteq Places
    BY DEF MaybeBlock, Places
  <1>2. IdleRead \in T /\ IdleRead.pin = NoValue
    BY <1>1 DEF IdleRead, NoInclusion
  <1>3. place \in Places
    BY <1>1
  <1>4. read' \in T /\ read'.at = place /\ read'.pin = NoValue
    BY <1>2, <1>3
  <1>5. QED
    BY <1>4 DEF ReadInv

LEMMA IdleReadIs == IdleRead = [IdleRead EXCEPT !.at = "idle"]
  <1> DEFINE T == [at : Places, pin : MaybeBlock, inclusion : MaybeBlock, depth : Int,
                   steady : BOOLEAN]
  <1>1. IdleRead.at = "idle"
    BY DEF IdleRead
  <1>2. NoValue \in MaybeBlock /\ 0 \in Int /\ TRUE \in BOOLEAN /\ "idle" \in Places
    BY DEF MaybeBlock, Places
  <1>3. IdleRead \in T
    BY <1>2 DEF IdleRead, NoInclusion
  <1>4. QED
    BY <1>1, <1>3

\* A pending status is of no head.
LEMMA PendingInv == ASSUME Reads(Pending) PROVE ReadInv' /\ StatusInv'
  <1>1. read' = [IdleRead EXCEPT !.at = "idle"]
    BY IdleReadIs DEF Reads
  <1>2. QED
    BY <1>1, IdleReadInv DEF Reads, StatusInv, Pending

-----------------------------------------------------------------------------
LEMMA EvmChainStepKeeps ==
    ASSUME EvmInv, ChainStep, UNCHANGED <<read, evmStatus>>
    PROVE  EvmInv'
  <1>1. ChainType'
    BY ChainStepMoves DEF EvmInv
  <1>2. Recorded(read.inclusion, head, left) => Recorded(read.inclusion, head', left')
    BY RecordedStays DEF EvmInv
  <1>3. ReadInv'
    BY <1>2 DEF EvmInv, ReadInv
  <1>4. StatusInv'
    BY DEF EvmInv, StatusInv
  <1>5. QED
    BY <1>1, <1>3, <1>4 DEF EvmInv

LEMMA ReadBeginsKeeps == ASSUME EvmInv, ReadBegins PROVE ReadInv' /\ StatusInv'
  <1>1. PICK pin \in {NoValue, head} :
            read' = [IdleRead EXCEPT !.at = "receipt", !.pin = pin]
    BY DEF ReadBegins
  <1>2. evmStatus' = Pending
    BY DEF ReadBegins
  <1>3. pin \in MaybeBlock /\ (pin # NoValue => Proper(pin))
    BY DEF EvmInv, ChainType, Proper, MaybeBlock
  <1>4. read' = [at |-> "receipt", pin |-> pin, inclusion |-> NoValue, depth |-> 0,
                 steady |-> TRUE]
    BY <1>1 DEF IdleRead, NoInclusion
  <1>5. read' \in [at : Places, pin : MaybeBlock, inclusion : MaybeBlock, depth : Int,
                   steady : BOOLEAN]
    BY <1>3, <1>4 DEF Places, MaybeBlock
  <1>6. read'.pin = pin /\ read'.at = "receipt"
    BY <1>4
  <1>7. ReadInv'
    BY <1>3, <1>5, <1>6 DEF ReadInv
  <1>8. QED
    BY <1>2, <1>7 DEF StatusInv, Pending

LEMMA ReceiptReadKeeps == ASSUME EvmInv, ReceiptRead PROVE ReadInv' /\ StatusInv'
  <1>1. UNCHANGED <<head, left, evmStatus>> /\ StatusInv'
    BY DEF ReceiptRead, Reading, Onwards, chainVars, EvmInv, StatusInv
  <1>2. CASE HasTx(head)
    <2>1. read' = [read EXCEPT !.inclusion = TxBlock(head), !.at = "canonical"]
      BY <1>2 DEF ReceiptRead, Onwards
    <2>2. /\ Recorded(TxBlock(head), head, left) /\ TxBlock(head)[Len(TxBlock(head))].tx
          /\ TxBlock(head) \in MaybeBlock
      BY <1>2, InclusionIsBlock DEF EvmInv, Recorded, Proper, MaybeBlock
    <2>3. QED
      BY <1>1, <2>1, <2>2 DEF EvmInv, ReadInv, Places
  <1>3. CASE ~HasTx(head)
    <2>1. read' = [read EXCEPT !.at = "pending_head"]
      BY <1>3 DEF ReceiptRead, Onwards
    <2>2. QED
      BY <1>1, <2>1 DEF EvmInv, ReadInv, Places
  <1>4. QED
    BY <1>2, <1>3

LEMMA CanonicalReadKeeps == ASSUME EvmInv, CanonicalRead PROVE ReadInv' /\ StatusInv'
  <1> DEFINE canonical == BlockAt(Len(read.inclusion))
  <1>1. UNCHANGED <<head, left>> /\ read.at = "canonical"
    BY DEF CanonicalRead, Reading, chainVars
  <1>2. CASE canonical = NoValue
    <2>1. read' = [IdleRead EXCEPT !.at = "decode_error"] /\ evmStatus' = evmStatus
      BY <1>2 DEF CanonicalRead, Undecodable, Onwards
    <2>2. QED
      BY <2>1, IdleReadInv DEF EvmInv, StatusInv
  <1>3. CASE canonical # NoValue /\ canonical # read.inclusion
    BY <1>3, PendingInv DEF CanonicalRead
  <1>4. CASE canonical # NoValue /\ canonical = read.inclusion
    <2>1. read' = [read EXCEPT !.at = "head"] /\ evmStatus' = evmStatus
      BY <1>4 DEF CanonicalRead, Onwards
    <2>2. QED
      BY <1>1, <2>1 DEF EvmInv, ReadInv, StatusInv, Places
  <1>5. QED
    BY <1>2, <1>3, <1>4

LEMMA PendingHeadReadKeeps == ASSUME EvmInv, PendingHeadRead PROVE ReadInv' /\ StatusInv'
  <1>1. CASE Superseded
    <2>1. read' = [IdleRead EXCEPT !.at = "idle"] /\ evmStatus' = evmStatus
      BY <1>1, IdleReadIs DEF PendingHeadRead, Unavailable, Onwards
    <2>2. QED
      BY <2>1, IdleReadInv DEF EvmInv, StatusInv
  <1>2. CASE ~Superseded
    BY <1>2, PendingInv DEF PendingHeadRead
  <1>3. QED
    BY <1>1, <1>2

LEMMA DepthIsNumber ==
    ASSUME NEW top \in Nat, NEW low \in Nat, ~(top - low + 1 < 1)
    PROVE  low <= top /\ top - low + 1 \in Nat /\ top = low + (top - low + 1) - 1
  OBVIOUS

\* The head that was notified is still canonical: the inclusion is below it, and
\* as deep as the report will say.
LEMMA DepthIsTrue ==
    ASSUME EvmInv, read.at = "head", read.pin # NoValue, ~Superseded,
           read.inclusion \notin left,
           ~(Len(BlockRef) - Len(read.inclusion) + 1 < 1)
    PROVE  AtTheHead(read.pin, read.inclusion, Len(BlockRef) - Len(read.inclusion) + 1)
  <1>1. Proper(read.pin) /\ Proper(read.inclusion) /\ Proper(head) /\ ChainType
    BY DEF EvmInv, ReadInv, Recorded, ChainType
  <1>2. BlockRef = read.pin /\ BlockAt(Len(read.pin)) = read.pin
    BY DEF Superseded, BlockRef
  <1>3. Canonical(read.pin, head)
    BY <1>1, <1>2, CanonicalBlock
  <1>4. Len(read.pin) \in Nat /\ Len(read.inclusion) \in Nat
    BY <1>1 DEF Proper
  <1>5. ~(Len(read.pin) - Len(read.inclusion) + 1 < 1)
    BY <1>2
  <1>6. /\ Len(read.inclusion) <= Len(read.pin)
        /\ Len(read.pin) - Len(read.inclusion) + 1 \in Nat
        /\ Len(read.pin) = Len(read.inclusion) + (Len(read.pin) - Len(read.inclusion) + 1) - 1
    BY <1>4, <1>5, DepthIsNumber
  <1>7. Canonical(read.inclusion, head)
    BY InclusionStays DEF EvmInv, ReadInv
  <1>8. Canonical(read.inclusion, read.pin)
    BY <1>1, <1>3, <1>6, <1>7, LowerIsAncestor
  <1>9. QED
    BY <1>1, <1>2, <1>6, <1>8 DEF AtTheHead

\* A status that says the inclusion of the read in hand.
LEMMA IncludedInv ==
    ASSUME NEW level, NEW depth, NEW steady, Reads(Included(level, depth, steady)),
           read.pin # NoValue /\ steady => AtTheHead(read.pin, read.inclusion, depth)
    PROVE  ReadInv' /\ StatusInv'
  <1>1. read' = [IdleRead EXCEPT !.at = "idle"] /\ evmStatus' = Included(level, depth, steady)
    BY IdleReadIs DEF Reads
  <1>2. QED
    BY <1>1, IdleReadInv DEF StatusInv, Included

LEMMA EvmHeadReadKeeps == ASSUME EvmInv, EvmHeadRead PROVE ReadInv' /\ StatusInv'
  <1> DEFINE depth == Len(BlockRef) - Len(read.inclusion) + 1
             steady == read.inclusion \notin left
  <1>0. read.at = "head" /\ UNCHANGED <<head, left>>
    BY DEF EvmHeadRead, Reading, chainVars
  <1>1. CASE Superseded
    <2>1. read' = [IdleRead EXCEPT !.at = "idle"] /\ evmStatus' = evmStatus
      BY <1>1, IdleReadIs DEF EvmHeadRead, Unavailable, Onwards
    <2>2. QED
      BY <2>1, IdleReadInv DEF EvmInv, StatusInv
  <1>2. CASE ~Superseded /\ depth < 1
    BY <1>2, PendingInv DEF EvmHeadRead
  <1>3. CASE ~Superseded /\ ~(depth < 1)
    <2>1. read.pin # NoValue /\ steady => AtTheHead(read.pin, read.inclusion, depth)
      BY <1>0, <1>3, DepthIsTrue
    <2>2. CASE wanted.finality = "included"
      <3>1. Reads(Included("included", depth, steady))
        BY <1>3, <2>2 DEF EvmHeadRead
      <3> HIDE DEF depth, steady
      <3>2. QED
        BY <2>1, <3>1, IncludedInv
    <2>3. CASE wanted.finality # "included"
      <3>1. /\ read' = [read EXCEPT !.depth = depth, !.steady = steady, !.at = "finality"]
            /\ evmStatus' = evmStatus
        BY <1>3, <2>3 DEF EvmHeadRead, Onwards
      <3>2. depth \in Int
        <4>1. Proper(read.inclusion) /\ Proper(head) /\ (read.pin # NoValue => Proper(read.pin))
          BY <1>0 DEF EvmInv, ReadInv, ChainType, Recorded
        <4>2. Proper(BlockRef)
          BY <1>3, <4>1 DEF Superseded, BlockRef
        <4>3. QED
          BY <4>1, <4>2 DEF Proper
      <3>3. steady \in BOOLEAN
        OBVIOUS
      <3> HIDE DEF depth, steady
      <3>4. QED
        BY <1>0, <2>1, <3>1, <3>2, <3>3 DEF EvmInv, ReadInv, StatusInv, Places
    <2>4. QED
      BY <2>2, <2>3
  <1>4. QED
    BY <1>1, <1>2, <1>3

LEMMA FinalityReadKeeps == ASSUME EvmInv, FinalityRead PROVE ReadInv' /\ StatusInv'
  <1> DEFINE level == IF finalized >= Len(read.inclusion) THEN wanted.finality ELSE "included"
  <1>1. Reads(Included(level, read.depth, read.steady)) /\ read.at = "finality"
    BY DEF FinalityRead, Reading
  <1>2. read.pin # NoValue /\ read.steady => AtTheHead(read.pin, read.inclusion, read.depth)
    BY <1>1 DEF EvmInv, ReadInv
  <1> HIDE DEF level
  <1>3. QED
    BY <1>1, <1>2, IncludedInv

LEMMA ReadFailsKeeps == ASSUME EvmInv, ReadFails PROVE ReadInv' /\ StatusInv'
  <1>1. read' = [IdleRead EXCEPT !.at = "idle"] /\ evmStatus' = evmStatus
    BY IdleReadIs DEF ReadFails, Onwards
  <1>2. QED
    BY <1>1, IdleReadInv DEF EvmInv, StatusInv

-----------------------------------------------------------------------------
LEMMA EvmInvInit == EvmInit => EvmInv
  <1> SUFFICES ASSUME EvmInit PROVE EvmInv
    OBVIOUS
  <1>4. ChainType
    BY ChainTypeInit DEF EvmInit
  <1>5. ReadInv /\ StatusInv
    BY DEF EvmInit, ReadInv, StatusInv, IdleRead, Pending, NoInclusion, Places, MaybeBlock
  <1>6. QED
    BY <1>4, <1>5 DEF EvmInv

LEMMA EvmInvStep == EvmInv /\ [EvmNext]_evmVars => EvmInv'
  <1> SUFFICES ASSUME EvmInv, [EvmNext]_evmVars PROVE EvmInv'
    OBVIOUS
  <1>1. CASE ChainStep /\ UNCHANGED <<read, evmStatus, wanted, evmOutcome, lost>>
    BY <1>1, EvmChainStepKeeps
  <1>2. CASE ReadStep
    <2>1. UNCHANGED chainVars
      BY <1>2 DEF ReadStep, ReadBegins, ReceiptRead, CanonicalRead, PendingHeadRead,
                  EvmHeadRead, FinalityRead, ReadFails, Reading
    <2>2. ReadInv' /\ StatusInv'
      BY <1>2, ReadBeginsKeeps, ReceiptReadKeeps, CanonicalReadKeeps, PendingHeadReadKeeps,
         EvmHeadReadKeeps, FinalityReadKeeps, ReadFailsKeeps DEF ReadStep
    <2>3. QED
      BY <2>1, <2>2, ChainTypeStays DEF EvmInv
  <1>3. CASE UNCHANGED evmVars
    <2>1. UNCHANGED chainVars /\ UNCHANGED <<read, evmStatus, head, left>>
      BY <1>3 DEF evmVars, chainVars
    <2>2. QED
      BY <2>1, ChainTypeStays DEF EvmInv, ReadInv, StatusInv
  <1>4. QED
    BY <1>1, <1>2, <1>3 DEF EvmNext

\* An inclusion reported at a notified head is an ancestor of that head, with the
\* confirmations that it has below it, if it was on the best chain from the receipt
\* to the head (providers/evm.py:478-509, 557-578).
THEOREM ReportFitsTheHead == EvmSpec => []ConfirmedAtTheHead
  <1>1. EvmInv => ConfirmedAtTheHead
    <2> SUFFICES ASSUME EvmInv, evmStatus.level # "pending", evmStatus.pin # NoValue, evmStatus.steady
                 PROVE  /\ Len(evmStatus.pin) = Len(evmStatus.block) + evmStatus.confirmations - 1
                        /\ Ancestor(evmStatus.pin, Len(evmStatus.block)) = evmStatus.block
      BY DEF ConfirmedAtTheHead
    <2>1. AtTheHead(evmStatus.pin, evmStatus.block, evmStatus.confirmations)
      BY DEF EvmInv, StatusInv
    <2>2. QED
      BY <2>1, PrefixIsBlock DEF AtTheHead
  <1>2. QED
    BY <1>1, EvmInvInit, EvmInvStep, PTL DEF EvmSpec

-----------------------------------------------------------------------------
(***************************************************************************)
(* The scenes of MC_Provider.                                              *)
(***************************************************************************)
CP == INSTANCE ConditionWatchProofs WITH
        head <- chain, outcome <- answer,
        Contents <- Blocks, Paths <- {w.path : w \in Watches},
        MaxHeight <- 3, MaxReconfirms <- 2, MaxSeen <- 3, MaxDepth <- 1,
        Drops <- {"NetworksAdded", "Timestamp", "MechanismCount", "Uids", "Value",
                  "BlockHash", "Epoch"}
SP == INSTANCE EventStreamProofs WITH
        Labels <- {1, 2}, MaxHeight <- 2, MaxBlocks <- 3, MaxBest <- 2, MaxWire <- 1,
        QueueSize <- 1, Batch <- 2, Matching <- {1}, EventQueueSize <- 1,
        Initial <- {{<<0>>}}

LEMMA WatchInitSame == (W!Init <=> CP!Init)
  BY
  DEF W!NoRead, CP!NoRead, W!NoTicks, CP!NoTicks, W!NothingSeen, CP!NothingSeen, W!NoAnchor,
      CP!NoAnchor, W!InitialMemory, CP!InitialMemory, W!Init, CP!Init, W!Cardinality,
      CP!Cardinality

LEMMA WatchNextSame == (W!Next <=> CP!Next)
  BY
  DEF W!Number, CP!Number, W!Ancestor, CP!Ancestor, W!Top, CP!Top, W!TimeAt, CP!TimeAt,
      W!EpochAt, CP!EpochAt, W!MarkerAt, CP!MarkerAt, W!ValueAt, CP!ValueAt, W!NoRead,
      CP!NoRead, W!To, CP!To, W!Quit, CP!Quit, W!Lost, CP!Lost, W!Read, CP!Read, W!QueryFails,
      CP!QueryFails, W!AfterNeuron, CP!AfterNeuron, W!AfterGuard, CP!AfterGuard, W!ReadBegins,
      CP!ReadBegins, W!TimestampRead, CP!TimestampRead, W!Verdict, CP!Verdict, W!Added,
      CP!Added, W!RootAdded, CP!RootAdded, W!Reconfirm, CP!Reconfirm, W!SubnetRead,
      CP!SubnetRead, W!CanaryRead, CP!CanaryRead, W!SubnetReread, CP!SubnetReread, W!UidRead,
      CP!UidRead, W!MechanismRead, CP!MechanismRead, W!Coerced, CP!Coerced, W!NeedsContext,
      CP!NeedsContext, W!AfterValue, CP!AfterValue, W!ValueRead, CP!ValueRead,
      W!ActivityLookup, CP!ActivityLookup, W!ActivityRead, CP!ActivityRead, W!EpochRead,
      CP!EpochRead, W!ReadRetried, CP!ReadRetried, W!ReadStep, CP!ReadStep, W!NewBlock,
      CP!NewBlock, W!Observation, CP!Observation, W!Answer, CP!Answer, W!IsNumber, CP!IsNumber,
      W!ActivityMarker, CP!ActivityMarker, W!Crosses, CP!Crosses, W!Threshold, CP!Threshold,
      W!Tick, CP!Tick, W!Oldest, CP!Oldest, W!Position, CP!Position, W!InWindow, CP!InWindow,
      W!Pruned, CP!Pruned, W!Magnitude, CP!Magnitude, W!Moved, CP!Moved, W!Compared,
      CP!Compared, W!NextArrival, CP!NextArrival, W!Delta, CP!Delta, W!Scalars, CP!Scalars,
      W!Transition, CP!Transition, W!State, CP!State, W!AnchorFor, CP!AnchorFor, W!PulseAnchor,
      CP!PulseAnchor, W!AnchorAt, CP!AnchorAt, W!ObservedAt, CP!ObservedAt, W!Elapsed,
      CP!Elapsed, W!Unmeasurable, CP!Unmeasurable, W!LacksContext, CP!LacksContext,
      W!FirstLiveness, CP!FirstLiveness, W!LaterLiveness, CP!LaterLiveness, W!Liveness,
      CP!Liveness, W!Answered, CP!Answered, W!Quits, CP!Quits, W!MayMiss,
      CP!MayMiss, W!MadeUpIf, CP!MadeUpIf, W!Passed, CP!Passed, W!IsAdded, CP!IsAdded,
      W!NotAnswered, CP!NotAnswered, W!Absent, CP!Absent, W!EpochOf, CP!EpochOf, W!Evaluate, CP!Evaluate,
      W!Watching, CP!Watching, W!HeadIsReadNext, CP!HeadIsReadNext, W!Unwatched, CP!Unwatched,
      W!Next, CP!Next, W!Cardinality, CP!Cardinality

LEMMA StreamInitSame == (S!Init <=> SP!Init)
  BY
  DEF S!Sentinel, SP!Sentinel, S!NewStream, SP!NewStream, S!NewFollow, SP!NewFollow,
      S!FollowInit, SP!FollowInit, S!IdleLoop, SP!IdleLoop, S!Init, SP!Init, S!Cardinality,
      SP!Cardinality

LEMMA StreamNextSame == (S!Next <=> SP!Next)
  BY
  DEF S!followVars, SP!followVars, S!Prefix, SP!Prefix, S!Related, SP!Related, S!Parent,
      SP!Parent, S!Blocks, SP!Blocks, S!Carried, SP!Carried, S!Live, SP!Live, S!Tell, SP!Tell,
      S!Heard, SP!Heard, S!Following, SP!Following, S!BlockAnnounced, SP!BlockAnnounced,
      S!BestAnnounced, SP!BestAnnounced, S!FinalityAnnounced, SP!FinalityAnnounced,
      S!FollowStopped, SP!FollowStopped, S!LegacyHead, SP!LegacyHead, S!NodeStep, SP!NodeStep,
      S!BlockRef, SP!BlockRef, S!Error, SP!Error, S!Sentinel, SP!Sentinel, S!Puts, SP!Puts,
      S!PutsLast, SP!PutsLast, S!Ends, SP!Ends, S!PutDone, SP!PutDone, S!MayPut, SP!MayPut,
      S!Unwound, SP!Unwound, S!Cancelled, SP!Cancelled, S!MayClose, SP!MayClose, S!Awaited,
      SP!Awaited, S!NewFollow, SP!NewFollow, S!Running, SP!Running, S!Fails, SP!Fails,
      S!HeadsStart, SP!HeadsStart, S!Subscribed, SP!Subscribed, S!FallsBack, SP!FallsBack,
      S!SubscribedLegacy, SP!SubscribedLegacy, S!Message, SP!Message, S!Receives, SP!Receives,
      S!Known, SP!Known, S!Numbers, SP!Numbers, S!Initialized, SP!Initialized, S!HeaderRead,
      SP!HeaderRead, S!BlockRecorded, SP!BlockRecorded, S!BestEmitted, SP!BestEmitted,
      S!Obsolete, SP!Obsolete, S!FinalityRecorded, SP!FinalityRecorded, S!Unpinned,
      SP!Unpinned, S!StopReceived, SP!StopReceived, S!LegacyReceived, SP!LegacyReceived,
      S!LegacyLookup, SP!LegacyLookup, S!FollowFails, SP!FollowFails, S!HeadPut, SP!HeadPut,
      S!HeadsUnwound, SP!HeadsUnwound, S!HandlerStep, SP!HandlerStep, S!TaskStep, SP!TaskStep,
      S!HeadsCancel, SP!HeadsCancel, S!HeadsClosed, SP!HeadsClosed, S!Carries, SP!Carries,
      S!EventOf, SP!EventOf, S!Front, SP!Front, S!Opened, SP!Opened, S!Ended, SP!Ended,
      S!Polling, SP!Polling, S!EventsStart, SP!EventsStart, S!LoopTakes, SP!LoopTakes,
      S!EventsRead, SP!EventsRead, S!LoopFails, SP!LoopFails, S!HeadsAreShut, SP!HeadsAreShut,
      S!LoopShuts, SP!LoopShuts, S!EventPut, SP!EventPut, S!EventsUnwound, SP!EventsUnwound,
      S!LoopStep, SP!LoopStep, S!RuntimeTakes, SP!RuntimeTakes, S!RuntimeStarts,
      SP!RuntimeStarts, S!LoopStarts, SP!LoopStarts, S!RuntimeCloses, SP!RuntimeCloses,
      S!EventsClosed, SP!EventsClosed, S!Unlooped, SP!Unlooped, S!ClientStep, SP!ClientStep,
      S!Next, SP!Next, S!Cardinality, SP!Cardinality

LEMMA ReadsSame == (W!ReadIsTrue <=> CP!ReadIsTrue)
  BY
  DEF W!Number, CP!Number, W!Top, CP!Top, W!TimeAt, CP!TimeAt, W!EpochAt, CP!EpochAt,
      W!MarkerAt, CP!MarkerAt, W!ValueAt, CP!ValueAt, W!Exists, CP!Exists, W!Told, CP!Told,
      W!ReadIsTrue, CP!ReadIsTrue, W!Cardinality, CP!Cardinality

LEMMA MatchesSame == (W!MatchIsTrue <=> CP!MatchIsTrue)
  BY
  DEF W!Magnitude, CP!Magnitude, W!Last, CP!Last, W!Coordinate, CP!Coordinate, W!StillInside,
      CP!StillInside, W!Baseline, CP!Baseline, W!Lowest, CP!Lowest, W!Highest, CP!Highest,
      W!Far, CP!Far, W!DeltaAgrees, CP!DeltaAgrees, W!Since, CP!Since, W!Activity,
      CP!Activity, W!Silence, CP!Silence, W!Placeless, CP!Placeless, W!LivenessAgrees,
      CP!LivenessAgrees, W!MatchIsTrue, CP!MatchIsTrue

LEMMA EndsSame == (S!EndIsTold <=> SP!EndIsTold)
  BY
  DEF S!Front, SP!Front, S!Opened, SP!Opened, S!Ended, SP!Ended, S!EndIsTold, SP!EndIsTold,
      S!Cardinality, SP!Cardinality

LEMMA FollowsSame == (S!FollowIsExact <=> SP!FollowIsExact)
  BY
  DEF S!Prefix, SP!Prefix, S!Live, SP!Live, S!Running, SP!Running, S!CaughtUp, SP!CaughtUp,
      S!FollowIsExact, SP!FollowIsExact, S!Cardinality, SP!Cardinality

LEMMA OrdersSame == (S!InOrder <=> SP!InOrder)
  BY
  DEF S!Carries, SP!Carries, S!Ended, SP!Ended, S!Wanted, SP!Wanted, S!Rank, SP!Rank,
      S!Received, SP!Received, S!InOrder, SP!InOrder, S!Cardinality, SP!Cardinality

LEMMA ClosesSame == (S!CloseIsNeverStuck <=> SP!CloseIsNeverStuck)
  BY
  DEF S!MayPut, SP!MayPut, S!MayClose, SP!MayClose, S!Awaited, SP!Awaited, S!Front, SP!Front,
      S!HeadsAreShut, SP!HeadsAreShut, S!CloseGoesOn, SP!CloseGoesOn, S!CloseIsNeverStuck,
      SP!CloseIsNeverStuck

LEMMA StreamAssumptionSame == (S!StreamAssumption <=> SP!StreamAssumption)
  BY
  DEF S!StreamAssumption, SP!StreamAssumption, S!IsFiniteSet, SP!IsFiniteSet, S!Cardinality, SP!Cardinality

LEMMA WatchAssumptionSame == (W!WatchAssumption <=> CP!WatchAssumption)
  BY
  DEF W!WatchTyped, CP!WatchTyped, W!WatchAssumption, CP!WatchAssumption, W!Cardinality,
      CP!Cardinality


-----------------------------------------------------------------------------
(* Steps of another scene leave the watch and the streams alone. *)

LEMMA WatchMoves == [MCNext]_allVars => [CP!Next]_(CP!watchVars)
  <1>1. CASE InWatch(W!Next)
    BY <1>1, WatchNextSame DEF InWatch
  <1>2. CASE InScan(Next) \/ InEvm(EvmNext) \/ InStream(S!Next) \/ UNCHANGED allVars
    BY <1>2 DEF InScan, InEvm, InStream, allVars, watchVars, CP!watchVars, CP!readVars
  <1>3. QED
    BY <1>1, <1>2 DEF MCNext

LEMMA StreamMoves == [MCNext]_allVars => [SP!Next]_(SP!streamVars)
  <1>1. CASE InStream(S!Next)
    BY <1>1, StreamNextSame DEF InStream
  <1>2. CASE InScan(Next) \/ InEvm(EvmNext) \/ InWatch(W!Next) \/ UNCHANGED allVars
    BY <1>2 DEF InScan, InEvm, InWatch, allVars, streamVars, SP!streamVars, SP!followVars
  <1>3. QED
    BY <1>1, <1>2 DEF MCNext

LEMMA WatchRuns == MCSpec => CP!Spec
  <1>1. MCInit => CP!Init
    BY WatchInitSame DEF MCInit
  <1>2. QED
    BY <1>1, WatchMoves, PTL DEF MCSpec, CP!Spec

LEMMA StreamRuns == MCSpec => SP!Spec
  <1>1. MCInit => SP!Init
    BY StreamInitSame DEF MCInit
  <1>2. QED
    BY <1>1, StreamMoves, PTL DEF MCSpec, SP!Spec

LEMMA WatchAssumed == CP!WatchAssumption
  BY ProviderAssumption, WatchAssumptionSame

(* A read that completed is about the blocks it is said to be of, whatever   *)
(* the chain did in between, but for the zeros that stand for missing answers;*)
(* what it says does not exist did not, unless the answer was made up        *)
(* (bittensor.py:622-1018, 1328-1344).                                       *)
THEOREM ReadsAreTrueInTheScene == MCSpec => []ReadIsTrue
  <1>1. CP!Spec => []CP!ReadIsTrue
    BY CP!ReadsAreTrue, WatchAssumed
  <1>2. CP!ReadIsTrue => ReadIsTrue
    BY ReadsSame DEF ReadIsTrue
  <1>3. QED
    BY <1>1, <1>2, WatchRuns, PTL

(* A condition matches exactly when the observations since the watch began   *)
(* say so, however their blocks came and went, and a liveness watch raises   *)
(* exactly at the second observation of a zero marker in epochs              *)
(* (delta.py:104-200, liveness.py:78-121, 160-170, 245).                     *)
THEOREM MatchesAreTrueInTheScene == MCSpec => []MatchIsTrue
  <1>1. CP!Spec => []CP!MatchIsTrue
    BY CP!MatchesAreTrue, WatchAssumed
  <1>2. CP!MatchIsTrue => MatchIsTrue
    BY MatchesSame DEF MatchIsTrue
  <1>3. QED
    BY <1>1, <1>2, WatchRuns, PTL

(* A consumer of heads or events is told of the end by an error              *)
(* (bittensor.py:1951-1978, 2253-2263).                                      *)
THEOREM EndsAreToldInTheScene == MCSpec => []EndIsTold
  <1>1. SP!EndIsTold => EndIsTold
    BY EndsSame DEF EndIsTold
  <1>2. QED
    BY SP!EndsAreTold, <1>1, StreamRuns, PTL


LEMMA StreamAssumed == SP!StreamAssumption
  BY ProviderAssumption, StreamAssumptionSame

(* The handler of a follow keeps an exact account of the node's tree: it     *)
(* knows what it is told of, and pins what may still matter and little more  *)
(* (bittensor.py:2013-2091).                                                 *)
THEOREM TheFollowIsExactInTheScene == MCSpec => []FollowIsExact
  <1>1. SP!Spec => []SP!FollowIsExact
    BY SP!TheFollowIsExact, StreamAssumed
  <1>2. SP!FollowIsExact => FollowIsExact
    BY FollowsSame DEF FollowIsExact
  <1>3. QED
    BY <1>1, <1>2, StreamRuns, PTL

(* The runtime receives heads and events in the order of the announcements,  *)
(* none twice and none skipped (bittensor.py:1951-2015, 2211-2263).          *)
THEOREM EventsComeInOrderInTheScene == MCSpec => []InOrder
  <1>1. SP!Spec => []SP!InOrder
    BY SP!EventsComeInOrder, StreamAssumed
  <1>2. SP!InOrder => InOrder
    BY OrdersSame DEF InOrder
  <1>3. QED
    BY <1>1, <1>2, StreamRuns, PTL

(* Closing a stream never waits for ever, whatever its task waited for when  *)
(* it was cancelled (bittensor.py:2149-2170, 2391-2401).                     *)
THEOREM ClosesGoOnInTheScene == MCSpec => []CloseIsNeverStuck
  <1>1. SP!Spec => []SP!CloseIsNeverStuck
    BY SP!ClosesGoOn, StreamAssumed
  <1>2. SP!CloseIsNeverStuck => CloseIsNeverStuck
    BY ClosesSame DEF CloseIsNeverStuck
  <1>3. QED
    BY <1>1, <1>2, StreamRuns, PTL

=============================================================================
