------------------------ MODULE ConditionWatchProofs ------------------------
(***************************************************************************)
(* What a condition watch reads is so or is known to be made up, and it    *)
(* matches exactly when its observations say so: for chains of any height  *)
(* and contents, reorganisations of any depth between any two RPCs, any    *)
(* number of observations, and queries of any kind that are lost.          *)
(***************************************************************************)
EXTENDS ConditionWatch, FiniteSetTheorems, WellFoundedInduction, TLAPS

-----------------------------------------------------------------------------
(* What the invariant says of the read in progress. *)

MaybeInt == Int \cup {NoValue}
Chain(b) == b \in Seq(Contents) /\ b # <<>>

Guarding == {"guard", "canary", "recheck"}
Unvalued == {"uid", "mechanism", "value"}
Valued   == {"lookup", "activity", "epoch", "done"}
Parts    == {"entity", "value", "epoch", "activityEpoch"}
Places   == {"idle", "stamp", "failed"} \cup Guarding \cup Unvalued \cup Valued

ReadType ==
    /\ rd \in [at : Places, pin : Seq(Contents), raw : BOOLEAN \cup {NoValue}, hits : Int,
               time : MaybeInt, value : MaybeInt, named : Seq(Contents) \cup {NoValue},
               activityTime : MaybeInt, activityEpoch : MaybeInt, epoch : MaybeInt,
               error : {"none", "provider", "decode", "no_entity"},
               madeUp : SUBSET Parts]
    /\ rd.at # "idle" => rd.pin # <<>>
    /\ Chain(head)
    /\ watch \in Watches /\ path = watch.path

OnSubnet == path.entity \in {"subnet", "neuron"}

\* What the checks have found out: what was passed exists, and what is said not to
\* exist does not, unless an answer was made up.
GuardInv ==
    /\ rd.at \in Guarding => path.entity # "none"
    /\ rd.at \in {"canary", "recheck"} => rd.raw \in {FALSE, NoValue}
    /\ rd.at \in Unvalued \cup Valued => (OnSubnet => Top(rd.pin).subnet)
    /\ rd.at = "uid" => path.entity = "neuron"
    /\ rd.at \in (Unvalued \cup Valued) \ {"uid"} =>
           (path.entity = "neuron" => Top(rd.pin).neuron)
    /\ rd.at = "failed" /\ rd.error = "no_entity" =>
           ~Exists(path, rd.pin) \/ "entity" \in rd.madeUp

\* The marker's context, once it is complete.
Context ==
    IF NeedsContext(rd.value)
    THEN /\ rd.named \in Seq(Contents) /\ Number(rd.named) = rd.value
         /\ rd.activityTime = TimeAt(rd.named)
         /\ rd.activityEpoch = IF path.epochs /\ path.unit # "time"
                               THEN Told("activityEpoch", EpochAt(rd.named)) ELSE NoValue
    ELSE rd.activityTime = NoValue /\ rd.activityEpoch = NoValue

\* What has been read so far is of the pinned block, but for what was made up.
ContentInv ==
    /\ rd.at \in Guarding \cup Unvalued \cup Valued => rd.time = TimeAt(rd.pin)
    /\ rd.at \in Guarding \cup Unvalued \cup {"stamp", "lookup"} =>
           rd.activityTime = NoValue /\ rd.activityEpoch = NoValue
    /\ rd.at \in Guarding \cup Unvalued \cup {"stamp", "lookup", "activity"} =>
           rd.epoch = NoValue
    /\ rd.at \in Guarding \cup Unvalued \cup {"stamp"} => rd.madeUp = {}
    /\ rd.at \in {"lookup", "activity"} => rd.madeUp \subseteq {"value"}
    /\ rd.at = "epoch" => "epoch" \notin rd.madeUp
    /\ rd.at \in Valued => rd.value = Told("value", ValueAt(path, rd.pin))
    /\ rd.at \in {"lookup", "activity"} => NeedsContext(rd.value)
    /\ rd.at = "activity" => rd.named \in Seq(Contents) /\ Number(rd.named) = rd.value
    /\ rd.at \in {"epoch", "done"} => Context
    /\ rd.at = "epoch" => path.epochs
    /\ rd.at = "done" =>
           rd.epoch = IF path.epochs THEN Told("epoch", EpochAt(rd.pin)) ELSE NoValue

ReadInv == ReadType /\ GuardInv /\ ContentInv

-----------------------------------------------------------------------------
(* What the chain holds. *)

LEMMA TopIsContent ==
    ASSUME WatchAssumption, NEW b, Chain(b)
    PROVE  /\ Len(b) \in Nat \ {0}
           /\ \A i \in 1..Len(b) : /\ b[i] \in Contents
                                   /\ b[i].level \in Int
                                   /\ b[i].active \in BOOLEAN
  <1>1. b \in Seq(Contents) /\ Len(b) \in Nat \ {0}
    BY DEF Chain
  <1>2. \A i \in 1..Len(b) : b[i] \in Contents
    BY <1>1
  <1>3. QED
    BY <1>1, <1>2 DEF WatchAssumption

LEMMA PartIsFinite ==
    ASSUME NEW n \in Nat, NEW S \in SUBSET (1..n)
    PROVE  IsFiniteSet(S) /\ Cardinality(S) \in Nat
  <1>1. 1 \in Int /\ n \in Int
    OBVIOUS
  <1>2. IsFiniteSet(1..n)
    BY <1>1, FS_Interval
  <1>3. IsFiniteSet(S)
    BY <1>2, FS_Subset
  <1>4. QED
    BY <1>3, FS_CardinalityType

\* A set of natural numbers below a bound has a greatest element.
LEMMA HasGreatest ==
    ASSUME NEW n \in Nat, NEW S \in SUBSET (1..n), S # {}
    PROVE  \E m \in S : \A i \in S : i <= m
  <1> DEFINE Above(i) == {j \in S : j > i}
             T == {Above(i) : i \in S}
  <1>0. S \subseteq Int /\ IsFiniteSet(S)
    <2>1. S \subseteq Int
      OBVIOUS
    <2>2. IsFiniteSet(S)
      BY PartIsFinite
    <2>3. QED
      BY <2>1, <2>2
  <1>1. T \subseteq FiniteSubsetsOf(S) /\ T # {}
    <2>1. T \subseteq SUBSET S
      OBVIOUS
    <2>2. T # {}
      OBVIOUS
    <2> HIDE DEF T
    <2>3. QED
      BY <1>0, <2>1, <2>2, FS_FiniteSubsetsOfFinite, Zenon
  <1>2. IsWellFoundedOn(StrictSubsetOrdering(S), FiniteSubsetsOf(S))
    BY FS_StrictSubsetOrderingWellFounded
  <1>3. PICK x \in T : \A y \in T : ~(<<y, x>> \in StrictSubsetOrdering(S))
    <2> HIDE DEF T
    <2> QED BY <1>1, <1>2, WFMin
  <1>4. PICK m \in S : x = Above(m)
    BY <1>3
  <1>5. ASSUME NEW i \in S, i > m
        PROVE  FALSE
    <2>0. i \in Int /\ m \in Int
      BY <1>0
    <2>1. Above(i) \subseteq Above(m)
      <3>1. ASSUME NEW j \in Above(i)
            PROVE  j \in Above(m)
        <4>1. j \in S /\ j > i /\ j \in Int
          BY <1>0
        <4>2. j > m
          BY <1>5, <2>0, <4>1
        <4>3. QED
          BY <4>1, <4>2
      <3>2. QED
        BY <3>1
    <2>2. i \in Above(m) /\ i \notin Above(i)
      BY <1>5, <2>0
    <2>3. Above(i) # Above(m)
      BY <2>2
    <2>4. <<Above(i), Above(m)>> \in StrictSubsetOrdering(S)
      BY <2>1, <2>3 DEF StrictSubsetOrdering
    <2>5. QED
      BY <1>3, <1>4, <2>4
  <1>6. QED
    BY <1>0, <1>5

LEMMA HasLeast ==
    ASSUME NEW n \in Nat, NEW S \in SUBSET (1..n), S # {}
    PROVE  \E m \in S : \A i \in S : m <= i
  <1> DEFINE R == {n + 1 - i : i \in S}
  <1>1. R \in SUBSET (1..n) /\ R # {}
    <2>1. \A i \in S : n + 1 - i \in 1..n
      OBVIOUS
    <2>2. QED
      BY <2>1
  <1>2. \A i \in S : n + 1 - i \in R
    OBVIOUS
  <1>3. \A j \in R : n + 1 - j \in S /\ j \in Int
    OBVIOUS
  <1> HIDE DEF R
  <1>4. PICK m \in R : \A j \in R : j <= m
    BY <1>1, HasGreatest
  <1>5. ASSUME NEW i \in S
        PROVE  n + 1 - m <= i
    <2>1. n + 1 - i <= m /\ m \in Int /\ i \in Int
      BY <1>2, <1>3, <1>4
    <2>2. QED
      BY <2>1
  <1>6. QED
    BY <1>3, <1>4, <1>5

LEMMA TimeIsNat ==
    ASSUME NEW b \in Seq(Contents)
    PROVE  TimeAt(b) \in Nat /\ EpochAt(b) \in Nat /\ Number(b) \in Nat
  <1>1. Len(b) \in Nat
    OBVIOUS
  <1>2. ASSUME NEW S \in SUBSET (1..Len(b))
        PROVE  Cardinality(S) \in Nat
    BY <1>1, PartIsFinite
  <1>3. QED
    BY <1>1, <1>2 DEF TimeAt, EpochAt, Number

\* A marker names a block of the chain, or none.
LEMMA MarkerInChain ==
    ASSUME NEW b \in Seq(Contents)
    PROVE  MarkerAt(b) \in 0..Len(b)
  <1> DEFINE active == {i \in 1..Len(b) : b[i].active}
  <1>0. Len(b) \in Nat
    OBVIOUS
  <1>1. CASE active = {}
    BY <1>0, <1>1 DEF MarkerAt
  <1>2. CASE active # {}
    <2>1. active \in SUBSET (1..Len(b)) /\ active # {}
      BY <1>2
    <2>2. MarkerAt(b) = CHOOSE i \in active : \A j \in active : j <= i
      BY <1>2 DEF MarkerAt
    <2> HIDE DEF active
    <2>3. \E m \in active : \A i \in active : i <= m
      BY <1>0, <2>1, HasGreatest
    <2>4. MarkerAt(b) \in active
      BY <2>2, <2>3, Zenon
    <2>5. MarkerAt(b) \in 1..Len(b)
      BY <2>1, <2>4
    <2>6. QED
      BY <1>0, <2>5
  <1>3. QED
    BY <1>1, <1>2

LEMMA ValueIsInt ==
    ASSUME WatchAssumption, NEW b, Chain(b), NEW p
    PROVE  ValueAt(p, b) \in Int
  <1>1. Len(b) \in Nat \ {0} /\ Top(b).level \in Int
    <2>1. Len(b) \in Nat \ {0} /\ \A i \in 1..Len(b) : b[i].level \in Int
      BY TopIsContent
    <2>2. QED
      BY <2>1 DEF Top
  <1>2. MarkerAt(b) \in Int
    BY <1>1, MarkerInChain DEF Chain
  <1>3. QED
    BY <1>1, <1>2 DEF ValueAt

LEMMA PrefixOfChain ==
    ASSUME NEW b \in Seq(Contents), NEW n \in 0..Len(b)
    PROVE  Ancestor(b, n) \in Seq(Contents) /\ Len(Ancestor(b, n)) = n
  BY DEF Ancestor

-----------------------------------------------------------------------------
(* The read invariant. *)

LEMMA ReadInvInit ==
    ASSUME WatchAssumption, Init
    PROVE  ReadInv
  <1>1. watch \in Watches /\ watch.contents \subseteq Contents
    BY DEF Init, WatchAssumption, WatchTyped
  <1>2. Chain(head)
    <2>1. PICK c \in watch.contents : head = <<c>>
      BY DEF Init
    <2>2. c \in Contents
      BY <1>1
    <2>3. QED
      BY <2>1, <2>2 DEF Chain
  <1>3. ReadType
    <2>1. rd = NoRead /\ watch \in Watches /\ path = watch.path
      BY DEF Init
    <2>2. NoRead \in [at : Places, pin : Seq(Contents), raw : BOOLEAN \cup {NoValue}, hits : Int,
                      time : MaybeInt, value : MaybeInt, named : Seq(Contents) \cup {NoValue},
                      activityTime : MaybeInt, activityEpoch : MaybeInt, epoch : MaybeInt,
                      error : {"none", "provider", "decode", "no_entity"},
                      madeUp : SUBSET Parts]
      BY DEF NoRead, MaybeInt, Places, Parts
    <2>3. QED
      BY <1>2, <2>1, <2>2 DEF ReadType, NoRead
  <1>4. rd.at = "idle" /\ rd = NoRead
    BY DEF Init, NoRead
  <1>5. QED
    BY <1>3, <1>4 DEF ReadInv, GuardInv, ContentInv, NoRead, Guarding, Unvalued, Valued

\* A read that has a value has a number.
LEMMA ValueTyped ==
    ASSUME WatchAssumption, ReadInv, rd.at \in Valued
    PROVE  rd.value \in Int /\ rd.pin \in Seq(Contents) /\ Chain(rd.pin)
  <1>1. Chain(rd.pin) /\ rd.value = Told("value", ValueAt(path, rd.pin))
    BY DEF ReadInv, ReadType, ContentInv, Chain, Valued
  <1>2. ValueAt(path, rd.pin) \in Int
    BY <1>1, ValueIsInt
  <1>3. QED
    BY <1>1, <1>2 DEF Told, Chain

\* What a read that goes on must show of the step, besides the record's type.
LEMMA ReadTypeKept ==
    ASSUME ReadInv, UNCHANGED <<head, path, watch>>,
           rd' \in [at : Places, pin : Seq(Contents), raw : BOOLEAN \cup {NoValue}, hits : Int,
                    time : MaybeInt, value : MaybeInt, named : Seq(Contents) \cup {NoValue},
                    activityTime : MaybeInt, activityEpoch : MaybeInt, epoch : MaybeInt,
                    error : {"none", "provider", "decode", "no_entity"},
                    madeUp : SUBSET Parts],
           rd'.at # "idle" => rd'.pin # <<>>
    PROVE  ReadType'
  BY DEF ReadInv, ReadType, Chain

\* A read of which only the block is known.
LEMMA BareReadTyped ==
    ASSUME ReadInv, UNCHANGED <<head, path, watch>>, NEW place \in Places,
           NEW pin \in Seq(Contents), pin # <<>>,
           NEW e \in {"none", "provider", "decode", "no_entity"}, NEW m \in SUBSET Parts,
           rd' = [at |-> place, pin |-> pin, raw |-> NoValue, hits |-> 0, time |-> NoValue,
                  value |-> NoValue, named |-> NoValue, activityTime |-> NoValue,
                  activityEpoch |-> NoValue, epoch |-> NoValue, error |-> e, madeUp |-> m]
    PROVE  ReadType'
  <1>1. NoValue \in MaybeInt
    BY DEF MaybeInt
  <1>2. QED
    BY <1>1, ReadTypeKept

\* A read that ends without a value: what it says of absence must be so.
LEMMA QuitsKeeps ==
    ASSUME ReadInv, UNCHANGED <<head, path, watch>>, rd.at # "idle",
           NEW e \in {"provider", "decode", "no_entity"}, NEW m \in SUBSET Parts, Quits(e, m),
           e = "no_entity" => ~Exists(path, rd.pin) \/ "entity" \in m
    PROVE  ReadInv'
  <1>1. rd' = [at |-> "failed", pin |-> rd.pin, raw |-> NoValue, hits |-> 0,
               time |-> NoValue, value |-> NoValue, named |-> NoValue,
               activityTime |-> NoValue, activityEpoch |-> NoValue,
               epoch |-> NoValue, error |-> e, madeUp |-> m]
    BY DEF Quits, NoRead
  <1>2. rd.pin \in Seq(Contents) /\ rd.pin # <<>>
    BY DEF ReadInv, ReadType
  <1>3. ReadType'
    BY <1>1, <1>2, BareReadTyped DEF Places
  <1>4. rd'.at = "failed" /\ rd'.error = e /\ rd'.pin = rd.pin /\ rd'.madeUp = m
    BY <1>1
  <1>5. GuardInv'
    BY <1>4 DEF GuardInv, Guarding, Unvalued, Valued, Exists, Top
  <1>6. ContentInv'
    BY <1>4 DEF ContentInv, Guarding, Unvalued, Valued
  <1>7. QED
    BY <1>3, <1>5, <1>6 DEF ReadInv

LEMMA QuitKeeps ==
    ASSUME ReadInv, UNCHANGED <<head, path, watch>>, rd.at # "idle",
           NEW e \in {"provider", "decode", "no_entity"}, Quit(e),
           e = "no_entity" => ~Exists(path, rd.pin)
    PROVE  ReadInv'
  BY QuitsKeeps DEF Quit

LEMMA NoReadKeeps ==
    ASSUME ReadInv, UNCHANGED <<head, path, watch>>, rd' = NoRead
    PROVE  ReadInv'
  <1>1. ReadType'
    BY ReadTypeKept DEF NoRead, Places, MaybeInt, Parts
  <1>2. rd'.at = "idle"
    BY DEF NoRead
  <1>3. QED
    BY <1>1, <1>2 DEF ReadInv, GuardInv, ContentInv, Guarding, Unvalued, Valued

\* A read whose block has been chosen.
LEMMA PinnedKeeps ==
    ASSUME ReadInv, UNCHANGED <<head, path, watch>>, NEW pin \in Seq(Contents), pin # <<>>,
           rd' = [at |-> "stamp", pin |-> pin, raw |-> NoValue, hits |-> 0,
                  time |-> NoValue, value |-> NoValue, named |-> NoValue,
                  activityTime |-> NoValue, activityEpoch |-> NoValue,
                  epoch |-> NoValue, error |-> "none", madeUp |-> {}]
    PROVE  ReadInv'
  <1>1. ReadType'
    <2>1. {} \in SUBSET Parts /\ "stamp" \in Places
      BY DEF Places
    <2>2. QED
      BY <2>1, BareReadTyped, Zenon
  <1>2. rd'.at = "stamp" /\ rd'.activityTime = NoValue /\ rd'.activityEpoch = NoValue
        /\ rd'.epoch = NoValue /\ rd'.madeUp = {}
    OBVIOUS
  <1>3. QED
    BY <1>1, <1>2 DEF ReadInv, GuardInv, ContentInv, Guarding, Unvalued, Valued

LEMMA BeginsKeeps ==
    ASSUME ReadInv, UNCHANGED watch, ReadBegins
    PROVE  ReadInv'
  <1>1. head \in Seq(Contents) /\ head # <<>>
    BY DEF ReadInv, ReadType, Chain
  <1>2. QED
    BY <1>1, PinnedKeeps DEF ReadBegins, NoRead

LEMMA RetriedKeeps ==
    ASSUME ReadInv, UNCHANGED watch, ReadRetried
    PROVE  ReadInv'
  <1>1. rd.pin \in Seq(Contents) /\ rd.pin # <<>> /\ UNCHANGED <<head, path, watch>>
    BY DEF ReadRetried, ReadInv, ReadType
  <1>2. CASE rd' = NoRead
    BY <1>1, <1>2, NoReadKeeps
  <1>3. CASE rd' = [NoRead EXCEPT !.at = "stamp", !.pin = rd.pin]
    BY <1>1, <1>3, PinnedKeeps DEF NoRead
  <1>4. QED
    BY <1>2, <1>3 DEF ReadRetried

\* The checks that a subnet that exists passes the read on to.
LEMMA AfterGuardIs ==
    /\ AfterNeuron \in {"mechanism", "value"}
    /\ path.entity = "neuron" => AfterGuard = "uid"
    /\ path.entity # "neuron" => AfterGuard \in {"mechanism", "value"}
  BY DEF AfterNeuron, AfterGuard

LEMMA TimestampKeeps ==
    ASSUME ReadInv, UNCHANGED watch, TimestampRead
    PROVE  ReadInv'
  <1>0. rd.at = "stamp" /\ UNCHANGED <<head, path, watch>>
    BY DEF TimestampRead, Read
  <1>1. CASE Quit("decode")
    BY <1>0, <1>1, QuitKeeps
  <1>2. CASE rd' = [rd EXCEPT !.time = TimeAt(rd.pin),
                              !.at = IF path.entity = "none" THEN AfterGuard ELSE "guard"]
    <2>1. rd.pin \in Seq(Contents) /\ rd.pin # <<>> /\ TimeAt(rd.pin) \in MaybeInt
      BY <1>0, TimeIsNat DEF ReadInv, ReadType, MaybeInt
    <2>2. rd'.at = (IF path.entity = "none" THEN AfterGuard ELSE "guard")
          /\ rd'.pin = rd.pin /\ rd'.time = TimeAt(rd.pin)
          /\ rd'.activityTime = rd.activityTime /\ rd'.activityEpoch = rd.activityEpoch
          /\ rd'.epoch = rd.epoch /\ rd'.madeUp = rd.madeUp
      BY <1>2 DEF ReadInv, ReadType
    <2>3. rd'.at \in {"guard", "mechanism", "value"} /\ (rd'.at = "guard" <=> path.entity # "none")
      BY <2>2, AfterGuardIs
    <2>4. ReadType'
      BY <1>0, <1>2, <2>1, <2>3, ReadTypeKept DEF ReadInv, ReadType, Places, Guarding, Unvalued
    <2>5. GuardInv'
      BY <1>0, <2>2, <2>3 DEF GuardInv, Guarding, Unvalued, Valued, OnSubnet
    <2>6. ContentInv'
      BY <1>0, <2>2, <2>3 DEF ReadInv, ContentInv, Guarding, Unvalued, Valued
    <2>7. QED
      BY <2>4, <2>5, <2>6 DEF ReadInv
  <1>3. QED
    BY <1>1, <1>2 DEF TimestampRead

-----------------------------------------------------------------------------
(* The checks: a step of a read that leaves what was read as it was. *)

LEMMA CheckKeeps ==
    ASSUME ReadInv, UNCHANGED <<head, path, watch>>, rd.at # "idle",
           rd.activityTime = NoValue /\ rd.activityEpoch = NoValue /\ rd.epoch = NoValue,
           rd.time = TimeAt(rd.pin), rd.madeUp = {},
           NEW place \in Guarding \cup Unvalued, NEW raw \in BOOLEAN \cup {NoValue},
           NEW hits \in Int,
           rd' = [rd EXCEPT !.at = place, !.raw = raw, !.hits = hits]
    PROVE  /\ ReadType' /\ ContentInv'
           /\ rd'.at = place /\ rd'.raw = raw /\ rd'.pin = rd.pin
  <1>1. /\ rd'.at = place /\ rd'.raw = raw /\ rd'.pin = rd.pin /\ rd'.time = rd.time
        /\ rd'.activityTime = rd.activityTime /\ rd'.activityEpoch = rd.activityEpoch
        /\ rd'.epoch = rd.epoch /\ rd'.madeUp = rd.madeUp
    BY DEF ReadInv, ReadType
  <1>2. ReadType'
    <2>1. rd'.at # "idle" /\ place \in Places
      BY <1>1 DEF Guarding, Unvalued, Places
    <2>2. QED
      BY <1>1, <2>1, ReadTypeKept DEF ReadInv, ReadType
  <1>3. ContentInv'
    BY <1>1 DEF ContentInv, Guarding, Unvalued, Valued
  <1>4. QED
    BY <1>1, <1>2, <1>3

LEMMA CheckedSoFar ==
    ASSUME ReadInv, rd.at \in Guarding \cup {"uid", "mechanism"}
    PROVE  /\ rd.at # "idle" /\ rd.time = TimeAt(rd.pin)
           /\ rd.activityTime = NoValue /\ rd.activityEpoch = NoValue /\ rd.epoch = NoValue
           /\ rd.madeUp = {} /\ rd.hits \in Int /\ rd.raw \in BOOLEAN \cup {NoValue}
  BY DEF ReadInv, ReadType, ContentInv, Guarding, Unvalued

\* The subnet is asked about again.
LEMMA AskAgainKeeps ==
    ASSUME ReadInv, UNCHANGED <<head, path, watch>>, rd.at \in Guarding,
           NEW place \in {"canary", "recheck"}, NEW hits \in Int,
           NEW raw \in {FALSE, NoValue},
           rd' = [rd EXCEPT !.at = place, !.raw = raw, !.hits = hits]
    PROVE  ReadInv'
  <1>1. place \in Guarding \cup Unvalued /\ raw \in BOOLEAN \cup {NoValue}
    BY DEF Guarding, Unvalued
  <1>2. /\ ReadType' /\ ContentInv'
        /\ rd'.at = place /\ rd'.raw = raw /\ rd'.pin = rd.pin
    BY <1>1, CheckedSoFar, CheckKeeps
  <1>3. path.entity # "none"
    BY DEF ReadInv, GuardInv
  <1>4. GuardInv'
    BY <1>2, <1>3 DEF GuardInv, Guarding, Unvalued, Valued, OnSubnet
  <1>5. QED
    BY <1>2, <1>4 DEF ReadInv

\* A check is passed.
LEMMA PassKeeps ==
    ASSUME ReadInv, UNCHANGED <<head, path, watch>>,
           rd.at \in Guarding \cup {"uid", "mechanism"}, NEW place \in Unvalued,
           NEW raw \in BOOLEAN \cup {NoValue}, NEW hits \in Int,
           rd' = [rd EXCEPT !.at = place, !.raw = raw, !.hits = hits],
           OnSubnet => Top(rd.pin).subnet,
           place = "uid" => path.entity = "neuron",
           place # "uid" => (path.entity = "neuron" => Top(rd.pin).neuron)
    PROVE  ReadInv'
  <1>1. /\ ReadType' /\ ContentInv'
        /\ rd'.at = place /\ rd'.raw = raw /\ rd'.pin = rd.pin
    BY CheckedSoFar, CheckKeeps
  <1>2. GuardInv'
    BY <1>1 DEF GuardInv, Guarding, Unvalued, Valued, OnSubnet
  <1>3. QED
    BY <1>1, <1>2 DEF ReadInv

LEMMA GoesOnKeeps ==
    ASSUME ReadInv, UNCHANGED <<head, path, watch>>,
           rd.at \in {"uid", "mechanism"}, NEW place \in Unvalued, place # "uid", To(place),
           OnSubnet => Top(rd.pin).subnet,
           path.entity = "neuron" => Top(rd.pin).neuron
    PROVE  ReadInv'
  <1>1. /\ rd' = [rd EXCEPT !.at = place, !.raw = rd.raw, !.hits = rd.hits]
        /\ rd.raw \in BOOLEAN \cup {NoValue} /\ rd.hits \in Int
    BY DEF To, ReadInv, ReadType
  <1>2. QED
    BY <1>1, PassKeeps

\* A subnet is said not to exist after an answer that said so: the truth, or the
\* default that stood in for it.
LEMMA VerdictKeeps ==
    ASSUME WatchAssumption, ReadInv, UNCHANGED <<head, path, watch>>, rd.at \in Guarding,
           NEW raw \in {FALSE, NoValue}, Verdict(raw)
    PROVE  ReadInv'
  <1>1. rd.at # "idle" /\ path.entity # "none"
    BY DEF Guarding, ReadInv, GuardInv
  <1>2. CASE raw = NoValue
    <2>1. Quit("provider")
      BY <1>2 DEF Verdict, Quit
    <2>2. QED
      BY <1>1, <2>1, QuitKeeps
  <1>3. CASE raw = FALSE /\ raw # NoValue
    <2> DEFINE m == IF IsAdded THEN {"entity"} ELSE {}
    <2>1. Quits("no_entity", m)
      BY <1>3 DEF Verdict, Absent
    <2>2. m \in SUBSET Parts
      BY DEF Parts
    <2>3. ~Exists(path, rd.pin) \/ "entity" \in m
      <3>1. path.entity \in {"root", "subnet", "neuron"}
        BY <1>1 DEF ReadInv, ReadType, WatchAssumption, WatchTyped
      <3>2. QED
        BY <3>1 DEF IsAdded, Exists
    <2> HIDE DEF m
    <2>4. QED
      BY <1>1, <2>1, <2>2, <2>3, QuitsKeeps
  <1>4. QED
    BY <1>2, <1>3

LEMMA ReconfirmKeeps ==
    ASSUME WatchAssumption, ReadInv, UNCHANGED <<head, path, watch>>, rd.at \in Guarding,
           NEW raw \in {FALSE, NoValue},
           Reconfirm(raw)
    PROVE  ReadInv'
  <1>1. CASE Verdict(raw)
    BY <1>1, VerdictKeeps
  <1>2. CASE rd' = [rd EXCEPT !.at = "recheck", !.raw = raw, !.hits = @ + 1]
    <2>1. rd.hits + 1 \in Int
      BY CheckedSoFar
    <2>2. rd' = [rd EXCEPT !.at = "recheck", !.raw = raw, !.hits = rd.hits + 1]
      BY <1>2
    <2>3. QED
      BY <2>1, <2>2, AskAgainKeeps
  <1>3. QED
    BY <1>1, <1>2 DEF Reconfirm

\* What NetworksAdded answers.
LEMMA AddedIs ==
    ASSUME WatchAssumption, ReadInv, rd.at \in Guarding, NEW raw \in Added
    PROVE  /\ raw \in BOOLEAN \cup {NoValue}
           /\ raw = TRUE => (OnSubnet => Top(rd.pin).subnet)
  <1>1. Chain(rd.pin)
    BY DEF ReadInv, ReadType, Chain, Guarding
  <1>2. Top(rd.pin).subnet \in BOOLEAN /\ NoValue \notin BOOLEAN
    <2>1. Top(rd.pin) \in Contents
      BY <1>1, TopIsContent DEF Top
    <2>2. QED
      BY <2>1 DEF WatchAssumption
  <1>3. raw = IsAdded \/ raw \in {NoValue, FALSE}
    BY DEF Added, NotAnswered
  <1>4. IsAdded \in BOOLEAN
    BY <1>2 DEF IsAdded
  <1>5. QED
    BY <1>2, <1>3, <1>4 DEF OnSubnet, IsAdded

\* A subnet that is there lets the read go on.
LEMMA AddedKeeps ==
    ASSUME WatchAssumption, ReadInv, UNCHANGED <<head, path, watch>>, rd.at \in Guarding,
           OnSubnet => Top(rd.pin).subnet, Passed
    PROVE  ReadInv'
  <1>1. AfterGuard \in Unvalued /\ (AfterGuard = "uid" <=> path.entity = "neuron")
    BY AfterGuardIs DEF Unvalued
  <1>2. rd' = [rd EXCEPT !.at = AfterGuard, !.raw = NoValue, !.hits = 0]
    BY DEF Passed
  <1>3. /\ NoValue \in BOOLEAN \cup {NoValue} /\ 0 \in Int
        /\ rd.at \in Guarding \cup {"uid", "mechanism"}
    OBVIOUS
  <1>4. AfterGuard # "uid" => (path.entity = "neuron" => Top(rd.pin).neuron)
    BY <1>1
  <1> DEFINE place == AfterGuard
  <1>5. /\ place \in Unvalued /\ rd' = [rd EXCEPT !.at = place, !.raw = NoValue, !.hits = 0]
        /\ place = "uid" => path.entity = "neuron"
        /\ place # "uid" => (path.entity = "neuron" => Top(rd.pin).neuron)
    BY <1>1, <1>2, <1>4
  <1> HIDE DEF place
  <1>6. QED
    BY <1>3, <1>5, PassKeeps

LEMMA SubnetKeeps ==
    ASSUME WatchAssumption, ReadInv, UNCHANGED watch, SubnetRead
    PROVE  ReadInv'
  <1>1. rd.at = "guard" /\ rd.at \in Guarding /\ UNCHANGED <<head, path, watch>>
    BY DEF SubnetRead, Read, Guarding
  <1>2. PICK raw \in Added :
            CASE raw = TRUE -> Passed
              [] raw # TRUE /\ path.entity # "root" ->
                    rd' = [rd EXCEPT !.at = "canary", !.raw = raw]
              [] raw # TRUE /\ path.entity = "root" -> Reconfirm(raw)
    BY DEF SubnetRead
  <1>3. raw \in BOOLEAN \cup {NoValue} /\ (raw = TRUE => (OnSubnet => Top(rd.pin).subnet))
    BY <1>1, AddedIs
  <1>4. CASE raw = TRUE
    BY <1>1, <1>2, <1>3, <1>4, AddedKeeps
  <1>5. CASE raw # TRUE /\ path.entity # "root"
    <2>1. rd' = [rd EXCEPT !.at = "canary", !.raw = raw, !.hits = rd.hits]
      BY <1>2, <1>5 DEF ReadInv, ReadType
    <2>2. rd.hits \in Int
      BY <1>1, CheckedSoFar
    <2>3. QED
      BY <1>1, <1>3, <1>5, <2>1, <2>2, AskAgainKeeps
  <1>6. CASE raw # TRUE /\ path.entity = "root"
    BY <1>1, <1>2, <1>3, <1>6, ReconfirmKeeps
  <1>7. QED
    BY <1>4, <1>5, <1>6

LEMMA CanaryKeeps ==
    ASSUME WatchAssumption, ReadInv, UNCHANGED watch, CanaryRead
    PROVE  ReadInv'
  <1>1. rd.at = "canary" /\ rd.at \in Guarding /\ UNCHANGED <<head, path, watch>>
    BY DEF CanaryRead, Read, Guarding
  <1>2. rd.raw \in {FALSE, NoValue}
    BY <1>1 DEF ReadInv, GuardInv
  <1>3. Verdict(rd.raw) \/ Reconfirm(rd.raw)
    BY DEF CanaryRead
  <1>4. QED
    BY <1>1, <1>2, <1>3, VerdictKeeps, ReconfirmKeeps

LEMMA RereadKeeps ==
    ASSUME WatchAssumption, ReadInv, UNCHANGED watch, SubnetReread
    PROVE  ReadInv'
  <1>1. rd.at \in Guarding /\ UNCHANGED <<head, path, watch>>
    BY DEF SubnetReread, Read, Guarding
  <1>2. PICK raw \in Added : IF raw = TRUE THEN Passed ELSE Reconfirm(raw)
    BY DEF SubnetReread
  <1>3. raw \in BOOLEAN \cup {NoValue} /\ (raw = TRUE => (OnSubnet => Top(rd.pin).subnet))
    BY <1>1, AddedIs
  <1>4. CASE raw = TRUE
    BY <1>1, <1>2, <1>3, <1>4, AddedKeeps
  <1>5. CASE raw # TRUE
    BY <1>1, <1>2, <1>3, <1>5, ReconfirmKeeps
  <1>6. QED
    BY <1>4, <1>5

LEMMA UidKeeps ==
    ASSUME ReadInv, UNCHANGED watch, UidRead
    PROVE  ReadInv'
  <1>1. rd.at = "uid" /\ UNCHANGED <<head, path, watch>> /\ path.entity = "neuron"
        /\ Top(rd.pin).subnet
    BY DEF UidRead, Read, ReadInv, GuardInv, Unvalued, OnSubnet
  <1>2. CASE Top(rd.pin).neuron /\ To(AfterNeuron)
    <2>1. AfterNeuron \in Unvalued /\ AfterNeuron # "uid"
      BY AfterGuardIs DEF Unvalued
    <2>2. QED
      BY <1>1, <1>2, <2>1, GoesOnKeeps
  <1>3. CASE ~Top(rd.pin).neuron /\ Quit("no_entity")
    <2>1. ~Exists(path, rd.pin)
      BY <1>1, <1>3 DEF Exists
    <2>2. QED
      BY <1>1, <1>3, <2>1, QuitKeeps
  <1>4. CASE Quits("no_entity", {"entity"})
    <2>1. {"entity"} \in SUBSET Parts
      BY DEF Parts
    <2>2. QED
      BY <1>1, <1>4, <2>1, QuitsKeeps
  <1>5. QED
    BY <1>2, <1>3, <1>4 DEF UidRead

LEMMA MechanismKeeps ==
    ASSUME ReadInv, UNCHANGED watch, MechanismRead
    PROVE  ReadInv'
  <1>1. rd.at = "mechanism" /\ UNCHANGED <<head, path, watch>>
    BY DEF MechanismRead, Read
  <1>2. CASE To("value")
    <2>1. /\ OnSubnet => Top(rd.pin).subnet
          /\ path.entity = "neuron" => Top(rd.pin).neuron
      BY <1>1 DEF ReadInv, GuardInv, Unvalued
    <2>2. "value" \in Unvalued
      BY DEF Unvalued
    <2>3. QED
      BY <1>1, <1>2, <2>1, <2>2, GoesOnKeeps
  <1>3. CASE Quit("decode")
    BY <1>1, <1>3, QuitKeeps
  <1>4. QED
    BY <1>2, <1>3 DEF MechanismRead

-----------------------------------------------------------------------------
(* The value, what belongs to it, and the steps around a read. *)

\* A read that has its value keeps what the checks have found out.
LEMMA GuardHeld ==
    ASSUME ReadInv, UNCHANGED <<head, path, watch>>, rd.at \in {"value"} \cup Valued,
           rd'.pin = rd.pin, rd'.at \in Valued
    PROVE  GuardInv'
  BY DEF ReadInv, GuardInv, Guarding, Unvalued, Valued, OnSubnet

\* A query may miss or not.
LEMMA MissesOrNot ==
    ASSUME NEW query, NEW missing \in MayMiss(query)
    PROVE  missing \in BOOLEAN
  BY DEF MayMiss

LEMMA ValueKeeps ==
    ASSUME WatchAssumption, ReadInv, UNCHANGED watch, ValueRead
    PROVE  ReadInv'
  <1>1. rd.at = "value" /\ UNCHANGED <<head, path, watch>>
    BY DEF ValueRead, Read
  <1>2. PICK missing \in MayMiss("Value") :
            rd' = [rd EXCEPT !.value = Coerced(missing), !.madeUp = MadeUpIf(missing, "value"),
                             !.at = AfterValue(Coerced(missing))]
    BY DEF ValueRead
  <1> DEFINE v == Coerced(missing)
             m == MadeUpIf(missing, "value")
  <1>3. /\ rd.time = TimeAt(rd.pin) /\ rd.epoch = NoValue /\ rd.madeUp = {}
        /\ rd.activityTime = NoValue /\ rd.activityEpoch = NoValue
    BY <1>1 DEF ReadInv, ContentInv, Guarding, Unvalued
  <1>4. m = (IF missing THEN {"value"} ELSE {}) /\ m \in SUBSET Parts
    BY <1>3 DEF MadeUpIf, Parts
  <1>5. v = IF "value" \in m THEN 0 ELSE ValueAt(path, rd.pin)
    BY <1>4 DEF Coerced
  <1>6. v \in Int
    BY <1>1, <1>5, ValueIsInt DEF ReadInv, ReadType, Chain
  <1> HIDE DEF v, m
  <1>7. /\ AfterValue(v) \in {"lookup", "epoch", "done"}
        /\ AfterValue(v) = "lookup" <=> NeedsContext(v)
        /\ AfterValue(v) = "epoch" => path.epochs
        /\ AfterValue(v) = "done" => ~path.epochs
    BY DEF AfterValue
  <1>8. rd' = [rd EXCEPT !.value = v, !.madeUp = m, !.at = AfterValue(v)]
    BY <1>2 DEF v, m
  <1>9. /\ rd'.at = AfterValue(v) /\ rd'.pin = rd.pin /\ rd'.value = v /\ rd'.time = rd.time
        /\ rd'.activityTime = rd.activityTime /\ rd'.activityEpoch = rd.activityEpoch
        /\ rd'.epoch = rd.epoch /\ rd'.named = rd.named /\ rd'.madeUp = m
    BY <1>8 DEF ReadInv, ReadType
  <1>10. ReadType'
    <2>1. rd.pin # <<>> /\ v \in MaybeInt /\ AfterValue(v) \in Places
      BY <1>1, <1>6, <1>7 DEF ReadInv, ReadType, MaybeInt, Places, Valued
    <2>2. QED
      BY <1>1, <1>4, <1>8, <1>9, <2>1, ReadTypeKept DEF ReadInv, ReadType
  <1>11. GuardInv'
    BY <1>1, <1>7, <1>9, GuardHeld DEF Valued
  <1>12. ContentInv'
    <2>1. path' = path /\ m \subseteq {"value"}
      BY <1>1, <1>4
    <2>2. rd'.value = Told("value", ValueAt(path, rd.pin))'
      BY <1>5, <1>9, <2>1 DEF Told
    <2>3. NeedsContext(rd.value)' <=> NeedsContext(v)
      BY <1>9, <2>1 DEF NeedsContext
    <2>4. ~NeedsContext(v) => Context'
      BY <1>3, <1>9, <2>3 DEF Context
    <2>5. "epoch" \notin m
      BY <2>1
    <2>6. rd'.at = "done" => rd'.epoch = NoValue /\ ~path'.epochs
      BY <1>3, <1>7, <1>9, <2>1
    <2>7. QED
      BY <1>3, <1>7, <1>9, <2>1, <2>2, <2>3, <2>4, <2>5, <2>6
      DEF ContentInv, Guarding, Unvalued, Valued
  <1>13. QED
    BY <1>10, <1>11, <1>12 DEF ReadInv

LEMMA LookupKeeps ==
    ASSUME WatchAssumption, ReadInv, UNCHANGED watch, ActivityLookup
    PROVE  ReadInv'
  <1>1. rd.at = "lookup" /\ rd.at \in Valued /\ UNCHANGED <<head, path, watch>>
    BY DEF ActivityLookup, Read, Valued
  <1>2. CASE rd' = [rd EXCEPT !.named = Ancestor(head, rd.value), !.at = "activity"]
             /\ rd.value <= Number(head)
    <2>1. Ancestor(head, rd.value) \in Seq(Contents) /\ Number(Ancestor(head, rd.value)) = rd.value
      <3>1. NeedsContext(rd.value) /\ head \in Seq(Contents)
        BY <1>1 DEF ReadInv, ReadType, ContentInv, Chain
      <3>2. rd.value \in Int
        BY <1>1, ValueTyped
      <3>3. rd.value \in 0..Len(head)
        BY <1>2, <3>1, <3>2 DEF NeedsContext, Number
      <3>4. QED
        BY <3>1, <3>3, PrefixOfChain DEF Number
    <2>2. /\ rd'.at = "activity" /\ rd'.pin = rd.pin /\ rd'.value = rd.value
          /\ rd'.time = rd.time /\ rd'.epoch = rd.epoch /\ rd'.named = Ancestor(head, rd.value)
          /\ rd'.madeUp = rd.madeUp
      BY <1>2 DEF ReadInv, ReadType
    <2>3. ReadType'
      <3>1. rd.pin # <<>> /\ "activity" \in Places
        BY <1>1 DEF ReadInv, ReadType, Places, Valued
      <3>2. QED
        BY <1>1, <1>2, <2>1, <2>2, <3>1, ReadTypeKept DEF ReadInv, ReadType
    <2>4. GuardInv'
      BY <1>1, <2>2, GuardHeld DEF Valued
    <2>5. ContentInv'
      BY <1>1, <2>1, <2>2
      DEF ReadInv, ContentInv, NeedsContext, Told, Guarding, Unvalued, Valued
    <2>6. QED
      BY <2>3, <2>4, <2>5 DEF ReadInv
  <1>3. CASE Quit("decode")
    BY <1>1, <1>3, QuitKeeps
  <1>4. QED
    BY <1>2, <1>3 DEF ActivityLookup

LEMMA ActivityKeeps ==
    ASSUME ReadInv, UNCHANGED watch, ActivityRead
    PROVE  ReadInv'
  <1>1. rd.at = "activity" /\ UNCHANGED <<head, path, watch>>
    BY DEF ActivityRead, Read
  <1>2. CASE Quit("decode")
    BY <1>1, <1>2, QuitKeeps
  <1>3. CASE ~Quit("decode")
    <2> DEFINE epochal == path.epochs /\ path.unit # "time"
    <2>1. PICK missing \in IF epochal THEN MayMiss("Epoch") ELSE {FALSE} :
              rd' = [rd EXCEPT !.activityTime = TimeAt(rd.named),
                        !.activityEpoch = IF epochal THEN EpochOf(rd.named, missing)
                                                     ELSE NoValue,
                        !.madeUp = MadeUpIf(missing, "activityEpoch"),
                        !.at = IF path.epochs THEN "epoch" ELSE "done"]
      BY <1>3 DEF ActivityRead
    <2> DEFINE m == MadeUpIf(missing, "activityEpoch")
               e == IF epochal THEN EpochOf(rd.named, missing) ELSE NoValue
               place == IF path.epochs THEN "epoch" ELSE "done"
    <2>2. /\ rd.named \in Seq(Contents) /\ rd.pin # <<>> /\ NeedsContext(rd.value)
          /\ rd.value = Told("value", ValueAt(path, rd.pin)) /\ rd.epoch = NoValue
          /\ rd.madeUp \subseteq {"value"} /\ rd.time = TimeAt(rd.pin)
          /\ Number(rd.named) = rd.value
      BY <1>1 DEF ReadInv, ReadType, ContentInv, Valued
    <2>3. /\ m \in SUBSET Parts /\ "epoch" \notin m
          /\ "value" \in m <=> "value" \in rd.madeUp
          /\ "activityEpoch" \in m <=> missing
      BY <2>2 DEF MadeUpIf, Parts
    <2>4. e = IF epochal THEN IF "activityEpoch" \in m THEN 0 ELSE EpochAt(rd.named) ELSE NoValue
      BY <2>3 DEF EpochOf
    <2> HIDE DEF m, e
    <2>5. TimeAt(rd.named) \in MaybeInt /\ e \in MaybeInt
      BY <2>2, <2>4, TimeIsNat DEF MaybeInt
    <2>6. place \in {"epoch", "done"} /\ place \in Places /\ (place = "epoch" <=> path.epochs)
      BY DEF Places, Valued
    <2>7. rd' = [rd EXCEPT !.activityTime = TimeAt(rd.named), !.activityEpoch = e,
                           !.madeUp = m, !.at = place]
      BY <2>1 DEF m, e
    <2> HIDE DEF place
    <2>8. /\ rd'.at = place /\ rd'.pin = rd.pin /\ rd'.value = rd.value /\ rd'.time = rd.time
          /\ rd'.epoch = rd.epoch /\ rd'.named = rd.named /\ rd'.madeUp = m
          /\ rd'.activityTime = TimeAt(rd.named) /\ rd'.activityEpoch = e
      BY <2>7 DEF ReadInv, ReadType
    <2>9. ReadType'
      BY <1>1, <2>2, <2>3, <2>5, <2>6, <2>7, <2>8, ReadTypeKept DEF ReadInv, ReadType
    <2>10. GuardInv'
      BY <1>1, <2>6, <2>8, GuardHeld DEF Valued
    <2>11. ContentInv'
      <3>1. path' = path
        BY <1>1
      <3>2. NeedsContext(rd.value)'
        BY <2>2, <2>8, <3>1 DEF NeedsContext
      <3>3. e = IF path.epochs /\ path.unit # "time"
                THEN IF "activityEpoch" \in m THEN 0 ELSE EpochAt(rd.named) ELSE NoValue
        BY <2>4
      <3>4. Context'
        BY <2>2, <2>8, <3>1, <3>2, <3>3 DEF Context, Told
      <3>5. rd'.value = Told("value", ValueAt(path, rd.pin))'
        BY <2>2, <2>3, <2>8, <3>1 DEF Told
      <3>6. QED
        BY <2>2, <2>3, <2>6, <2>8, <3>1, <3>4, <3>5 DEF ContentInv, Guarding, Unvalued, Valued
    <2>12. QED
      BY <2>9, <2>10, <2>11 DEF ReadInv
  <1>4. QED
    BY <1>2, <1>3

LEMMA EpochKeeps ==
    ASSUME ReadInv, UNCHANGED watch, EpochRead
    PROVE  ReadInv'
  <1>1. rd.at = "epoch" /\ UNCHANGED <<head, path, watch>>
    BY DEF EpochRead, Read
  <1>2. PICK missing \in MayMiss("Epoch") :
            rd' = [rd EXCEPT !.epoch = EpochOf(rd.pin, missing),
                             !.madeUp = MadeUpIf(missing, "epoch"), !.at = "done"]
    BY DEF EpochRead
  <1> DEFINE m == MadeUpIf(missing, "epoch")
             e == EpochOf(rd.pin, missing)
  <1>3. /\ rd.pin \in Seq(Contents) /\ rd.pin # <<>> /\ rd.madeUp \in SUBSET Parts
        /\ "done" \in Places
    BY <1>1 DEF ReadInv, ReadType, Places, Valued
  <1>4. /\ rd.time = TimeAt(rd.pin) /\ path.epochs /\ Context /\ "epoch" \notin rd.madeUp
        /\ rd.value = Told("value", ValueAt(path, rd.pin))
    BY <1>1 DEF ReadInv, ContentInv, Valued
  <1>5. /\ m \in SUBSET Parts
        /\ "value" \in m <=> "value" \in rd.madeUp
        /\ "activityEpoch" \in m <=> "activityEpoch" \in rd.madeUp
        /\ "epoch" \in m <=> missing
    BY <1>3, <1>4 DEF MadeUpIf, Parts
  <1>6. e = IF "epoch" \in m THEN 0 ELSE EpochAt(rd.pin)
    BY <1>5 DEF EpochOf
  <1> HIDE DEF m, e
  <1>7. e \in MaybeInt
    BY <1>3, <1>6, TimeIsNat DEF MaybeInt
  <1>8. rd' = [rd EXCEPT !.epoch = e, !.madeUp = m, !.at = "done"]
    BY <1>2 DEF m, e
  <1>9. /\ rd'.at = "done" /\ rd'.pin = rd.pin /\ rd'.value = rd.value /\ rd'.time = rd.time
        /\ rd'.epoch = e /\ rd'.named = rd.named /\ rd'.madeUp = m
        /\ rd'.activityTime = rd.activityTime /\ rd'.activityEpoch = rd.activityEpoch
    BY <1>8 DEF ReadInv, ReadType
  <1>10. ReadType'
    BY <1>1, <1>3, <1>5, <1>7, <1>8, <1>9, ReadTypeKept DEF ReadInv, ReadType
  <1>11. GuardInv'
    BY <1>1, <1>9, GuardHeld DEF Valued
  <1>12. ContentInv'
    <2>1. path' = path
      BY <1>1
    <2>2. Context'
      BY <1>4, <1>5, <1>9, <2>1 DEF Context, NeedsContext, Told
    <2>3. rd'.value = Told("value", ValueAt(path, rd.pin))'
      BY <1>4, <1>5, <1>9, <2>1 DEF Told
    <2>4. rd'.epoch = Told("epoch", EpochAt(rd.pin))'
      BY <1>6, <1>9 DEF Told
    <2>5. QED
      BY <1>4, <1>9, <2>1, <2>2, <2>3, <2>4 DEF ContentInv, Guarding, Unvalued, Valued
  <1>13. QED
    BY <1>10, <1>11, <1>12 DEF ReadInv

\* The read that is under way does not depend on the head.
LEMMA ReadInvSame ==
    ASSUME ReadInv, UNCHANGED <<path, rd, watch>>, Chain(head')
    PROVE  ReadInv'
  <1>1. ReadType'
    BY DEF ReadInv, ReadType
  <1>2. GuardInv'
    BY DEF ReadInv, GuardInv, OnSubnet
  <1>3. Context' <=> Context
    BY DEF Context, NeedsContext, Told
  <1>4. ContentInv'
    BY <1>3 DEF ReadInv, ContentInv, NeedsContext, Told
  <1>5. QED
    BY <1>1, <1>2, <1>4 DEF ReadInv

LEMMA NewBlockKeeps ==
    ASSUME WatchAssumption, ReadInv, UNCHANGED watch, NEW depth \in Nat, NewBlock(depth)
    PROVE  ReadInv'
  <1>1. PICK c \in Contents : head' = Append(Ancestor(head, Number(head) - depth), c)
    BY DEF NewBlock
  <1>2. Number(head) - depth \in 1..(MaxHeight - 1) /\ UNCHANGED <<path, rd, watch>>
    BY DEF NewBlock
  <1>3. head \in Seq(Contents) /\ Len(head) \in Nat
    BY DEF ReadInv, ReadType, Chain
  <1>4. Number(head) - depth \in 0..Len(head)
    BY <1>2, <1>3 DEF Number
  <1>5. Ancestor(head, Number(head) - depth) \in Seq(Contents)
    BY <1>3, <1>4, PrefixOfChain
  <1>6. Chain(head')
    BY <1>1, <1>5 DEF Chain
  <1>7. QED
    BY <1>2, <1>6, ReadInvSame

LEMMA ReadStepKeeps ==
    ASSUME WatchAssumption, ReadInv, ReadStep, UNCHANGED watch
    PROVE  ReadInv'
  <1>1. CASE QueryFails
    <2>1. rd.at # "idle" /\ Quit("provider") /\ UNCHANGED <<head, path, watch>>
      BY <1>1 DEF QueryFails
    <2>2. QED
      BY <2>1, QuitKeeps
  <1>2. CASE ReadRetried
    BY <1>2, RetriedKeeps
  <1>3. QED
    BY <1>1, <1>2, BeginsKeeps, TimestampKeeps, SubnetKeeps, CanaryKeeps, RereadKeeps,
       UidKeeps, MechanismKeeps, ValueKeeps, LookupKeeps, ActivityKeeps, EpochKeeps
    DEF ReadStep

LEMMA ReadInvStep ==
    ASSUME WatchAssumption, ReadInv, [Next]_watchVars
    PROVE  ReadInv'
  <1>1. CASE ReadStep /\ Unwatched
    BY <1>1, ReadStepKeeps DEF Unwatched
  <1>2. CASE \E depth \in 0..MaxDepth : NewBlock(depth) /\ Unwatched
    <2>1. PICK depth \in 0..MaxDepth : NewBlock(depth) /\ Unwatched
      BY <1>2
    <2>2. depth \in Nat
      OBVIOUS
    <2>3. QED
      BY <2>1, <2>2, NewBlockKeeps DEF Unwatched
  <1>3. CASE Evaluate
    BY <1>3, NoReadKeeps DEF Evaluate
  <1>4. CASE UNCHANGED watchVars
    <2>1. UNCHANGED <<path, rd, watch>> /\ Chain(head')
      BY <1>4 DEF watchVars, readVars, ReadInv, ReadType, Chain
    <2>2. QED
      BY <2>1, ReadInvSame
  <1>5. QED
    BY <1>1, <1>2, <1>3, <1>4 DEF Next

LEMMA ReadInvImplies == WatchAssumption /\ ReadInv => ReadIsTrue
  <1> SUFFICES ASSUME WatchAssumption, ReadInv
               PROVE  ReadIsTrue
    OBVIOUS
  <1>1. rd.at = "failed" /\ rd.error = "no_entity" =>
            ~Exists(path, rd.pin) \/ "entity" \in rd.madeUp
    BY DEF ReadInv, GuardInv
  <1>2. ASSUME rd.at = "done"
        PROVE  /\ Exists(path, rd.pin)
               /\ rd.time = TimeAt(rd.pin)
               /\ rd.value = Told("value", ValueAt(path, rd.pin))
               /\ path.epochs => rd.epoch = Told("epoch", EpochAt(rd.pin))
               /\ rd.activityTime # NoValue =>
                      Number(rd.named) = rd.value /\ rd.activityTime = TimeAt(rd.named)
               /\ rd.activityEpoch # NoValue =>
                      rd.activityEpoch = Told("activityEpoch", EpochAt(rd.named))
    <2>1. Exists(path, rd.pin)
      BY <1>2 DEF ReadInv, GuardInv, Unvalued, Valued, Exists, OnSubnet
    <2>2. /\ rd.time = TimeAt(rd.pin)
          /\ rd.value = Told("value", ValueAt(path, rd.pin))
          /\ path.epochs => rd.epoch = Told("epoch", EpochAt(rd.pin))
          /\ Context
      BY <1>2 DEF ReadInv, ContentInv, Valued
    <2>3. QED
      BY <2>1, <2>2 DEF Context
  <1>3. QED
    BY <1>1, <1>2 DEF ReadIsTrue

LEMMA ReadInvAlways ==
    ASSUME WatchAssumption
    PROVE  Spec => []ReadInv
  <1>1. Init => ReadInv
    BY ReadInvInit
  <1>2. ReadInv /\ [Next]_watchVars => ReadInv'
    BY ReadInvStep
  <1>3. QED
    BY <1>1, <1>2, PTL DEF Spec

\* Whatever moves between two RPCs of a read, however often the node has to be
\* asked again, and whichever queries complete without their result: a read that
\* says that a subnet or a neuron does not exist speaks of one that did not exist
\* at the pinned block, or took a missing answer for absence; a completed read is
\* about an entity that exists, and everything in it is of the block that it is
\* said to be of, or is the zero that stands for what was missing.
THEOREM ReadsAreTrue ==
    ASSUME WatchAssumption
    PROVE  Spec => []ReadIsTrue
  <1>1. ReadInv => ReadIsTrue
    BY ReadInvImplies
  <1>2. QED
    BY <1>1, ReadInvAlways, PTL

-----------------------------------------------------------------------------
(* What was observed, of a watch w: sq is a history of observations. *)

IsLiveness(w) == w \in Watches /\ w.primitive = "liveness"

LEMMA LivenessTyped ==
    ASSUME WatchAssumption, NEW w, IsLiveness(w)
    PROVE  /\ w.unit \in {"time", "blocks", "epochs"} /\ w.size \in Nat
           /\ w.path.marker /\ w.path.unit = w.unit
           /\ w.path.epochs = (w.unit = "epochs")
  BY DEF IsLiveness, WatchAssumption, WatchTyped

Observations == [kind : {"number"}, value : Int, pulse : {FALSE}, block : Nat, time : Nat,
                 epoch : MaybeInt, activityTime : MaybeInt, activityEpoch : MaybeInt]

\* What an observation of a marker tells of the activity.
ActivityTold(w, s) ==
    IF s.value > 0 /\ w.path.unit # "blocks"
    THEN s.activityTime \in Int /\ (w.path.unit = "epochs" => s.activityEpoch \in Int)
    ELSE s.activityEpoch = NoValue

Observed(w, s) ==
    /\ s \in Observations
    /\ w.path.epochs => s.epoch \in Int
    /\ w.primitive = "liveness" => s.value \in Nat /\ ActivityTold(w, s)

History(w, sq) == /\ sq \in Seq(Observations)
                  /\ \A i \in 1..Len(sq) : Observed(w, sq[i])

LEMMA HistoryGrows ==
    ASSUME NEW w, NEW sq, History(w, sq), NEW s, Observed(w, s)
    PROVE  /\ History(w, Append(sq, s))
           /\ Len(Append(sq, s)) = Len(sq) + 1 /\ Len(sq) \in Nat
           /\ \A i \in 1..Len(sq) : Append(sq, s)[i] = sq[i]
           /\ Append(sq, s)[Len(sq) + 1] = s
  <1>1. sq \in Seq(Observations) /\ s \in Observations
    BY DEF History, Observed
  <1>2. /\ Append(sq, s) \in Seq(Observations)
        /\ Len(Append(sq, s)) = Len(sq) + 1 /\ Len(sq) \in Nat
        /\ \A i \in 1..Len(sq) : Append(sq, s)[i] = sq[i]
        /\ Append(sq, s)[Len(sq) + 1] = s
    BY <1>1
  <1>3. ASSUME NEW i \in 1..(Len(sq) + 1)
        PROVE  Observed(w, Append(sq, s)[i])
    <2>1. i \in 1..Len(sq) \/ i = Len(sq) + 1
      BY <1>2
    <2>2. QED
      BY <1>2, <2>1 DEF History
  <1>4. QED
    BY <1>2, <1>3 DEF History

\* What the runtime feeds to the primitive is an observation of that kind.
LEMMA ObservationIs ==
    ASSUME WatchAssumption, ReadInv, rd.at = "done"
    PROVE  Observed(watch, Observation)
  <1>1. /\ rd.pin \in Seq(Contents) /\ Chain(rd.pin) /\ path = watch.path
        /\ rd.value \in Int /\ rd.epoch \in MaybeInt
        /\ rd.activityTime \in MaybeInt /\ rd.activityEpoch \in MaybeInt
    BY ValueTyped DEF ReadInv, ReadType, Chain, Valued
  <1>2. /\ rd.time = TimeAt(rd.pin) /\ Context
        /\ rd.epoch = (IF path.epochs THEN Told("epoch", EpochAt(rd.pin)) ELSE NoValue)
        /\ rd.value = Told("value", ValueAt(path, rd.pin))
    BY DEF ReadInv, ContentInv, Valued
  <1>3. Number(rd.pin) \in Nat /\ TimeAt(rd.pin) \in Nat /\ EpochAt(rd.pin) \in Nat
    BY <1>1, TimeIsNat
  <1>4. /\ Observation.value = rd.value /\ Observation.epoch = rd.epoch
        /\ Observation.activityTime = rd.activityTime
        /\ Observation.activityEpoch = rd.activityEpoch
        /\ Observation \in Observations
    BY <1>1, <1>2, <1>3 DEF Observation, Observations
  <1>5. path.epochs => rd.epoch \in Int
    BY <1>2, <1>3 DEF Told
  <1>6. ASSUME watch.primitive = "liveness"
        PROVE  rd.value \in Nat /\ ActivityTold(watch, Observation)
    <2>0. path.marker /\ path.unit = watch.unit /\ path.epochs = (watch.unit = "epochs")
      BY <1>1, <1>6, LivenessTyped DEF ReadInv, ReadType, IsLiveness
    <2>1. rd.value \in Nat
      <3>1. MarkerAt(rd.pin) \in Nat
        BY <1>1, MarkerInChain
      <3>2. QED
        BY <1>2, <2>0, <3>1 DEF Told, ValueAt
    <2>2. CASE rd.value > 0 /\ path.unit # "blocks"
      <3>1. /\ rd.activityTime = TimeAt(rd.named) /\ rd.named \in Seq(Contents)
            /\ rd.activityEpoch = IF path.epochs /\ path.unit # "time"
                                  THEN Told("activityEpoch", EpochAt(rd.named)) ELSE NoValue
        BY <1>2, <2>0, <2>2 DEF Context, NeedsContext
      <3>2. TimeAt(rd.named) \in Nat /\ EpochAt(rd.named) \in Nat
        BY <3>1, TimeIsNat
      <3>3. QED
        <4>1. /\ Observation.activityTime \in Int
              /\ path.unit = "epochs" => Observation.activityEpoch \in Int
          <5>1. path.unit = "epochs" => path.epochs
            BY <2>0
          <5>2. TimeAt(rd.named) \in Int /\ Told("activityEpoch", EpochAt(rd.named)) \in Int
            BY <3>2 DEF Told
          <5>3. rd.activityTime \in Int /\ (path.unit = "epochs" => rd.activityEpoch \in Int)
            BY <3>1, <5>1, <5>2
          <5>4. QED
            BY <1>4, <5>3, Zenon
        <4>2. QED
          BY <1>1, <1>4, <2>2, <4>1 DEF ActivityTold
    <2>3. CASE ~(rd.value > 0 /\ path.unit # "blocks")
      <3>1. rd.activityEpoch = NoValue
        BY <1>2, <2>3 DEF Context, NeedsContext
      <3>2. Observation.activityEpoch = NoValue
        BY <1>4, <3>1, Zenon
      <3>3. ~(Observation.value > 0 /\ watch.path.unit # "blocks")
        <4>1. Observation.value = rd.value /\ watch.path = path
          BY <1>1, <1>4, Zenon
        <4>2. QED
          BY <2>3, <4>1
      <3>4. ASSUME NEW s, s.activityEpoch = NoValue, ~(s.value > 0 /\ watch.path.unit # "blocks")
            PROVE  ActivityTold(watch, s)
        BY <3>4 DEF ActivityTold
      <3>5. QED
        BY <2>1, <3>2, <3>3, <3>4, Zenon
    <2>4. QED
      BY <2>1, <2>2, <2>3
  <1>7. QED
    BY <1>1, <1>4, <1>5, <1>6 DEF Observed

-----------------------------------------------------------------------------
(* The rolling window of a delta. *)

CoordinateOf(w, o) == CASE w.unit = "time" -> o.time
                        [] w.unit = "blocks" -> o.block
                        [] w.unit = "epochs" -> o.epoch
InsideOf(w, sq, i) == \A j \in i..Len(sq) :
                        CoordinateOf(w, sq[i]) >= CoordinateOf(w, sq[j]) - w.size
KeptOf(w, sq) == {i \in 1..Len(sq) : IF w.unit = "ever" THEN i \in {1, Len(sq)}
                                                        ELSE InsideOf(w, sq, i)}
TickAt(sq, i) == Tick(sq[i], i)
TicksOf(w, sq) == {TickAt(sq, i) : i \in KeptOf(w, sq)}
BaselineOf(w, sq) == IF w.unit = "ever" THEN 1
                     ELSE CHOOSE i \in 1..Len(sq) :
                            InsideOf(w, sq, i) /\ \A j \in 1..(i - 1) : ~InsideOf(w, sq, j)

IsDelta(w) == w \in Watches /\ w.primitive = "delta"

LEMMA CoordinateIsInt ==
    ASSUME NEW w, w.unit \in {"time", "blocks", "epochs"}, w.path.epochs = (w.unit = "epochs"),
           NEW s, Observed(w, s)
    PROVE  CoordinateOf(w, s) \in Int
  <1>1. s.time \in Nat /\ s.block \in Nat
    BY DEF Observed, Observations
  <1>2. w.unit = "epochs" => s.epoch \in Int
    BY DEF Observed
  <1>3. QED
    BY <1>1, <1>2 DEF CoordinateOf

\* A tick keeps the position of its block.
LEMMA PositionIs ==
    ASSUME WatchAssumption, NEW w, IsDelta(w), NEW s, NEW n, w.unit # "ever"
    PROVE  Position(w.unit, Tick(s, n)) = CoordinateOf(w, s)
  <1>1. w.unit \in {"time", "blocks", "epochs"}
    BY DEF IsDelta, WatchAssumption, WatchTyped
  <1>2. QED
    BY <1>1 DEF Position, Tick, CoordinateOf

LEMMA TickFields ==
    ASSUME NEW sq, NEW i
    PROVE  TickAt(sq, i).arrival = i /\ TickAt(sq, i).value = sq[i].value
  BY DEF TickAt, Tick

\* The newest observation is in its window.
LEMMA NewestIsKept ==
    ASSUME WatchAssumption, NEW w, IsDelta(w), NEW sq, History(w, sq), Len(sq) > 0
    PROVE  Len(sq) \in KeptOf(w, sq) /\ KeptOf(w, sq) \subseteq 1..Len(sq)
  <1>1. Len(sq) \in Nat \ {0} /\ Observed(w, sq[Len(sq)])
    BY DEF History
  <1>2. CASE w.unit = "ever"
    BY <1>1, <1>2 DEF KeptOf
  <1>3. CASE w.unit # "ever"
    <2>1. /\ w.unit \in {"time", "blocks", "epochs"} /\ w.size \in Nat
          /\ w.path.epochs = (w.unit = "epochs")
      BY <1>3 DEF IsDelta, WatchAssumption, WatchTyped
    <2>2. CoordinateOf(w, sq[Len(sq)]) \in Int
      BY <1>1, <2>1, CoordinateIsInt
    <2>3. InsideOf(w, sq, Len(sq))
      <3>1. \A j \in Len(sq)..Len(sq) : j = Len(sq)
        BY <1>1
      <3>2. QED
        BY <2>1, <2>2, <3>1 DEF InsideOf
    <2>4. QED
      BY <1>1, <1>3, <2>3 DEF KeptOf
  <1>4. QED
    BY <1>2, <1>3

LEMMA TicksAreFinite ==
    ASSUME NEW w, NEW sq, Len(sq) \in Nat
    PROVE  IsFiniteSet(TicksOf(w, sq))
  <1> DEFINE K == KeptOf(w, sq)
             T == TicksOf(w, sq)
             f == [i \in K |-> TickAt(sq, i)]
  <1>1. K \in SUBSET (1..Len(sq))
    BY DEF KeptOf
  <1>2. IsFiniteSet(K)
    BY <1>1, PartIsFinite
  <1>3. f \in [K -> T] /\ \A t \in T : \E i \in K : f[i] = t
    BY DEF TicksOf
  <1>4. f \in Surjection(K, T)
    BY <1>3 DEF Surjection
  <1> HIDE DEF f, K, T
  <1>5. QED
    BY <1>2, <1>4, FS_Surjection DEF T

\* Fewer than two ticks are kept if and only if the newest is the only one.
LEMMA FewTicks ==
    ASSUME NEW w, NEW sq, Len(sq) \in Nat, Len(sq) \in KeptOf(w, sq)
    PROVE  Cardinality(TicksOf(w, sq)) < 2 <=> KeptOf(w, sq) = {Len(sq)}
  <1> DEFINE T == TicksOf(w, sq)
             n == Len(sq)
  <1>1. IsFiniteSet(T) /\ Cardinality(T) \in Nat
    BY TicksAreFinite, FS_CardinalityType
  <1>2. CASE KeptOf(w, sq) = {n}
    <2>1. T = {TickAt(sq, n)}
      BY <1>2 DEF TicksOf
    <2>2. Cardinality(T) = 1
      BY <2>1, FS_Singleton
    <2>3. QED
      BY <1>2, <2>2
  <1>3. CASE KeptOf(w, sq) # {n}
    <2>1. PICK i \in KeptOf(w, sq) : i # n
      BY <1>3
    <2> DEFINE a == TickAt(sq, i)
               b == TickAt(sq, n)
    <2>2. a # b
      BY <2>1, TickFields
    <2>3. {a} \cup {b} \in SUBSET T
      BY DEF TicksOf
    <2> HIDE DEF a, b, T
    <2>4. Cardinality({a} \cup {b}) = 2
      <3>1. IsFiniteSet({a}) /\ Cardinality({a}) = 1
        BY FS_Singleton
      <3>2. Cardinality({a} \cup {b}) = IF b \in {a} THEN Cardinality({a})
                                                       ELSE Cardinality({a}) + 1
        BY <3>1, FS_AddElement
      <3> DEFINE one == Cardinality({a})
                 two == Cardinality({a} \cup {b})
      <3>3. one = 1 /\ two = one + 1
        BY <2>2, <3>1, <3>2, Zenon
      <3> HIDE DEF one, two
      <3>4. two = 2
        BY <3>3
      <3>5. QED
        BY <3>4 DEF two
    <2>5. Cardinality({a} \cup {b}) <= Cardinality(T)
      BY <1>1, <2>3, FS_Subset
    <2> DEFINE few == Cardinality(T)
    <2>6. few \in Nat /\ 2 <= few
      BY <1>1, <2>4, <2>5
    <2> HIDE DEF few
    <2>7. ~(few < 2)
      BY <2>6
    <2>8. QED
      BY <1>3, <2>7 DEF few, T
  <1>4. QED
    BY <1>2, <1>3

\* The baseline is the earliest observation that is kept.
LEMMA BaselineIsLeast ==
    ASSUME NEW w, NEW sq, Len(sq) \in Nat, Len(sq) \in KeptOf(w, sq)
    PROVE  /\ BaselineOf(w, sq) \in KeptOf(w, sq)
           /\ \A i \in KeptOf(w, sq) : BaselineOf(w, sq) <= i
  <1>1. KeptOf(w, sq) \in SUBSET (1..Len(sq)) /\ Len(sq) \in 1..Len(sq)
    BY DEF KeptOf
  <1>2. CASE w.unit = "ever"
    BY <1>1, <1>2 DEF KeptOf, BaselineOf
  <1>3. CASE w.unit # "ever"
    <2> DEFINE P(i) == InsideOf(w, sq, i) /\ \A j \in 1..(i - 1) : ~InsideOf(w, sq, j)
    <2>1. PICK m \in KeptOf(w, sq) : \A i \in KeptOf(w, sq) : m <= i
      BY <1>1, HasLeast
    <2>2. \A i \in 1..Len(sq) : i \in KeptOf(w, sq) <=> InsideOf(w, sq, i)
      BY <1>3 DEF KeptOf
    <2>3. m \in 1..Len(sq) /\ P(m)
      <3>1. m \in 1..Len(sq) /\ InsideOf(w, sq, m)
        BY <1>1, <2>1, <2>2
      <3>2. ASSUME NEW j \in 1..(m - 1)
            PROVE  ~InsideOf(w, sq, j)
        <4>1. j \in 1..Len(sq) /\ ~(m <= j)
          BY <3>1
        <4>2. QED
          BY <2>1, <2>2, <4>1
      <3>3. QED
        BY <3>1, <3>2
    <2>4. BaselineOf(w, sq) = CHOOSE i \in 1..Len(sq) : P(i)
      BY <1>3 DEF BaselineOf
    <2> DEFINE c == CHOOSE i \in 1..Len(sq) : P(i)
    <2>5. c \in 1..Len(sq) /\ P(c)
      BY <2>3
    <2> HIDE DEF c
    <2>6. ASSUME NEW i \in KeptOf(w, sq), ~(c <= i)
          PROVE  FALSE
      <3>1. i \in 1..Len(sq) /\ InsideOf(w, sq, i)
        BY <1>1, <2>2
      <3>2. i \in 1..(c - 1)
        BY <2>5, <2>6, <3>1
      <3>3. QED
        BY <2>5, <3>1, <3>2
    <2>7. QED
      BY <2>2, <2>4, <2>5, <2>6 DEF c
  <1>4. QED
    BY <1>2, <1>3

\* The ticks tell their arrivals apart, so the oldest one is that of the baseline.
LEMMA OldestIs ==
    ASSUME NEW w, NEW sq, Len(sq) \in Nat, Len(sq) \in KeptOf(w, sq)
    PROVE  Oldest(TicksOf(w, sq)) = TickAt(sq, BaselineOf(w, sq))
  <1> DEFINE T == TicksOf(w, sq)
             m == BaselineOf(w, sq)
  <1>1. m \in KeptOf(w, sq) /\ \A i \in KeptOf(w, sq) : m <= i
    BY BaselineIsLeast
  <1>2. KeptOf(w, sq) \in SUBSET Int
    BY DEF KeptOf
  <1>3. \A t \in T : \E i \in KeptOf(w, sq) : t = TickAt(sq, i) /\ t.arrival = i
    BY TickFields DEF TicksOf
  <1>4. TickAt(sq, m) \in T /\ TickAt(sq, m).arrival = m
    BY <1>1, TickFields DEF TicksOf
  <1> HIDE DEF T, m
  <1>5. \A t \in T : TickAt(sq, m).arrival <= t.arrival
    BY <1>1, <1>3, <1>4
  <1>6. \A t \in T : (\A u \in T : t.arrival <= u.arrival) => t = TickAt(sq, m)
    <2>1. SUFFICES ASSUME NEW t \in T, \A u \in T : t.arrival <= u.arrival
                   PROVE  t = TickAt(sq, m)
      OBVIOUS
    <2>2. PICK i \in KeptOf(w, sq) : t = TickAt(sq, i) /\ t.arrival = i
      BY <1>3
    <2>3. i <= m /\ m <= i
      BY <1>1, <1>4, <2>1, <2>2
    <2>4. i = m
      BY <1>1, <1>2, <2>3
    <2>5. QED
      BY <2>2, <2>4
  <1>7. QED
    BY <1>4, <1>5, <1>6 DEF Oldest, T, m

LEMMA NextArrivalIs ==
    ASSUME NEW w, NEW sq, Len(sq) \in Nat, Len(sq) \in KeptOf(w, sq)
    PROVE  NextArrival(TicksOf(w, sq)) = Len(sq) + 1
  <1> DEFINE T == TicksOf(w, sq)
             c == CHOOSE t \in T : \A u \in T : u.arrival <= t.arrival
  <1>1. KeptOf(w, sq) \in SUBSET (1..Len(sq))
    BY DEF KeptOf
  <1>2. \A t \in T : t.arrival \in 1..Len(sq)
    BY <1>1, TickFields DEF TicksOf
  <1>3. TickAt(sq, Len(sq)) \in T /\ TickAt(sq, Len(sq)).arrival = Len(sq)
    BY TickFields DEF TicksOf
  <1> HIDE DEF T
  <1>4. c \in T /\ \A u \in T : u.arrival <= c.arrival
    BY <1>2, <1>3
  <1> HIDE DEF c
  <1>5. c.arrival = Len(sq)
    BY <1>2, <1>3, <1>4
  <1>6. T # {}
    BY <1>3
  <1>7. QED
    BY <1>5, <1>6 DEF NextArrival, T, c

\* What another observation leaves of the window.
LEMMA KeptGrows ==
    ASSUME WatchAssumption, NEW w, IsDelta(w), NEW sq, History(w, sq), Len(sq) > 0,
           NEW s, Observed(w, s)
    PROVE  LET n == Len(sq) + 1
           IN KeptOf(w, Append(sq, s)) =
                {n} \cup {i \in KeptOf(w, sq) :
                            IF w.unit = "ever" THEN i = 1
                            ELSE CoordinateOf(w, sq[i]) >= CoordinateOf(w, s) - w.size}
  <1> DEFINE n == Len(sq) + 1
             sp == Append(sq, s)
  <1>1. /\ History(w, sp) /\ Len(sp) = n /\ Len(sq) \in Nat
        /\ (\A i \in 1..Len(sq) : sp[i] = sq[i]) /\ sp[n] = s
    BY HistoryGrows
  <1> HIDE DEF sp
  <1>2. n \in KeptOf(w, sp) /\ KeptOf(w, sp) \subseteq 1..n
    <2>1. Len(sp) > 0
      BY <1>1
    <2>2. QED
      BY <1>1, <2>1, NewestIsKept
  <1>3. CASE w.unit = "ever"
    <2>1. KeptOf(w, sp) = {1, n} /\ KeptOf(w, sq) = {1, Len(sq)}
      BY <1>1, <1>3 DEF KeptOf
    <2>2. QED
      BY <1>1, <1>3, <2>1 DEF sp
  <1>4. CASE w.unit # "ever"
    <2>1. w.unit \in {"time", "blocks", "epochs"} /\ w.size \in Nat
      BY <1>4 DEF IsDelta, WatchAssumption, WatchTyped
    <2>2. ASSUME NEW i \in 1..Len(sq)
          PROVE  InsideOf(w, sp, i) <=>
                    /\ InsideOf(w, sq, i)
                    /\ CoordinateOf(w, sq[i]) >= CoordinateOf(w, s) - w.size
      <3>1. i..n = (i..Len(sq)) \cup {n}
        BY <1>1
      <3>2. sp[i] = sq[i] /\ \A j \in i..Len(sq) : sp[j] = sq[j]
        BY <1>1
      <3>3. QED
        BY <1>1, <3>1, <3>2 DEF InsideOf
    <2>3. \A i \in 1..Len(sq) : i \in KeptOf(w, sq) <=> InsideOf(w, sq, i)
      BY <1>4 DEF KeptOf
    <2>4. \A i \in 1..n : i \in KeptOf(w, sp) <=> InsideOf(w, sp, i)
      BY <1>1, <1>4 DEF KeptOf
    <2>5. KeptOf(w, sq) \subseteq 1..Len(sq)
      BY DEF KeptOf
    <2>6. 1..n = (1..Len(sq)) \cup {n}
      BY <1>1
    <2>7. KeptOf(w, sp) = {n} \cup {i \in KeptOf(w, sq) :
                    CoordinateOf(w, sq[i]) >= CoordinateOf(w, s) - w.size}
      BY <1>2, <2>2, <2>3, <2>4, <2>5, <2>6
    <2>8. QED
      BY <1>4, <2>7 DEF sp
  <1>5. QED
    BY <1>3, <1>4

\* The code's pruning leaves the ticks of the observations that stayed inside.
LEMMA PrunedIs ==
    ASSUME WatchAssumption, NEW w, IsDelta(w), NEW sq, History(w, sq), Len(sq) > 0,
           NEW s, Observed(w, s)
    PROVE  LET current == Tick(s, Len(sq) + 1)
           IN Pruned(w, TicksOf(w, sq) \cup {current}, current) = TicksOf(w, Append(sq, s))
  <1> DEFINE n == Len(sq) + 1
             current == Tick(s, n)
             sp == Append(sq, s)
             K == KeptOf(w, sq)
             T == TicksOf(w, sq)
  <1>1. /\ History(w, sp) /\ Len(sp) = n /\ Len(sq) \in Nat
        /\ (\A i \in 1..Len(sq) : sp[i] = sq[i]) /\ sp[n] = s
    BY HistoryGrows
  <1>2. KeptOf(w, sp) = {n} \cup {i \in K :
                            IF w.unit = "ever" THEN i = 1
                            ELSE CoordinateOf(w, sq[i]) >= CoordinateOf(w, s) - w.size}
    BY KeptGrows
  <1>3. Len(sq) \in K /\ K \subseteq 1..Len(sq)
    BY NewestIsKept
  <1> HIDE DEF sp
  <1>4. TickAt(sp, n) = current /\ \A i \in K : TickAt(sp, i) = TickAt(sq, i)
    BY <1>1, <1>3 DEF TickAt
  <1>5. current.arrival = n
    BY DEF Tick
  <1>6. T = {TickAt(sq, i) : i \in K}
    BY DEF TicksOf
  <1> HIDE DEF K, T, current
  <1>7. TicksOf(w, sp) = {current} \cup
            {TickAt(sq, i) : i \in {i \in K :
                IF w.unit = "ever" THEN i = 1
                ELSE CoordinateOf(w, sq[i]) >= CoordinateOf(w, s) - w.size}}
    BY <1>2, <1>4 DEF TicksOf
  <1>8. CASE w.unit = "ever"
    <2>1. 1 \in K
      BY <1>1, <1>3, <1>8 DEF K, KeptOf
    <2>2. TicksOf(w, sp) = {current, TickAt(sq, 1)}
      BY <1>7, <1>8, <2>1
    <2> DEFINE all == T \cup {current}
               c == Oldest(all)
    <2>3. TickAt(sq, 1) \in all /\ TickAt(sq, 1).arrival = 1
      BY <1>6, <2>1, TickFields
    <2>4. \A t \in all : t.arrival \in 1..n /\ (t.arrival = 1 => t = TickAt(sq, 1))
      <3>1. ASSUME NEW i \in K
            PROVE  /\ TickAt(sq, i).arrival \in 1..n
                   /\ TickAt(sq, i).arrival = 1 => TickAt(sq, i) = TickAt(sq, 1)
        BY <1>1, <1>3, TickFields
      <3>2. n \in 1..n /\ n # 1
        BY <1>1
      <3>3. QED
        BY <1>5, <1>6, <3>1, <3>2
    <2> HIDE DEF all
    <2>5. \A t \in all : TickAt(sq, 1).arrival <= t.arrival
      BY <2>3, <2>4
    <2>6. c \in all /\ \A t \in all : c.arrival <= t.arrival
      BY <2>3, <2>5 DEF Oldest
    <2> HIDE DEF c
    <2>7. c.arrival = 1
      BY <2>3, <2>4, <2>6
    <2>8. c = TickAt(sq, 1)
      BY <2>4, <2>6, <2>7
    <2>9. Pruned(w, all, current) = {c, current}
      BY <1>8 DEF Pruned, c
    <2>10. QED
      BY <2>2, <2>8, <2>9 DEF all, T, current, sp
  <1>9. CASE w.unit # "ever"
    <2>1. \A i \in K : Position(w.unit, TickAt(sq, i)) = CoordinateOf(w, sq[i])
      BY <1>3, <1>9, PositionIs DEF History, TickAt
    <2>2. Position(w.unit, current) = CoordinateOf(w, s)
      BY <1>9, PositionIs DEF current
    <2>3. CoordinateOf(w, s) \in Int /\ w.size \in Nat
      <3>1. /\ w.unit \in {"time", "blocks", "epochs"} /\ w.size \in Nat
            /\ w.path.epochs = (w.unit = "epochs")
        BY <1>9 DEF IsDelta, WatchAssumption, WatchTyped
      <3>2. QED
        BY <3>1, CoordinateIsInt
    <2>4. InWindow(w, current, current)
      BY <2>2, <2>3 DEF InWindow
    <2>5. \A i \in K : InWindow(w, TickAt(sq, i), current) <=>
                CoordinateOf(w, sq[i]) >= CoordinateOf(w, s) - w.size
      BY <2>1, <2>2 DEF InWindow
    <2>6. Pruned(w, T \cup {current}, current) = {t \in T \cup {current} : InWindow(w, t, current)}
      BY <1>9 DEF Pruned
    <2>7. Pruned(w, T \cup {current}, current) = TicksOf(w, sp)
      BY <1>6, <1>7, <1>9, <2>4, <2>5, <2>6
    <2>8. QED
      BY <2>7 DEF T, current, sp
  <1>10. QED
    BY <1>8, <1>9

FarOf(w, from, to) ==
    LET margin == w.target * Magnitude(from)
    IN CASE w.operator = "drop" -> 100 * to <= 100 * from - margin
         [] w.operator = "rise" -> 100 * to >= 100 * from + margin
         [] w.operator = "move" -> \/ 100 * to <= 100 * from - margin
                                   \/ 100 * to >= 100 * from + margin

LEMMA MovedIsFar ==
    ASSUME WatchAssumption, NEW w, IsDelta(w), NEW from \in Int, NEW to \in Int
    PROVE  Moved(w.operator, from, to, w.target) <=> FarOf(w, from, to)
  <1> DEFINE bound == w.target * Magnitude(from)
             change == 100 * (to - from)
  <1>1. bound \in Int /\ change \in Int /\ w.operator \in {"drop", "rise", "move"}
    BY DEF IsDelta, WatchAssumption, WatchTyped, Magnitude
  <1> HIDE DEF bound
  <1>2. Magnitude(change) >= bound <=> change <= -bound \/ change >= bound
    BY <1>1 DEF Magnitude
  <1>3. change <= -bound <=> 100 * to <= 100 * from - bound
    BY <1>1
  <1>4. change >= bound <=> 100 * to >= 100 * from + bound
    BY <1>1
  <1> HIDE DEF change
  <1>5. Moved(w.operator, from, to, w.target) <=>
            CASE w.operator = "drop" -> change <= -bound
              [] w.operator = "rise" -> change >= bound
              [] w.operator = "move" -> Magnitude(change) >= bound
    BY DEF Moved, bound, change
  <1>6. FarOf(w, from, to) <=>
            CASE w.operator = "drop" -> 100 * to <= 100 * from - bound
              [] w.operator = "rise" -> 100 * to >= 100 * from + bound
              [] w.operator = "move" -> \/ 100 * to <= 100 * from - bound
                                        \/ 100 * to >= 100 * from + bound
    BY DEF FarOf, bound
  <1>7. QED
    BY <1>1, <1>2, <1>3, <1>4, <1>5, <1>6

LEMMA DeltaOfNumber ==
    ASSUME WatchAssumption, NEW w, IsDelta(w), NEW s, Observed(w, s), NEW ticks
    PROVE  LET current == Tick(s, NextArrival(ticks))
               kept == Pruned(w, ticks \cup {current}, current)
           IN Delta(w, ticks, s) =
                IF ticks = {} THEN Answer({current}, "needs_data")
                ELSE IF Cardinality(kept) < 2 THEN Answer(kept, "needs_data")
                ELSE Answer(kept, Compared(w, Oldest(kept).value, s.value))
  <1>1. IsNumber(s)
    BY DEF Observed, Observations, IsNumber
  <1>2. ~(w.unit = "epochs" /\ s.epoch = NoValue)
    <2>1. SUFFICES ASSUME w.unit = "epochs"
                   PROVE  s.epoch # NoValue
      OBVIOUS
    <2>2. w.path.epochs
      BY <2>1 DEF IsDelta, WatchAssumption, WatchTyped
    <2>4. s.epoch \in Int
      BY <2>2 DEF Observed
    <2>5. QED
      BY <2>4 DEF WatchAssumption
  <1>3. QED
    BY <1>1, <1>2 DEF Delta

\* The primitive's memory is the window, and its answer the comparison of the
\* newest value with the baseline.
DeltaAnswers(w, sp, answer) ==
    LET base == sp[BaselineOf(w, sp)].value
    IN /\ answer.memory = TicksOf(w, sp)
       /\ answer.outcome = "match" <=> /\ BaselineOf(w, sp) < Len(sp) /\ base # 0
                                       /\ FarOf(w, base, sp[Len(sp)].value)

LEMMA DeltaIs ==
    ASSUME WatchAssumption, NEW w, IsDelta(w), NEW sq, History(w, sq),
           NEW s, Observed(w, s)
    PROVE  DeltaAnswers(w, Append(sq, s), Delta(w, TicksOf(w, sq), s))
  <1> DEFINE n == Len(sq) + 1
             sp == Append(sq, s)
             base == sp[BaselineOf(w, sp)].value
             T == TicksOf(w, sq)
             current == Tick(s, NextArrival(T))
             kept == Pruned(w, T \cup {current}, current)
             answer == Delta(w, T, s)
             B == BaselineOf(w, sp)
  <1>1. /\ History(w, sp) /\ Len(sp) = n /\ Len(sq) \in Nat
        /\ (\A i \in 1..Len(sq) : sp[i] = sq[i]) /\ sp[n] = s
    BY HistoryGrows
  <1> HIDE DEF sp
  <1>2. Len(sp) > 0 /\ Len(sp) \in Nat
    BY <1>1
  <1>3. n \in KeptOf(w, sp) /\ KeptOf(w, sp) \subseteq 1..n
    BY <1>1, <1>2, NewestIsKept
  <1>4. B \in KeptOf(w, sp) /\ \A i \in KeptOf(w, sp) : B <= i
    BY <1>1, <1>2, <1>3, BaselineIsLeast
  <1>5. answer = IF T = {} THEN Answer({current}, "needs_data")
                 ELSE IF Cardinality(kept) < 2 THEN Answer(kept, "needs_data")
                 ELSE Answer(kept, Compared(w, Oldest(kept).value, s.value))
    BY DeltaOfNumber
  <1>6. CASE Len(sq) = 0
    <2>1. T = {} /\ n = 1
      BY <1>6 DEF TicksOf, KeptOf
    <2>2. KeptOf(w, sp) = {1}
      BY <1>3, <2>1
    <2>3. current = TickAt(sp, 1)
      BY <1>1, <2>1 DEF NextArrival, TickAt
    <2>4. TicksOf(w, sp) = {current}
      BY <2>2, <2>3 DEF TicksOf
    <2>5. answer.memory = {current} /\ answer.outcome = "needs_data"
      BY <1>5, <2>1 DEF Answer
    <2>6. ~(B < Len(sp))
      BY <1>1, <1>4, <2>1, <2>2
    <2>7. QED
      BY <2>4, <2>5, <2>6 DEF sp, DeltaAnswers
  <1>7. CASE Len(sq) > 0
    <2>1. Len(sq) \in KeptOf(w, sq)
      BY <1>7, NewestIsKept
    <2>2. NextArrival(T) = n
      BY <1>1, <2>1, NextArrivalIs
    <2>3. kept = TicksOf(w, sp)
      BY <1>7, <2>2, PrunedIs DEF sp
    <2>4. T # {}
      BY <2>1 DEF TicksOf
    <2>5. Cardinality(kept) < 2 <=> KeptOf(w, sp) = {n}
      BY <1>1, <1>2, <1>3, <2>3, FewTicks
    <2>6. KeptOf(w, sp) = {n} <=> ~(B < n)
      BY <1>1, <1>3, <1>4
    <2>7. CASE ~(B < n)
      <3>1. answer = Answer(kept, "needs_data")
        BY <1>5, <2>4, <2>5, <2>6, <2>7
      <3>2. answer.memory = kept /\ answer.outcome = "needs_data"
        BY <3>1 DEF Answer
      <3>3. QED
        BY <1>1, <2>3, <2>7, <3>2 DEF sp, DeltaAnswers
    <2>8. CASE B < n
      <3>1. answer = Answer(kept, Compared(w, Oldest(kept).value, s.value))
        BY <1>5, <2>4, <2>5, <2>6, <2>8
      <3>2. Oldest(kept) = TickAt(sp, B)
        BY <1>1, <1>2, <1>3, <2>3, OldestIs
      <3>3. Oldest(kept).value = base
        BY <3>2, TickFields
      <3>4. base \in Int /\ s.value \in Int
        BY <1>1, <1>3, <1>4 DEF History, Observed, Observations
      <3>5. Compared(w, base, s.value) = "match" <=> base # 0 /\ FarOf(w, base, s.value)
        BY <3>4, MovedIsFar DEF Compared
      <3>6. answer.memory = kept /\ answer.outcome = Compared(w, base, s.value)
        BY <3>1, <3>3 DEF Answer
      <3>7. QED
        BY <1>1, <2>3, <2>8, <3>5, <3>6 DEF sp, DeltaAnswers
    <2>9. QED
      BY <2>7, <2>8
  <1>8. Len(sq) = 0 \/ Len(sq) > 0
    BY <1>1
  <1>9. QED
    BY <1>6, <1>7, <1>8, Zenon

-----------------------------------------------------------------------------
(* The anchor of a liveness watch. *)

\* What an observation of an activity marker holds.
LEMMA MarkerObserved ==
    ASSUME WatchAssumption, NEW w, IsLiveness(w), NEW s, Observed(w, s)
    PROVE  /\ s.value \in Nat /\ ActivityMarker(s) = s.value
           /\ s.value # NoValue
           /\ ~LacksContext(w, s, s.value)
           /\ ObservedAt(w.unit, s) = CoordinateOf(w, s)
           /\ CoordinateOf(w, s) \in Int
  <1>1. /\ w.unit \in {"time", "blocks", "epochs"}
        /\ w.path.marker /\ w.path.unit = w.unit /\ w.path.epochs = (w.unit = "epochs")
    BY LivenessTyped
  <1>2. s.value \in Nat /\ ActivityTold(w, s) /\ s.kind = "number"
    BY DEF Observed, Observations, IsLiveness
  <1>3. s.value # NoValue
    BY <1>2 DEF WatchAssumption
  <1>4. ActivityMarker(s) = s.value
    BY <1>2 DEF ActivityMarker, IsNumber
  <1>5. ObservedAt(w.unit, s) = CoordinateOf(w, s) /\ CoordinateOf(w, s) \in Int
    BY <1>1, CoordinateIsInt DEF ObservedAt, CoordinateOf
  <1>6. w.unit = "epochs" => s.epoch # NoValue
    BY <1>1 DEF WatchAssumption, Observed
  <1>7. ASSUME s.value > 0
        PROVE  /\ w.unit = "time" => s.activityTime # NoValue
               /\ w.unit = "epochs" => s.activityEpoch # NoValue
    BY <1>1, <1>2, <1>7 DEF ActivityTold, WatchAssumption
  <1>8. ~LacksContext(w, s, s.value)
    BY <1>6, <1>7 DEF LacksContext
  <1>9. QED
    BY <1>2, <1>3, <1>4, <1>5, <1>8

SinceOf(sq, i) == /\ i \in 1..Len(sq)
                  /\ \A j \in i..Len(sq) : sq[j].value = sq[Len(sq)].value
                  /\ i > 1 => sq[i - 1].value # sq[Len(sq)].value
AnchorIs(sq, anchor, i) ==
    SinceOf(sq, i) /\ anchor = AnchorFor(sq[i], sq[i].epoch, sq[i].value)

\* The memory is the anchor of the first observation of the marker.
Anchored(sq, anchor) == IF sq = <<>> THEN anchor = NoAnchor
                                     ELSE \E i \in 1..Len(sq) : AnchorIs(sq, anchor, i)

LEMMA SinceIsOne ==
    ASSUME NEW sq, Len(sq) \in Nat, NEW i, SinceOf(sq, i), NEW k, SinceOf(sq, k)
    PROVE  i = k
  <1>1. i \in 1..Len(sq) /\ k \in 1..Len(sq)
    BY DEF SinceOf
  <1>2. ASSUME NEW a, SinceOf(sq, a), NEW b, SinceOf(sq, b), a < b
        PROVE  FALSE
    <2>1. a \in 1..Len(sq) /\ b \in 1..Len(sq) /\ b > 1 /\ b - 1 \in a..Len(sq)
      BY <1>2 DEF SinceOf
    <2>2. QED
      BY <1>2, <2>1 DEF SinceOf
  <1>3. QED
    BY <1>1, <1>2

ActivityOf(w, o) == IF o.value = 0 THEN CoordinateOf(w, o)
                    ELSE CASE w.unit = "time" -> o.activityTime
                           [] w.unit = "blocks" -> o.value
                           [] w.unit = "epochs" -> o.activityEpoch
SilenceOf(w, sq, i) == CoordinateOf(w, sq[Len(sq)]) - ActivityOf(w, sq[i])
PlacelessOf(w, sq) == w.unit = "epochs" /\ sq[Len(sq)].value = 0

\* The anchor is the activity that its observation told of, if it has a place.
LEMMA AnchorPlace ==
    ASSUME WatchAssumption, NEW w, IsLiveness(w), NEW s, Observed(w, s)
    PROVE  LET anchor == AnchorFor(s, s.epoch, s.value)
           IN /\ Unmeasurable(w.unit, anchor) <=> w.unit = "epochs" /\ s.value = 0
              /\ ~(w.unit = "epochs" /\ s.value = 0) =>
                     AnchorAt(w.unit, anchor) = ActivityOf(w, s) /\ ActivityOf(w, s) \in Int
  <1> DEFINE anchor == AnchorFor(s, s.epoch, s.value)
  <1>1. /\ w.unit \in {"time", "blocks", "epochs"}
        /\ w.path.marker /\ w.path.unit = w.unit
    BY LivenessTyped
  <1>2. /\ s.value \in Nat /\ s.value # NoValue
        /\ CoordinateOf(w, s) \in Int /\ ActivityTold(w, s)
    BY <1>1, MarkerObserved DEF Observed, IsLiveness
  <1>3. CASE s.value > 0
    <2>1. anchor.block = s.value /\ anchor.time = s.activityTime
          /\ anchor.epoch = s.activityEpoch
      BY <1>2, <1>3 DEF AnchorFor
    <2> HIDE DEF anchor
    <2>2. w.unit # "blocks" => /\ s.activityTime \in Int
                               /\ w.unit = "epochs" => s.activityEpoch \in Int
      BY <1>1, <1>2, <1>3 DEF ActivityTold
    <2>3. AnchorAt(w.unit, anchor) = ActivityOf(w, s) /\ ActivityOf(w, s) \in Int
      BY <1>1, <1>2, <1>3, <2>1, <2>2 DEF AnchorAt, ActivityOf
    <2>4. ActivityOf(w, s) # NoValue
      BY <2>3 DEF WatchAssumption
    <2>5. QED
      BY <1>2, <1>3, <2>3, <2>4 DEF Unmeasurable, anchor
  <1>4. CASE s.value = 0
    <2>1. anchor.block = s.block /\ anchor.time = s.time
          /\ anchor.epoch = s.activityEpoch /\ s.activityEpoch = NoValue
      BY <1>2, <1>4 DEF AnchorFor, ActivityTold
    <2> HIDE DEF anchor
    <2>2. w.unit # "epochs" => AnchorAt(w.unit, anchor) = ActivityOf(w, s)
                               /\ ActivityOf(w, s) \in Int
      BY <1>1, <1>2, <1>4, <2>1 DEF AnchorAt, ActivityOf, CoordinateOf
    <2>3. w.unit = "epochs" => AnchorAt(w.unit, anchor) = NoValue
      BY <2>1 DEF AnchorAt
    <2>4. w.unit # "epochs" => AnchorAt(w.unit, anchor) # NoValue
      BY <2>2 DEF WatchAssumption
    <2>5. QED
      BY <1>4, <2>2, <2>3, <2>4 DEF Unmeasurable, anchor
  <1>5. QED
    BY <1>2, <1>3, <1>4

\* The first answer to a marker's observations, and every later one.
LEMMA ElapsedIs ==
    ASSUME WatchAssumption, NEW w, IsLiveness(w), NEW sq, History(w, sq), Len(sq) > 0,
           NEW anchor, NEW i \in 1..Len(sq), AnchorIs(sq, anchor, i)
    PROVE  /\ Unmeasurable(w.unit, anchor) <=> PlacelessOf(w, sq)
           /\ ~PlacelessOf(w, sq) =>
                  Elapsed(w.unit, anchor, sq[Len(sq)]) = SilenceOf(w, sq, i)
  <1>1. Len(sq) \in Nat /\ Len(sq) \in 1..Len(sq)
        /\ Observed(w, sq[i]) /\ Observed(w, sq[Len(sq)])
    BY DEF History
  <1>2. sq[i].value = sq[Len(sq)].value
    BY <1>1 DEF AnchorIs, SinceOf
  <1>3. /\ Unmeasurable(w.unit, anchor) <=> w.unit = "epochs" /\ sq[i].value = 0
        /\ ~(w.unit = "epochs" /\ sq[i].value = 0) =>
               AnchorAt(w.unit, anchor) = ActivityOf(w, sq[i])
    BY <1>1, AnchorPlace DEF AnchorIs
  <1>4. ObservedAt(w.unit, sq[Len(sq)]) = CoordinateOf(w, sq[Len(sq)])
    BY <1>1, MarkerObserved
  <1>5. QED
    BY <1>2, <1>3, <1>4 DEF Elapsed, SilenceOf, PlacelessOf

LEMMA AnchorFields ==
    ASSUME NEW sq, NEW anchor, NEW i, AnchorIs(sq, anchor, i)
    PROVE  anchor.set = TRUE /\ anchor.marker = sq[i].value
  BY DEF AnchorIs, AnchorFor

\* What a liveness watch answers, of the history it has been given.
LivenessAnswers(w, sp, i, answer) ==
    /\ AnchorIs(sp, answer.memory, i)
    /\ answer.outcome = "raises" <=> PlacelessOf(w, sp) /\ i < Len(sp)
    /\ answer.outcome = "match" <=>
           /\ ~PlacelessOf(w, sp) /\ SilenceOf(w, sp, i) >= w.size
           /\ i = Len(sp) => Len(sp) = 1 /\ sp[Len(sp)].value > 0

LEMMA LivenessIs ==
    ASSUME WatchAssumption, NEW w, IsLiveness(w), NEW sq, History(w, sq),
           NEW anchor, Anchored(sq, anchor), NEW s, Observed(w, s)
    PROVE  \E i \in 1..(Len(sq) + 1) :
                LivenessAnswers(w, Append(sq, s), i, Liveness(w, anchor, s))
  <1> DEFINE n == Len(sq) + 1
             sp == Append(sq, s)
             answer == Liveness(w, anchor, s)
             v == s.value
  <1>1. /\ History(w, sp) /\ Len(sp) = n /\ Len(sq) \in Nat
        /\ (\A i \in 1..Len(sq) : sp[i] = sq[i]) /\ sp[n] = s
    BY HistoryGrows
  <1>2. n \in 1..n /\ Len(sp) > 0
    BY <1>1
  <1> HIDE DEF sp
  <1>3. ActivityMarker(s) = v /\ v \in Nat /\ v # NoValue /\ ~LacksContext(w, s, v)
    <2>1. /\ s.value \in Nat /\ ActivityMarker(s) = s.value
          /\ s.value # NoValue /\ ~LacksContext(w, s, s.value)
      BY MarkerObserved
    <2>2. QED
      BY <2>1
  <1> HIDE DEF v
  <1>4. answer = IF ~anchor.set THEN FirstLiveness(w, s, v)
                                ELSE LaterLiveness(w, anchor, s, v)
    BY <1>3 DEF Liveness
  <1> HIDE DEF answer
  <1>5. CASE sq = <<>>
    <2> DEFINE fresh == AnchorFor(s, s.epoch, v)
    <2>1. n = 1 /\ ~anchor.set
      BY <1>5 DEF Anchored, NoAnchor
    <2>2. answer = Answer(fresh, IF v > 0 /\ Elapsed(w.unit, fresh, s) >= w.size
                                 THEN "match" ELSE "needs_data")
      BY <1>3, <1>4, <2>1 DEF FirstLiveness
    <2>3. answer.memory = fresh /\ answer.outcome # "raises"
          /\ (answer.outcome = "match" <=> v > 0 /\ Elapsed(w.unit, fresh, s) >= w.size)
      BY <2>2 DEF Answer
    <2>4. AnchorIs(sp, fresh, 1)
      BY <1>1, <2>1 DEF AnchorIs, SinceOf, v
    <2>5. 1 \in 1..Len(sp) /\ sp[Len(sp)] = s /\ Len(sp) = 1
      BY <1>1, <2>1
    <2>6. /\ Unmeasurable(w.unit, fresh) <=> PlacelessOf(w, sp)
          /\ ~PlacelessOf(w, sp) => Elapsed(w.unit, fresh, s) = SilenceOf(w, sp, 1)
      BY <1>1, <1>2, <2>4, <2>5, ElapsedIs
    <2>7. v > 0 => ~PlacelessOf(w, sp)
      BY <1>3, <2>5 DEF PlacelessOf, v
    <2>8. LivenessAnswers(w, sp, 1, answer)
      BY <2>3, <2>4, <2>5, <2>6, <2>7 DEF LivenessAnswers, v
    <2>9. QED
      BY <1>2, <2>1, <2>8 DEF sp, answer
  <1>6. CASE sq # <<>>
    <2>1. PICK k \in 1..Len(sq) : AnchorIs(sq, anchor, k)
      BY <1>6 DEF Anchored
    <2>2. anchor.set = TRUE /\ anchor.marker = sq[k].value /\ SinceOf(sq, k)
      BY <2>1, AnchorFields DEF AnchorIs
    <2>3. Len(sq) \in k..Len(sq) /\ sq[k].value = sq[Len(sq)].value
      BY <1>1, <2>1, <2>2 DEF SinceOf
    <2>4. answer = LaterLiveness(w, anchor, s, v)
      BY <1>4, <2>2
    <2>5. CASE v # anchor.marker
      <3>1. answer = Answer(AnchorFor(s, s.epoch, v), "no_match")
        BY <1>3, <2>4, <2>5 DEF LaterLiveness
      <3>2. answer.memory = AnchorFor(s, s.epoch, v) /\ answer.outcome = "no_match"
        BY <3>1 DEF Answer
      <3>3. SinceOf(sp, n)
        <4>1. n - 1 = Len(sq) /\ Len(sq) \in 1..Len(sq) /\ \A j \in n..n : j = n
          BY <1>1, <2>1
        <4>2. sp[n - 1] = sq[Len(sq)]
          BY <1>1, <4>1
        <4>3. QED
          BY <1>1, <1>2, <2>2, <2>3, <2>5, <4>1, <4>2 DEF SinceOf, v
      <3>4. AnchorIs(sp, answer.memory, n)
        BY <1>1, <3>2, <3>3 DEF AnchorIs, v
      <3>5. n # 1
        BY <1>1, <2>1
      <3>6. LivenessAnswers(w, sp, n, answer)
        BY <1>1, <3>2, <3>4, <3>5 DEF LivenessAnswers
      <3>7. QED
        BY <1>2, <3>6 DEF sp, answer
    <2>6. CASE v = anchor.marker
      <3>1. SinceOf(sp, k)
        <4>1. k..n = (k..Len(sq)) \cup {n} /\ k \in 1..n
          BY <1>1, <2>1
        <4>2. \A j \in k..Len(sq) : sp[j] = sq[j] /\ sq[j].value = sq[Len(sq)].value
          BY <1>1, <2>1, <2>2 DEF SinceOf
        <4>3. s.value = sq[Len(sq)].value
          BY <2>2, <2>3, <2>6 DEF v
        <4>4. k > 1 => sp[k - 1] = sq[k - 1] /\ sq[k - 1].value # sq[Len(sq)].value
          BY <1>1, <2>1, <2>2 DEF SinceOf
        <4>5. QED
          BY <1>1, <4>1, <4>2, <4>3, <4>4 DEF SinceOf
      <3>2. AnchorIs(sp, anchor, k)
        BY <1>1, <2>1, <3>1 DEF AnchorIs
      <3>3. answer = IF Unmeasurable(w.unit, anchor) THEN Answer(anchor, "raises")
                     ELSE IF Elapsed(w.unit, anchor, s) >= w.size THEN Answer(anchor, "match")
                     ELSE Answer(anchor, "no_match")
        BY <1>3, <2>4, <2>6 DEF LaterLiveness
      <3>4. /\ answer.memory = anchor
            /\ answer.outcome = "raises" <=> Unmeasurable(w.unit, anchor)
            /\ answer.outcome = "match" <=> /\ ~Unmeasurable(w.unit, anchor)
                                            /\ Elapsed(w.unit, anchor, s) >= w.size
        BY <3>3 DEF Answer
      <3>5. k \in 1..Len(sp) /\ k < Len(sp) /\ k # Len(sp) /\ sp[Len(sp)] = s
        BY <1>1, <2>1
      <3>6. /\ Unmeasurable(w.unit, anchor) <=> PlacelessOf(w, sp)
            /\ ~PlacelessOf(w, sp) => Elapsed(w.unit, anchor, s) = SilenceOf(w, sp, k)
        BY <1>1, <1>2, <3>2, <3>5, ElapsedIs
      <3>7. LivenessAnswers(w, sp, k, answer)
        BY <3>2, <3>4, <3>5, <3>6 DEF LivenessAnswers
      <3>8. QED
        BY <1>1, <3>5, <3>7 DEF sp, answer
    <2>7. QED
      BY <2>5, <2>6
  <1>7. QED
    BY <1>5, <1>6

-----------------------------------------------------------------------------
(* The watch. *)

DeltaTruth ==
    IF seen = <<>> THEN memory = NoTicks
    ELSE DeltaAnswers(watch, seen, [memory |-> memory, outcome |-> outcome])

LivenessTruth ==
    IF seen = <<>> THEN memory = NoAnchor
    ELSE \E i \in 1..Len(seen) :
            LivenessAnswers(watch, seen, i, [memory |-> memory, outcome |-> outcome])

WatchInv ==
    /\ ReadInv
    /\ History(watch, seen)
    /\ watch.primitive = "delta" => DeltaTruth
    /\ watch.primitive = "liveness" => LivenessTruth

LEMMA WatchInvInit ==
    ASSUME WatchAssumption, Init
    PROVE  WatchInv
  <1>1. ReadInv
    BY ReadInvInit
  <1>2. seen = <<>> /\ Len(seen) = 0
    BY DEF Init
  <1>3. History(watch, seen)
    BY <1>2 DEF History
  <1>4. watch.primitive = "delta" => DeltaTruth
    BY <1>2 DEF Init, InitialMemory, DeltaTruth
  <1>5. watch.primitive = "liveness" => LivenessTruth
    BY <1>2 DEF Init, InitialMemory, LivenessTruth
  <1>6. QED
    BY <1>1, <1>3, <1>4, <1>5 DEF WatchInv

LEMMA EvaluateKeeps ==
    ASSUME WatchAssumption, WatchInv, ReadInv', Evaluate
    PROVE  WatchInv'
  <1> DEFINE s == Observation
             answer == Answered(Observation)
  <1>1. /\ rd.at = "done" /\ memory' = answer.memory /\ outcome' = answer.outcome
        /\ seen' = Append(seen, s) /\ watch' = watch
    BY DEF Evaluate
  <1>2. Observed(watch, s)
    BY <1>1, ObservationIs DEF WatchInv
  <1>0. answer = Answered(s)
    OBVIOUS
  <1> HIDE DEF s
  <1>3. /\ History(watch, seen) /\ History(watch, seen') /\ Len(seen) \in Nat
        /\ Len(seen') = Len(seen) + 1 /\ seen'[Len(seen) + 1] = s
    BY <1>1, <1>2, HistoryGrows DEF WatchInv
  <1>4. watch \in Watches
    BY DEF WatchInv, ReadInv, ReadType
  <1>5. ASSUME watch.primitive = "delta"
        PROVE  DeltaTruth'
    <2>1. memory = TicksOf(watch, seen)
      <3>1. CASE seen = <<>>
        BY <1>5, <3>1 DEF WatchInv, DeltaTruth, NoTicks, TicksOf, KeptOf
      <3>2. CASE seen # <<>>
        BY <1>5, <3>2 DEF WatchInv, DeltaTruth, DeltaAnswers
      <3>3. QED
        BY <3>1, <3>2
    <2>2. answer = Delta(watch, TicksOf(watch, seen), s)
      BY <1>0, <1>5, <2>1 DEF Answered
    <2> HIDE DEF answer
    <2>3. DeltaAnswers(watch, seen', answer)
      BY <1>1, <1>2, <1>3, <1>4, <1>5, <2>2, DeltaIs DEF IsDelta
    <2>4. DeltaAnswers(watch, seen', [memory |-> memory', outcome |-> outcome'])
      BY <1>1, <2>3 DEF DeltaAnswers
    <2>5. seen' # <<>>
      BY <1>3
    <2>6. QED
      BY <1>1, <2>4, <2>5 DEF DeltaTruth
  <1>6. ASSUME watch.primitive = "liveness"
        PROVE  LivenessTruth'
    <2>1. Anchored(seen, memory)
      BY <1>6 DEF WatchInv, LivenessTruth, LivenessAnswers, Anchored
    <2>2. answer = Liveness(watch, memory, s)
      BY <1>0, <1>6 DEF Answered
    <2> HIDE DEF answer
    <2>3. PICK i \in 1..(Len(seen) + 1) : LivenessAnswers(watch, seen', i, answer)
      BY <1>1, <1>2, <1>3, <1>4, <1>6, <2>1, <2>2, LivenessIs DEF IsLiveness
    <2>4. LivenessAnswers(watch, seen', i, [memory |-> memory', outcome |-> outcome'])
      BY <1>1, <2>3 DEF LivenessAnswers
    <2>5. seen' # <<>>
      BY <1>3
    <2>6. QED
      BY <1>1, <1>3, <2>4, <2>5 DEF LivenessTruth
  <1>7. QED
    BY <1>1, <1>3, <1>5, <1>6 DEF WatchInv

LEMMA WatchInvStep ==
    ASSUME WatchAssumption, WatchInv, [Next]_watchVars
    PROVE  WatchInv'
  <1>1. ReadInv'
    BY ReadInvStep DEF WatchInv
  <1>2. CASE Evaluate
    BY <1>1, <1>2, EvaluateKeeps
  <1>3. CASE UNCHANGED <<watch, memory, outcome, seen>>
    BY <1>1, <1>3 DEF WatchInv, DeltaTruth, LivenessTruth
  <1>4. QED
    BY <1>2, <1>3 DEF Next, Unwatched, watchVars

\* The code's answers are those of the reference definitions.
LEMMA DeltaTruthImplies ==
    ASSUME WatchInv
    PROVE  DeltaAgrees
  <1>1. \A b : Coordinate(b) = CoordinateOf(watch, b)
    BY DEF Coordinate, CoordinateOf
  <1>2. \A i : StillInside(i) <=> InsideOf(watch, seen, i)
    BY <1>1 DEF StillInside, InsideOf, Last
  <1>3. Baseline = BaselineOf(watch, seen)
    BY DEF Baseline, BaselineOf, StillInside, InsideOf, Coordinate, CoordinateOf, Last
  <1>4. \A from, to : Far(from, to) <=> FarOf(watch, from, to)
    BY DEF Far, FarOf, Lowest, Highest
  <1>5. Last > 0 => seen # <<>>
    BY DEF Last
  <1>6. QED
    BY <1>3, <1>4, <1>5 DEF WatchInv, DeltaTruth, DeltaAnswers, DeltaAgrees, Last

LEMMA LivenessTruthImplies ==
    ASSUME WatchInv
    PROVE  LivenessAgrees
  <1> SUFFICES ASSUME watch.primitive = "liveness", Last > 0
               PROVE  /\ outcome = "raises" <=> Placeless /\ Since < Last
                      /\ outcome = "match" <=>
                            /\ ~Placeless /\ Silence >= watch.size
                            /\ Since = Last => Last = 1 /\ seen[Last].value > 0
    BY DEF LivenessAgrees
  <1>1. Len(seen) \in Nat /\ Len(seen) > 0 /\ seen # <<>>
    BY DEF Last, WatchInv, History
  <1>2. PICK i \in 1..Len(seen) :
            LivenessAnswers(watch, seen, i, [memory |-> memory, outcome |-> outcome])
    BY <1>1 DEF WatchInv, LivenessTruth
  <1>3. SinceOf(seen, i)
    BY <1>2 DEF LivenessAnswers, AnchorIs
  <1>4. Since = i
    <2>1. Since = CHOOSE k \in 1..Len(seen) : SinceOf(seen, k)
      BY DEF Since, SinceOf, Last
    <2>2. SinceOf(seen, Since)
      BY <1>2, <1>3, <2>1
    <2>3. QED
      BY <1>1, <1>3, <2>2, SinceIsOne
  <1>5. Placeless <=> PlacelessOf(watch, seen)
    BY DEF Placeless, PlacelessOf, Last
  <1>6. Activity(seen[i]) = ActivityOf(watch, seen[i])
    BY DEF Activity, ActivityOf, Coordinate, CoordinateOf
  <1>7. Silence = SilenceOf(watch, seen, i)
    BY <1>4, <1>6 DEF Silence, SilenceOf, Coordinate, CoordinateOf, Last
  <1>8. QED
    BY <1>2, <1>4, <1>5, <1>7 DEF LivenessAnswers, Last

LEMMA WatchInvAlways ==
    ASSUME WatchAssumption
    PROVE  Spec => []WatchInv
  <1>1. Init => WatchInv
    BY WatchInvInit
  <1>2. WatchInv /\ [Next]_watchVars => WatchInv'
    BY WatchInvStep
  <1>3. QED
    BY <1>1, <1>2, PTL DEF Spec

\* A delta matches exactly when the newest value is as far as was asked from the
\* oldest one that has stayed inside the window.  A liveness watch matches exactly
\* when the silence since the activity that the marker's first observation told of
\* is as long as was asked, but when the marker has just changed or was zero at
\* first; and it raises exactly at the second observation of a zero marker in
\* epochs.  For every window, target and unit, for every history of observations
\* over a chain that moves at will, and whatever the reads make up.
THEOREM MatchesAreTrue ==
    ASSUME WatchAssumption
    PROVE  Spec => []MatchIsTrue
  <1>1. WatchInv => MatchIsTrue
    BY DeltaTruthImplies, LivenessTruthImplies DEF MatchIsTrue
  <1>2. QED
    BY <1>1, WatchInvAlways, PTL

=============================================================================
