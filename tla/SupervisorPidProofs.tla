-------------------------- MODULE SupervisorPidProofs --------------------------
(***************************************************************************)
(* While claims do not overlap and the fingerprint probe does not fail,    *)
(* the pid file does what it is for, with any number of processes and any  *)
(* number of inodes: one supervisor, always visible, and a claim refused   *)
(* only while another supervisor runs.  The exclusiveness that DurableJobs *)
(* takes as ExclusiveSupervisor is this theorem's conclusion.              *)
(***************************************************************************)
EXTENDS SupervisorPid, TLAPS

Holding == {"write", "read", "judge", "stat", "unlink"}

\* What TypeOK needs to be inductive: a process past its open has an inode, and
\* the loop of two attempts is left after the second.
ClaimTypes ==
    /\ TypeOK
    /\ \A p \in Processes : pc[p] \in Holding => seen[p] \in Inodes
    /\ \A p \in Processes : pc[p] \in Claiming \cup {"unborn"} => attempt[p] <= MaxAttempts

\* One step keeps the types, whoever takes it.
LEMMA ClaimTypesStep ==
    ASSUME ClaimTypes, [Next]_vars
    PROVE  ClaimTypes'
  <1> USE DEF ClaimTypes, TypeOK, MaxAttempts, Claiming, Owner, Holding, Goto
  <1>1. CASE UNCHANGED vars
    BY <1>1 DEF vars
  <1>2. ASSUME NEW p \in Processes,
               CreateExclusive(p) \/ WriteRecord(p) \/ FileExists(p) \/ OpenExisting(p)
        PROVE  ClaimTypes'
    <2>1. CASE CreateExclusive(p)
      BY <2>1 DEF CreateExclusive
    <2>2. CASE WriteRecord(p)
      BY <2>2 DEF WriteRecord
    <2>3. CASE FileExists(p)
      BY <2>3 DEF FileExists
    <2>4. CASE OpenExisting(p)
      BY <2>4 DEF OpenExisting
    <2>5. QED
      BY <1>2, <2>1, <2>2, <2>3, <2>4
  <1>3. ASSUME NEW p \in Processes,
               ReadExisting(p) \/ Yield(p) \/ JudgeStale(p) \/ StatSame(p)
        PROVE  ClaimTypes'
    <2>1. CASE ReadExisting(p)
      <3>1. content[seen[p]] \in Processes \cup {Empty}
        BY <2>1 DEF ReadExisting
      <3>2. QED
        BY <2>1, <3>1 DEF ReadExisting
    <2>2. CASE Yield(p)
      BY <2>2 DEF Yield
    <2>3. CASE JudgeStale(p)
      BY <2>3 DEF JudgeStale
    <2>4. CASE StatSame(p)
      BY <2>4 DEF StatSame
    <2>5. QED
      BY <1>3, <2>1, <2>2, <2>3, <2>4
  <1>4. ASSUME NEW p \in Processes, OpenVanished(p) \/ StatChanged(p) \/ UnlinkStale(p)
        PROVE  ClaimTypes'
    <2>1. attempt[p] \in 1 .. MaxAttempts
      BY <1>4 DEF OpenVanished, StatChanged, UnlinkStale
    <2>2. CASE OpenVanished(p)
      BY <2>1, <2>2 DEF OpenVanished, NextAttempt
    <2>3. CASE StatChanged(p)
      BY <2>1, <2>3 DEF StatChanged, NextAttempt
    <2>4. CASE UnlinkStale(p)
      BY <2>1, <2>4 DEF UnlinkStale, NextAttempt
    <2>5. QED
      BY <1>4, <2>2, <2>3, <2>4
  <1>5. ASSUME NEW p \in Processes, Start(p) \/ ReleaseStep(p) \/ Dies(p)
        PROVE  ClaimTypes'
    <2>1. CASE Start(p)
      BY <2>1 DEF Start
    <2>2. CASE ReleaseStep(p)
      BY <2>2 DEF ReleaseStep, BeginRelease, ReleaseReads, ReleaseUnlinks
    <2>3. CASE Dies(p)
      BY <2>3 DEF Dies
    <2>4. QED
      BY <1>5, <2>1, <2>2, <2>3
  <1>6. QED
    BY <1>1, <1>2, <1>3, <1>4, <1>5 DEF Next, ClaimStep

\* Initially nobody claims.
LEMMA ClaimTypesInit == Init => ClaimTypes
  BY DEF Init, ClaimTypes, TypeOK, MaxAttempts, Claiming, Owner, Holding

\* The types hold for overlapping claims and failing probes as well.
THEOREM PidTyped == Spec => []TypeOK
  <1>1. ClaimTypes => TypeOK
    BY DEF ClaimTypes
  <1>2. ClaimTypes /\ [Next]_vars => ClaimTypes'
    BY ClaimTypesStep
  <1>3. QED
    BY <1>1, <1>2, ClaimTypesInit, PTL DEF Spec

-----------------------------------------------------------------------------
(***************************************************************************)
(* Exclusion.  A claim that got past reading the file knows what became of *)
(* any owner there was, because no second claim can have created one.      *)
(***************************************************************************)
NoOwner == \A q \in Processes : pc[q] \notin Owner

OneClaim ==
    \A p, q \in Processes : pc[p] \in Claiming /\ pc[q] \in Claiming => p = q

\* What the one claim under way knows at each label.
ClaimKnows(p) ==
    /\ pc[p] = "write" => NoOwner /\ path = seen[p]
    /\ pc[p] \in {"read", "judge", "stat", "unlink"} => path \in {seen[p], NoFile}
    /\ pc[p] = "judge" => \A q \in Processes : pc[q] \in Owner => record[p] = q
    /\ pc[p] \in {"stat", "unlink"} => NoOwner
    /\ pc[p] \in Claiming /\ attempt[p] = MaxAttempts =>
          pc[p] \in {"open", "write"} /\ (pc[p] = "open" => path = NoFile)
    /\ pc[p] = "unborn" => attempt[p] = 1

\* A name in a file, or read from one, is that of a process that has owned it.
OnlyOwnersNamed ==
    /\ \A i \in Inodes : content[i] \in Processes =>
          pc[content[i]] \in Owner \cup {"gone", "dead"}
    /\ \A p \in Processes : record[p] \in Processes =>
          pc[record[p]] \in Owner \cup {"gone", "dead"}

PidInv ==
    /\ OneClaim
    /\ SupervisorIsVisible
    /\ \A p \in Processes : ClaimKnows(p)
    /\ OnlyOwnersNamed

\* A file left by an earlier boot names nobody that lives.
LEMMA PidInit == Init => PidInv
  BY PidAssumption
     DEF Init, PidInv, OneClaim, SupervisorIsVisible, ClaimKnows, OnlyOwnersNamed,
         Claiming, Owner, MaxAttempts

\* Owners are visible, hence at most one.
LEMMA OneOwner ==
    ASSUME SupervisorIsVisible
    PROVE  AtMostOneSupervisor
  BY DEF SupervisorIsVisible, AtMostOneSupervisor

\* While one process claims, the others neither claim nor become owners, so the
\* whole invariant follows from what the claiming process did.
LEMMA ClaimFrame ==
    ASSUME ClaimTypes, PidInv, NEW p \in Processes, pc[p] \in Claiming,
           \A q \in Processes \ {p} : pc'[q] = pc[q] /\ attempt'[q] = attempt[q],
           SupervisorIsVisible', ClaimKnows(p)', OnlyOwnersNamed'
    PROVE  PidInv'
  <1>1. \A q \in Processes \ {p} : pc'[q] \notin Claiming
    BY DEF PidInv, OneClaim
  <1>2. OneClaim'
    BY <1>1 DEF OneClaim
  <1>3. \A q \in Processes \ {p} : ClaimKnows(q)'
    BY <1>1 DEF ClaimKnows, Claiming, PidInv
  <1>4. QED
    BY <1>2, <1>3 DEF PidInv

\* The steps of the claiming process that leave the file system alone.
LEMMA ReadingKeepsPidInv ==
    ASSUME ClaimTypes, PidInv, ~ProbeMayFail, NEW p \in Processes,
           \/ FileExists(p) \/ OpenExisting(p) \/ ReadExisting(p)
           \/ Yield(p) \/ JudgeStale(p) \/ StatSame(p)
    PROVE  PidInv'
  <1> USE DEF ClaimTypes, TypeOK, PidInv, Goto
  <1>1. pc[p] \in Claiming /\ UNCHANGED <<path, content, attempt>>
    BY DEF FileExists, OpenExisting, ReadExisting, Yield, JudgeStale, StatSame, Claiming
  <1>2. /\ \A q \in Processes \ {p} : pc'[q] = pc[q] /\ record'[q] = record[q]
        /\ pc'[p] \in {"exists", "read", "judge", "refused", "stat", "unlink"}
    BY DEF FileExists, OpenExisting, ReadExisting, Yield, JudgeStale, StatSame
  <1>3. \A q \in Processes : pc'[q] \in Owner <=> pc[q] \in Owner
    BY <1>1, <1>2 DEF Claiming, Owner
  <1>4. SupervisorIsVisible'
    BY <1>1, <1>3 DEF SupervisorIsVisible, Recorded
  <1>5. record'[p] = record[p] \/ (ReadExisting(p) /\ record'[p] = content[seen[p]])
    BY DEF FileExists, OpenExisting, ReadExisting, Yield, JudgeStale, StatSame
  <1>6. OnlyOwnersNamed'
    <2>1. \A r \in Processes :
             pc[r] \in Owner \cup {"gone", "dead"} => pc'[r] \in Owner \cup {"gone", "dead"}
      BY <1>1, <1>2 DEF Claiming, Owner
    <2>2. \A i \in Inodes : content'[i] \in Processes =>
             pc'[content'[i]] \in Owner \cup {"gone", "dead"}
      BY <1>1, <2>1 DEF OnlyOwnersNamed
    <2>3. record'[p] \in Processes => pc'[record'[p]] \in Owner \cup {"gone", "dead"}
      BY <1>5, <2>1 DEF OnlyOwnersNamed, ReadExisting, Holding
    <2>4. \A q \in Processes \ {p} : record'[q] \in Processes =>
             pc'[record'[q]] \in Owner \cup {"gone", "dead"}
      BY <1>2, <2>1 DEF OnlyOwnersNamed
    <2>5. QED
      BY <2>2, <2>3, <2>4 DEF OnlyOwnersNamed
  <1>7. ClaimKnows(p)'
    <2> USE DEF ClaimKnows, Claiming, MaxAttempts
    <2>1. CASE FileExists(p)
      BY <1>1, <2>1 DEF FileExists
    <2>2. CASE OpenExisting(p)
      BY <1>1, <2>2 DEF OpenExisting
    <2>3. CASE ReadExisting(p)
      <3>1. ASSUME NEW q \in Processes, pc[q] \in Owner
            PROVE  content[seen[p]] = q
        BY <2>3, <3>1, PidAssumption DEF ReadExisting, SupervisorIsVisible, Recorded
      <3>2. QED
        BY <1>1, <1>3, <2>3, <3>1 DEF ReadExisting
    <2>4. CASE Yield(p)
      BY <1>1, <2>4 DEF Yield
    <2>5. CASE JudgeStale(p)
      <3>1. record[p] \notin Living
        BY <2>5 DEF JudgeStale, MaySeeDead
      <3>2. ASSUME NEW q \in Processes, pc[q] \in Owner
            PROVE  FALSE
        BY <2>5, <3>1, <3>2 DEF JudgeStale, Living
      <3>3. QED
        BY <1>1, <1>3, <2>5, <3>2 DEF JudgeStale, NoOwner
    <2>6. CASE StatSame(p)
      BY <1>1, <1>3, <2>6 DEF StatSame, NoOwner
    <2>7. QED
      BY <2>1, <2>2, <2>3, <2>4, <2>5, <2>6
  <1>8. QED
    BY <1>1, <1>2, <1>4, <1>6, <1>7, ClaimFrame

\* The steps that change the directory or the file, or begin the next attempt:
\* no owner is there to be disturbed, or (OpenVanished, StatChanged) the name is
\* already gone.
LEMMA WritingKeepsPidInv ==
    ASSUME ClaimTypes, PidInv, NEW p \in Processes,
           \/ CreateExclusive(p) \/ WriteRecord(p)
           \/ OpenVanished(p) \/ StatChanged(p) \/ UnlinkStale(p)
    PROVE  PidInv'
  <1> USE DEF ClaimTypes, TypeOK, PidInv, Goto
  <1>1. pc[p] \in Claiming /\ UNCHANGED record
    BY DEF CreateExclusive, WriteRecord, OpenVanished, StatChanged, UnlinkStale, Claiming
  <1>2. \A q \in Processes \ {p} : pc'[q] = pc[q] /\ attempt'[q] = attempt[q]
    BY DEF CreateExclusive, WriteRecord, OpenVanished, StatChanged, UnlinkStale, NextAttempt
  <1>3. \A r \in Processes :
           pc[r] \in Owner \cup {"gone", "dead"} => pc'[r] \in Owner \cup {"gone", "dead"}
    BY <1>1, <1>2 DEF Claiming, Owner
  <1>4. CASE CreateExclusive(p)
    <2>1. NoOwner
      BY <1>4, PidAssumption DEF CreateExclusive, NoOwner, SupervisorIsVisible, Recorded
    <2>2. /\ NoOwner' /\ path' = seen'[p] /\ pc'[p] = "write"
          /\ \A i \in Inodes : content'[i] = content[i] \/ content'[i] = Empty
      BY <1>4, <2>1 DEF CreateExclusive, NoOwner, Owner
    <2>3. OnlyOwnersNamed'
      BY <1>1, <1>3, <2>2, PidAssumption DEF OnlyOwnersNamed
    <2>4. ClaimKnows(p)'
      BY <1>4, <2>2 DEF ClaimKnows, CreateExclusive
    <2>5. SupervisorIsVisible'
      BY <2>2 DEF SupervisorIsVisible, NoOwner
    <2>6. QED
      BY <1>1, <1>2, <2>3, <2>4, <2>5, ClaimFrame
  <1>5. CASE WriteRecord(p)
    <2>1. NoOwner /\ path = seen[p] /\ path \in Inodes
      BY <1>5 DEF WriteRecord, ClaimKnows, Holding
    <2>2. /\ pc'[p] = "owner" /\ path' = path /\ content'[path] = p
          /\ \A i \in Inodes \ {path} : content'[i] = content[i]
      BY <1>5, <2>1 DEF WriteRecord
    <2>3. OnlyOwnersNamed'
      <3>1. \A i \in Inodes : content'[i] \in Processes =>
               pc'[content'[i]] \in Owner \cup {"gone", "dead"}
        BY <1>3, <2>2 DEF OnlyOwnersNamed, Owner
      <3>2. QED
        BY <1>1, <1>3, <3>1 DEF OnlyOwnersNamed
    <2>4. ClaimKnows(p)'
      BY <2>2 DEF ClaimKnows, Claiming
    <2>5. SupervisorIsVisible'
      BY <1>2, <2>1, <2>2, PidAssumption DEF SupervisorIsVisible, NoOwner, Recorded
    <2>6. QED
      BY <1>1, <1>2, <2>3, <2>4, <2>5, ClaimFrame
  <1>6. CASE OpenVanished(p) \/ StatChanged(p) \/ UnlinkStale(p)
    <2>1. NoOwner
      <3>1. CASE OpenVanished(p)
        BY <3>1, PidAssumption DEF OpenVanished, NoOwner, SupervisorIsVisible, Recorded
      <3>2. CASE StatChanged(p) \/ UnlinkStale(p)
        BY <3>2 DEF StatChanged, UnlinkStale, ClaimKnows
      <3>3. QED
        BY <1>6, <3>1, <3>2
    <2>2. attempt[p] = 1 /\ path' = NoFile /\ UNCHANGED content
      BY <1>6
         DEF OpenVanished, StatChanged, UnlinkStale, ClaimKnows, Claiming, MaxAttempts
    <2>3. pc'[p] = "open" /\ attempt'[p] = 2
      BY <1>6, <2>2 DEF OpenVanished, StatChanged, UnlinkStale, NextAttempt, MaxAttempts
    <2>4. NoOwner'
      BY <1>2, <2>1, <2>3 DEF NoOwner, Owner
    <2>5. OnlyOwnersNamed'
      BY <1>1, <1>3, <2>2 DEF OnlyOwnersNamed
    <2>6. ClaimKnows(p)'
      BY <2>2, <2>3 DEF ClaimKnows
    <2>7. SupervisorIsVisible'
      BY <2>4 DEF SupervisorIsVisible, NoOwner
    <2>8. QED
      BY <1>1, <1>2, <2>5, <2>6, <2>7, ClaimFrame
  <1>7. QED
    BY <1>4, <1>5, <1>6

\* An owner that releases, or a process that is killed, only leaves things; an
\* owner's unlink leaves no owner behind.
LEMMA LeavingKeepsPidInv ==
    ASSUME ClaimTypes, PidInv, NEW p \in Processes, ReleaseStep(p) \/ Dies(p)
    PROVE  PidInv'
  <1> USE DEF ClaimTypes, TypeOK, PidInv, Goto
  <1>1. /\ UNCHANGED <<content, attempt, record>>
        /\ \A q \in Processes \ {p} : pc'[q] = pc[q] /\ seen'[q] = seen[q]
        /\ pc'[p] \in Owner \cup {"gone", "dead"}
    BY DEF ReleaseStep, BeginRelease, ReleaseReads, ReleaseUnlinks, Dies, Owner
  <1>2. \A q \in Processes : pc'[q] \in Owner => pc[q] \in Owner
    BY <1>1 DEF ReleaseStep, BeginRelease, ReleaseReads, ReleaseUnlinks, Dies, Owner
  <1>3. path' = path \/ (path' = NoFile /\ NoOwner')
    <2>1. CASE ReleaseUnlinks(p)
      <3>1. \A q \in Processes : pc[q] \in Owner => q = p
        BY <2>1, OneOwner DEF AtMostOneSupervisor, ReleaseUnlinks, Owner
      <3>2. QED
        BY <1>2, <2>1, <3>1 DEF ReleaseUnlinks, NoOwner, Owner
    <2>2. CASE ~ReleaseUnlinks(p)
      BY <2>2 DEF ReleaseStep, BeginRelease, ReleaseReads, Dies
    <2>3. QED
      BY <2>1, <2>2
  <1>4. SupervisorIsVisible'
    BY <1>1, <1>2, <1>3 DEF SupervisorIsVisible, NoOwner, Recorded
  <1>5. OnlyOwnersNamed'
    BY <1>1 DEF OnlyOwnersNamed
  <1>6. pc'[p] \notin Claiming
    BY <1>1 DEF Claiming, Owner
  <1>7. OneClaim'
    BY <1>1, <1>6 DEF OneClaim
  <1>8. ASSUME NEW q \in Processes
        PROVE  ClaimKnows(q)'
    <2>1. CASE q = p
      BY <1>1, <1>6, <2>1 DEF ClaimKnows, Claiming, Owner
    <2>2. CASE q # p /\ pc[q] # "write"
      BY <1>1, <1>2, <1>3, <2>2 DEF ClaimKnows, NoOwner
    <2>3. CASE q # p /\ pc[q] = "write"
      <3>1. ~ReleaseUnlinks(p)
        BY <2>3 DEF ClaimKnows, NoOwner, ReleaseUnlinks, Owner
      <3>2. path' = path
        BY <3>1 DEF ReleaseStep, BeginRelease, ReleaseReads, Dies
      <3>3. QED
        BY <1>1, <1>2, <2>3, <3>2 DEF ClaimKnows, NoOwner
    <2>4. QED
      BY <2>1, <2>2, <2>3
  <1>9. QED
    BY <1>4, <1>5, <1>7, <1>8

\* A claim begins, knowing nothing; no other is under way.
LEMMA StartKeepsPidInv ==
    ASSUME ClaimTypes, PidInv, SerialClaims, ~ProbeMayFail, NEW p \in Processes, Start(p)
    PROVE  PidInv'
  <1> USE DEF ClaimTypes, TypeOK, PidInv, Goto
  <1>1. /\ pc[p] = "unborn" /\ pc'[p] = "open"
        /\ \A q \in Processes \ {p} : pc'[q] = pc[q] /\ pc[q] \notin Claiming
        /\ UNCHANGED <<path, content, attempt, seen, record>>
    BY DEF Start
  <1>2. \A q \in Processes : pc'[q] \in Owner <=> pc[q] \in Owner
    BY <1>1 DEF Owner
  <1>3. OneClaim'
    BY <1>1 DEF OneClaim
  <1>4. SupervisorIsVisible'
    BY <1>1, <1>2 DEF SupervisorIsVisible, Recorded
  <1>5. OnlyOwnersNamed'
    BY <1>1 DEF OnlyOwnersNamed, Owner
  <1>6. \A q \in Processes : ClaimKnows(q)'
    BY <1>1 DEF ClaimKnows, Claiming, MaxAttempts
  <1>7. QED
    BY <1>3, <1>4, <1>5, <1>6

\* Every step keeps the exclusion invariant.
LEMMA PidStep ==
    ASSUME ClaimTypes, PidInv, SerialClaims, ~ProbeMayFail, [Next]_vars
    PROVE  PidInv'
  <1>1. CASE UNCHANGED vars
    BY <1>1
       DEF vars, PidInv, OneClaim, SupervisorIsVisible, ClaimKnows, OnlyOwnersNamed,
           NoOwner, Recorded
  <1>2. QED
    BY <1>1, ReadingKeepsPidInv, WritingKeepsPidInv, LeavingKeepsPidInv, StartKeepsPidInv
       DEF Next, ClaimStep

\* Claims that do not overlap exclude one another: at most one supervisor
\* runs, and daemon.pid names it (_claim_daemon_pid, _release_daemon_pid).
THEOREM SupervisorExclusion ==
    ASSUME SerialClaims, ~ProbeMayFail
    PROVE  Spec => [](AtMostOneSupervisor /\ SupervisorIsVisible)
  <1>1. ClaimTypes /\ PidInv /\ [Next]_vars => (ClaimTypes /\ PidInv)'
    BY ClaimTypesStep, PidStep
  <1>2. PidInv => AtMostOneSupervisor /\ SupervisorIsVisible
    BY OneOwner DEF PidInv
  <1>3. QED
    BY <1>1, <1>2, ClaimTypesInit, PidInit, PTL DEF Spec

\* With claims that do not overlap, only Yield refuses, to an owner.
LEMMA RefusalStep ==
    ASSUME ClaimTypes, PidInv, ~ProbeMayFail, [Next]_vars, NEW p \in Processes,
           pc[p] # "refused", pc'[p] = "refused"
    PROVE  \E q \in Processes \ {p} : pc[q] \in Owner
  <1> USE DEF ClaimTypes, TypeOK, PidInv, Goto
  <1>1. Yield(p) \/ OpenVanished(p) \/ StatChanged(p) \/ UnlinkStale(p)
    BY DEF Next, vars, Start, ClaimStep, CreateExclusive, WriteRecord, FileExists,
           OpenExisting, ReadExisting, JudgeStale, StatSame, ReleaseStep, BeginRelease,
           ReleaseReads, ReleaseUnlinks, Dies, Yield, OpenVanished, StatChanged,
           UnlinkStale, NextAttempt
  <1>2. ~(OpenVanished(p) \/ StatChanged(p) \/ UnlinkStale(p))
    <2>1. SUFFICES ASSUME OpenVanished(p) \/ StatChanged(p) \/ UnlinkStale(p)
                   PROVE  FALSE
      OBVIOUS
    <2>2. attempt[p] = 1
      BY <2>1
         DEF OpenVanished, StatChanged, UnlinkStale, ClaimKnows, Claiming, MaxAttempts
    <2>3. QED
      BY <2>1, <2>2 DEF OpenVanished, StatChanged, UnlinkStale, NextAttempt, MaxAttempts
  <1>3. pc[p] = "judge" /\ record[p] \in Living
    BY <1>1, <1>2 DEF Yield, MaySeeAlive
  <1>4. record[p] \in Processes /\ pc[record[p]] \in Owner
    BY <1>3 DEF Living, OnlyOwnersNamed, Claiming, Owner
  <1>5. QED
    BY <1>3, <1>4 DEF Owner

\* Under the same conditions a claim is refused only in favour of another
\* supervisor that runs: stale files never keep a supervisor from starting.
THEOREM RefusalIsJustified ==
    ASSUME SerialClaims, ~ProbeMayFail
    PROVE  Spec => RefusedOnlyForOwner
  <1>1. ClaimTypes /\ PidInv /\ [Next]_vars => (ClaimTypes /\ PidInv)'
    BY ClaimTypesStep, PidStep
  <1>2. ClaimTypes /\ PidInv /\ [Next]_vars
        => [\A p \in Processes :
              pc[p] # "refused" /\ pc'[p] = "refused"
              => \E q \in Processes \ {p} : pc[q] \in Owner]_vars
    BY RefusalStep
  <1>3. QED
    BY <1>1, <1>2, ClaimTypesInit, PidInit, PTL DEF Spec, RefusedOnlyForOwner

-----------------------------------------------------------------------------
(***************************************************************************)
(* Overlapping claims.  They may end with two supervisors, but never with  *)
(* none: until a first process has created a file of its own, the only     *)
(* file there can be is one left by an earlier boot.  It names nobody, so  *)
(* no claim yields to it; once it is gone nothing puts it back, so a second*)
(* attempt finds the name free.  Nothing is assumed of the probe.          *)
(***************************************************************************)
NobodyWon ==
    \A p \in Processes : pc[p] \notin {"write", "gone", "dead"} \cup Owner

\* Until somebody has won: no record is written or read, and ...
OnlyLeftOver ==
    /\ \A i \in Inodes : content[i] = Empty
    /\ \A p \in Processes : record[p] = Empty

\* ... no claim is lost; the left-over file is the one that was opened, or it is
\* gone, as it is whenever a claim makes its second attempt.
MayStillWin(p) ==
    /\ pc[p] # "refused"
    /\ pc[p] \in {"read", "judge", "stat", "unlink"} => path \in {seen[p], NoFile}
    /\ pc[p] = "unborn" => attempt[p] = 1
    /\ pc[p] \in Claiming => \/ attempt[p] = 1
                             \/ pc[p] = "open" /\ path = NoFile

NobodyLost ==
    NobodyWon => OnlyLeftOver /\ \A p \in Processes : MayStillWin(p)

LEMMA NobodyLostInit == Init => NobodyLost
  BY DEF Init, NobodyLost, OnlyLeftOver, MayStillWin

\* A process that has created the file, owned it, left or died never claims again.
LEMMA WonForGood ==
    ASSUME ClaimTypes, [Next]_vars, NobodyWon'
    PROVE  NobodyWon
  <1> USE DEF ClaimTypes, TypeOK, NobodyWon, Goto, Owner
  <1>1. ASSUME NEW p \in Processes, pc[p] \in {"write", "gone", "dead"} \cup Owner
        PROVE  pc'[p] \in {"write", "gone", "dead"} \cup Owner
    <2>1. CASE UNCHANGED vars
      BY <1>1, <2>1 DEF vars
    <2>2. ASSUME NEW q \in Processes, Start(q) \/ ClaimStep(q)
          PROVE  pc'[p] \in {"write", "gone", "dead"} \cup Owner
      <3>1. CASE p # q
        BY <1>1, <2>2, <3>1
           DEF Start, ClaimStep, CreateExclusive, WriteRecord, FileExists, OpenExisting,
               OpenVanished, ReadExisting, Yield, JudgeStale, StatSame, StatChanged,
               UnlinkStale, NextAttempt
      <3>2. CASE p = q
        BY <1>1, <2>2, <3>2
           DEF Start, ClaimStep, CreateExclusive, WriteRecord, FileExists, OpenExisting,
               OpenVanished, ReadExisting, Yield, JudgeStale, StatSame, StatChanged,
               UnlinkStale
      <3>3. QED
        BY <3>1, <3>2
    <2>3. ASSUME NEW q \in Processes, ReleaseStep(q) \/ Dies(q)
          PROVE  pc'[p] \in {"write", "gone", "dead"} \cup Owner
      BY <1>1, <2>3 DEF ReleaseStep, BeginRelease, ReleaseReads, ReleaseUnlinks, Dies
    <2>4. QED
      BY <2>1, <2>2, <2>3 DEF Next
  <1>2. QED
    BY <1>1

\* The steps that leave nobody the winner only lose the left-over file.
LEMMA NobodyLostStep ==
    ASSUME ClaimTypes, NobodyLost, [Next]_vars
    PROVE  NobodyLost'
  <1>1. SUFFICES ASSUME NobodyWon'
                 PROVE  OnlyLeftOver' /\ \A p \in Processes : MayStillWin(p)'
    BY DEF NobodyLost
  <1>2. NobodyWon /\ OnlyLeftOver /\ \A p \in Processes : MayStillWin(p)
    BY <1>1, WonForGood DEF NobodyLost
  <1> USE DEF ClaimTypes, TypeOK, Goto
  <1>3. CASE UNCHANGED vars
    BY <1>2, <1>3 DEF vars, OnlyLeftOver, MayStillWin
  <1>4. ASSUME NEW p \in Processes,
               Start(p) \/ ClaimStep(p) \/ ReleaseStep(p) \/ Dies(p)
        PROVE  OnlyLeftOver' /\ \A q \in Processes : MayStillWin(q)'
    <2>1. pc'[p] \notin {"write", "gone", "dead"} \cup Owner
      BY <1>1 DEF NobodyWon
    <2>2. ~CreateExclusive(p) /\ ~WriteRecord(p) /\ ~ReleaseStep(p) /\ ~Dies(p)
      BY <2>1 DEF CreateExclusive, WriteRecord, ReleaseStep, BeginRelease, ReleaseReads,
                  ReleaseUnlinks, Dies, Owner
    <2>3. ~Yield(p)
      BY <1>2, PidAssumption DEF Yield, MaySeeAlive, Living, OnlyLeftOver
    <2>4. CASE Start(p) \/ FileExists(p) \/ OpenExisting(p)
      <3>1. /\ UNCHANGED <<path, content, record, attempt>>
            /\ \A q \in Processes \ {p} : pc'[q] = pc[q] /\ seen'[q] = seen[q]
        BY <2>4 DEF Start, FileExists, OpenExisting
      <3>2. MayStillWin(p)'
        BY <1>2, <2>1, <2>4
           DEF Start, FileExists, OpenExisting, MayStillWin, Claiming
      <3>3. QED
        BY <1>2, <3>1, <3>2 DEF OnlyLeftOver, MayStillWin
    <2>5. CASE ReadExisting(p) \/ JudgeStale(p) \/ StatSame(p)
      <3>1. /\ UNCHANGED <<path, content, attempt, seen>>
            /\ \A q \in Processes \ {p} : pc'[q] = pc[q] /\ record'[q] = record[q]
        BY <2>5 DEF ReadExisting, JudgeStale, StatSame
      <3>2. record'[p] = Empty
        BY <1>2, <2>5 DEF ReadExisting, JudgeStale, StatSame, OnlyLeftOver, Holding
      <3>3. MayStillWin(p)'
        BY <1>2, <2>5 DEF ReadExisting, JudgeStale, StatSame, MayStillWin, Claiming
      <3>4. QED
        BY <1>2, <3>1, <3>2, <3>3 DEF OnlyLeftOver, MayStillWin
    <2>6. CASE OpenVanished(p) \/ StatChanged(p) \/ UnlinkStale(p)
      <3>1. attempt[p] = 1
        BY <1>2, <2>6 DEF OpenVanished, StatChanged, UnlinkStale, MayStillWin, Claiming
      <3>2. /\ path' = NoFile /\ UNCHANGED <<content, record>>
            /\ \A q \in Processes \ {p} : pc'[q] = pc[q] /\ attempt'[q] = attempt[q]
        BY <1>2, <2>6
           DEF OpenVanished, StatChanged, UnlinkStale, NextAttempt, MayStillWin
      <3>3. pc'[p] = "open"
        BY <2>6, <3>1
           DEF OpenVanished, StatChanged, UnlinkStale, NextAttempt, MaxAttempts
      <3>4. QED
        BY <1>2, <3>2, <3>3 DEF OnlyLeftOver, MayStillWin
    <2>7. QED
      BY <1>4, <2>2, <2>3, <2>4, <2>5, <2>6 DEF ClaimStep
  <1>5. QED
    BY <1>3, <1>4 DEF Next

\* However many claims collide, and whatever the probe answers, they do not all
\* lose: a claim is refused only when somebody got further (_claim_daemon_pid).
THEOREM ContendersDoNotAllLose == Spec => []SomebodyClaims
  <1>1. ClaimTypes /\ NobodyLost /\ [Next]_vars => (ClaimTypes /\ NobodyLost)'
    BY ClaimTypesStep, NobodyLostStep
  <1>2. NobodyLost => SomebodyClaims
    BY DEF NobodyLost, SomebodyClaims, NobodyWon, MayStillWin, Claiming
  <1>3. QED
    BY <1>1, <1>2, ClaimTypesInit, NobodyLostInit, PTL DEF Spec
=============================================================================
