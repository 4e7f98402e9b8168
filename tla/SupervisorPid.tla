--------------------------- MODULE SupervisorPid ---------------------------
(***************************************************************************)
(* The pid file by which supervisors try to exclude one another:           *)
(* _claim_daemon_pid, _release_daemon_pid and daemon_pid of                *)
(* jobs/daemon.py.  Every file-system call is a step of its own, so the    *)
(* claims of two processes interleave between any two calls, and a process *)
(* may be killed between any two.                                          *)
(*                                                                         *)
(* A process is a (pid, start fingerprint) pair, so a restarted supervisor *)
(* is a different member of Processes.  A file is an inode; its content is *)
(* Empty between O_EXCL creation and the write, then the owner's record.   *)
(* An inode is free for reuse once no name and no open descriptor has it.   *)
(***************************************************************************)
EXTENDS Naturals, FiniteSets

CONSTANTS
    Processes,      \* supervisor processes, each of which claims once
    Inodes,         \* bound: inodes that may be in use at a time
    NoFile,         \* "no such file", and "no inode seen"
    Empty,          \* content of a file created but not yet written
    SerialClaims,   \* TRUE: a claim starts only when no other is under way
    ProbeMayFail    \* TRUE: `ps` may time out on a live process

ASSUME PidAssumption ==
    /\ NoFile \notin Inodes
    /\ Empty \notin Processes
    /\ SerialClaims \in BOOLEAN
    /\ ProbeMayFail \in BOOLEAN

VARIABLES
    path,       \* the inode daemon.pid names, or NoFile
    content,    \* what each inode holds
    pc,         \* where each process is
    attempt,    \* its loop counter in _claim_daemon_pid
    seen,       \* the inode it opened
    record      \* the record it read from that inode

vars == <<path, content, pc, attempt, seen, record>>

\* Mutant: a single attempt.
MutOneAttempt == 1

MaxAttempts == 2    \* range(2) in _claim_daemon_pid

Claiming == {"open", "write", "exists", "read", "judge", "stat", "unlink"}
Owner    == {"owner", "releasing", "remove"}

\* The processes that have started and neither returned nor been killed.
Living == {p \in Processes : pc[p] \in Claiming \cup Owner}

\* process_identity(recorded) == recorded_identity, as another process sees it:
\* an empty or torn file yields pid 0, which is never alive.
MaySeeAlive(r) == r \in Living
MaySeeDead(r)  == r \notin Living \/ ProbeMayFail

FreeInode(i) ==
    /\ path # i
    /\ \A p \in Processes : pc[p] \in {"write", "read"} => seen[p] # i

\* _read_pid_record: whom the file names, if it names anybody.
Recorded == IF path = NoFile THEN Empty ELSE content[path]

Goto(p, label) == pc' = [pc EXCEPT ![p] = label]

\* Mutant: the loop has no end.
MutAttemptForever(p) ==
    /\ attempt' = [attempt EXCEPT ![p] = @ + 1]
    /\ Goto(p, "open")

\* `continue`: the next attempt, or the loop is over and the claim fails.
NextAttempt(p) ==
    /\ attempt' = [attempt EXCEPT ![p] = @ + 1]
    /\ Goto(p, IF attempt[p] < MaxAttempts THEN "open" ELSE "refused")

-----------------------------------------------------------------------------
\* run_daemon begins; without its own fingerprint the claim fails at once.
Start(p) ==
    /\ pc[p] = "unborn"
    /\ SerialClaims => \A q \in Processes : pc[q] \notin Claiming
    /\ \/ Goto(p, "open")
       \/ ProbeMayFail /\ Goto(p, "gone")
    /\ UNCHANGED <<path, content, attempt, seen, record>>

\* Mutant: O_EXCL forgotten, an existing file is truncated.
MutCreateTruncates(p) ==
    /\ pc[p] = "open"
    /\ \E i \in Inodes :
          /\ IF path = NoFile THEN FreeInode(i) ELSE i = path
          /\ path' = i
          /\ content' = [content EXCEPT ![i] = Empty]
          /\ seen' = [seen EXCEPT ![p] = i]
    /\ Goto(p, "write")
    /\ UNCHANGED <<attempt, record>>

\* os.open(O_CREAT | O_EXCL) succeeds: daemon.pid exists, and is empty.
CreateExclusive(p) ==
    /\ pc[p] = "open"
    /\ path = NoFile
    /\ \E i \in Inodes :
          /\ FreeInode(i)
          /\ path' = i
          /\ content' = [content EXCEPT ![i] = Empty]
          /\ seen' = [seen EXCEPT ![p] = i]
    /\ Goto(p, "write")
    /\ UNCHANGED <<attempt, record>>

\* json.dump to the descriptor, wherever the name now points: claimed.
WriteRecord(p) ==
    /\ pc[p] = "write"
    /\ content' = [content EXCEPT ![seen[p]] = p]
    /\ seen' = [seen EXCEPT ![p] = NoFile]
    /\ Goto(p, "owner")
    /\ UNCHANGED <<path, attempt, record>>

FileExists(p) ==
    /\ pc[p] = "open"
    /\ path # NoFile
    /\ Goto(p, "exists")
    /\ UNCHANGED <<path, content, attempt, seen, record>>

\* path.open("rb") in the FileExistsError handler.
OpenExisting(p) ==
    /\ pc[p] = "exists"
    /\ path # NoFile
    /\ seen' = [seen EXCEPT ![p] = path]
    /\ Goto(p, "read")
    /\ UNCHANGED <<path, content, attempt, record>>

\* The file was removed since: OSError, continue.
OpenVanished(p) ==
    /\ pc[p] = "exists"
    /\ path = NoFile
    /\ NextAttempt(p)
    /\ UNCHANGED <<path, content, seen, record>>

ReadExisting(p) ==
    /\ pc[p] = "read"
    /\ record' = [record EXCEPT ![p] = content[seen[p]]]
    /\ Goto(p, "judge")
    /\ UNCHANGED <<path, content, attempt, seen>>

\* The recorded process is alive: return False.
Yield(p) ==
    /\ pc[p] = "judge"
    /\ MaySeeAlive(record[p])
    /\ Goto(p, "refused")
    /\ seen' = [seen EXCEPT ![p] = NoFile]
    /\ UNCHANGED <<path, content, attempt, record>>

\* Mutant: whoever is recorded is taken for dead.
MutJudgeAnyStale(p) ==
    /\ pc[p] = "judge"
    /\ Goto(p, "stat")
    /\ UNCHANGED <<path, content, attempt, seen, record>>

JudgeStale(p) ==
    /\ pc[p] = "judge"
    /\ MaySeeDead(record[p])
    /\ Goto(p, "stat")
    /\ UNCHANGED <<path, content, attempt, seen, record>>

\* path.stat(): the name still means the inode that was read ...
StatSame(p) ==
    /\ pc[p] = "stat"
    /\ path = seen[p]
    /\ Goto(p, "unlink")
    /\ UNCHANGED <<path, content, attempt, seen, record>>

\* ... or not, and there is nothing of ours to remove.
StatChanged(p) ==
    /\ pc[p] = "stat"
    /\ path # seen[p]
    /\ seen' = [seen EXCEPT ![p] = NoFile]
    /\ NextAttempt(p)
    /\ UNCHANGED <<path, content, record>>

\* path.unlink(missing_ok=True) removes whatever the name means by now.
UnlinkStale(p) ==
    /\ pc[p] = "unlink"
    /\ path' = NoFile
    /\ seen' = [seen EXCEPT ![p] = NoFile]
    /\ NextAttempt(p)
    /\ UNCHANGED <<content, record>>

\* The supervising loop ends and _release_daemon_pid runs.
BeginRelease(p) ==
    /\ pc[p] = "owner"
    /\ Goto(p, "releasing")
    /\ UNCHANGED <<path, content, attempt, seen, record>>

\* It unlinks the file only if the record read is its own; a torn record, or
\* its own fingerprint unavailable, leaves the file behind.
ReleaseReads(p) ==
    /\ pc[p] = "releasing"
    /\ \/ Recorded = p /\ Goto(p, "remove")
       \/ (Recorded # p \/ ProbeMayFail) /\ Goto(p, "gone")
    /\ UNCHANGED <<path, content, attempt, seen, record>>

ReleaseUnlinks(p) ==
    /\ pc[p] = "remove"
    /\ path' = NoFile
    /\ Goto(p, "gone")
    /\ UNCHANGED <<content, attempt, seen, record>>

\* SIGKILL or power loss: the file, written or not, stays behind.
Dies(p) ==
    /\ p \in Living
    /\ Goto(p, "dead")
    /\ seen' = [seen EXCEPT ![p] = NoFile]
    /\ UNCHANGED <<path, content, attempt, record>>

ClaimStep(p) ==
    \/ CreateExclusive(p) \/ WriteRecord(p) \/ FileExists(p) \/ OpenExisting(p) \/ OpenVanished(p)
    \/ ReadExisting(p) \/ Yield(p) \/ JudgeStale(p) \/ StatSame(p)
    \/ StatChanged(p) \/ UnlinkStale(p)

ReleaseStep(p) == BeginRelease(p) \/ ReleaseReads(p) \/ ReleaseUnlinks(p)

\* A file may be left over from an earlier boot: torn, or naming a process
\* that is no more, which a claim cannot tell apart.
Init ==
    /\ path \in Inodes \cup {NoFile}
    /\ content = [i \in Inodes |-> Empty]
    /\ pc = [p \in Processes |-> "unborn"]
    /\ attempt = [p \in Processes |-> 1]
    /\ seen = [p \in Processes |-> NoFile]
    /\ record = [p \in Processes |-> Empty]

Next ==
    \E p \in Processes : Start(p) \/ ClaimStep(p) \/ ReleaseStep(p) \/ Dies(p)

Spec == Init /\ [][Next]_vars

-----------------------------------------------------------------------------
(***************************************************************************)
(* Properties.                                                             *)
(***************************************************************************)
TypeOK ==
    /\ path \in Inodes \cup {NoFile}
    /\ content \in [Inodes -> Processes \cup {Empty}]
    /\ pc \in [Processes -> Claiming \cup Owner
                              \cup {"unborn", "refused", "gone", "dead"}]
    /\ attempt \in [Processes -> 1 .. MaxAttempts + 1]
    /\ seen \in [Processes -> Inodes \cup {NoFile}]
    /\ record \in [Processes -> Processes \cup {Empty}]

\* "Contracts for exclusive durable supervisor ownership"
\* (tests/unit/jobs/test_daemon.py:1): two supervisors never run at once.
AtMostOneSupervisor ==
    \A p, q \in Processes : pc[p] \in Owner /\ pc[q] \in Owner => p = q

\* Clients can see and stop the supervisor that runs: the file names it.
SupervisorIsVisible ==
    \A p \in Processes : pc[p] \in Owner => Recorded = p

\* A claim fails only while some other supervisor runs: the file a killed
\* supervisor left, written or torn, never keeps a new one from starting.
RefusedOnlyForOwner ==
    [][\A p \in Processes :
          pc[p] # "refused" /\ pc'[p] = "refused"
          => \E q \in Processes \ {p} : pc[q] \in Owner]_vars

\* However claims collide, they cannot all lose: when the last claim is over and
\* one was refused, some supervisor runs, or has run and ended since.
SomebodyClaims ==
    /\ \A p \in Processes : pc[p] \notin Claiming
    /\ \E p \in Processes : pc[p] = "refused"
    => \E p \in Processes : pc[p] \in Owner \cup {"gone", "dead"}
=============================================================================
