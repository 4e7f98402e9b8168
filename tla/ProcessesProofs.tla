--------------------------- MODULE ProcessesProofs ---------------------------
(***************************************************************************)
(* What a tool call of the MCP server answers and leaves behind, and what  *)
(* an invocation of a command prints, for any sinks and any number of      *)
(* interruptions; and that supervisors whose claims collide do not all     *)
(* lose, for any number of them, as the composed model has it.             *)
(***************************************************************************)
EXTENDS MC_Processes, TLAPS

-----------------------------------------------------------------------------
(***************************************************************************)
(* The call and its child.                                                 *)
(***************************************************************************)
Payloads == WatchPayloads \cup {"submitted", "failed_job"}
Codes == {Uncaught, NoExit, Signalled} \cup Documented
Before == {"lookup", "submit", "adapters", "connect", "run", "failed"}

InvType ==
    inv \in [at : Before \cup {"finally", "exited"}, sink : Sinks, durable : Submits,
             adapter : BOOLEAN, connected : BOOLEAN, failure : Failures \cup {"none"},
             payloads : Seq(Payloads), exit : Codes]
CallType ==
    call \in [at : {"validate", "spawn", "communicate", "shield", "returned"},
              invalid : Rejected,
              reaper : {"none", "terminate", "grace", "done"},
              result : Payloads \cup {"none", "error"},
              interrupts : Nat]
ChildType ==
    child \in [state : {"none", "alive", "gone"}, stubborn : BOOLEAN,
               signalled : BOOLEAN, code : Codes]

\* One payload and its code; or a sink that failed, none, and a traceback.
Printed == \/ inv.payloads = <<>> /\ inv.exit = Uncaught /\ ~Writes(inv.sink)
           \/ \E p \in Payloads : inv.payloads = <<p>> /\ inv.exit = ExitOf(p)

PrintInv ==
    /\ inv.at \in Before => inv.payloads = <<>>
    /\ inv.at = "failed" => inv.failure \in Failures
    /\ inv.at \in {"finally", "exited"} => Printed
    /\ inv.at = "exited" => ~inv.connected

\* A child that has gone with a code of chainwake's own went by itself.
CodeInv ==
    child.state = "gone" =>
        child.code = Signalled \/ (inv.at = "exited" /\ child.code = inv.exit)

CallInv ==
    /\ call.at \in {"validate", "spawn"} => child.state = "none" /\ call.reaper = "none"
    /\ call.at \in {"validate", "spawn", "communicate"} =>
           call.interrupts = 0 /\ call.result = "none"
    /\ call.at = "communicate" => child.state # "none" /\ call.reaper = "none"
    /\ call.at = "shield" =>
           call.interrupts = 1 /\ call.reaper # "none" /\ call.result = "none"
    /\ call.at = "returned" /\ child.state = "alive" =>
           call.interrupts >= 2 /\ call.reaper \in {"terminate", "grace"}
    /\ call.reaper = "done" => child.state = "gone"
    /\ call.reaper # "none" => child.state # "none"

CallInvs == /\ InvType /\ PrintInv
        /\ CallType /\ ChildType
        /\ CodeInv /\ CallInv /\ AnswerIsTheChilds

-----------------------------------------------------------------------------
(* The invocation. *)

LEMMA CodesOfPayloads ==
    /\ \A p \in Payloads : ExitOf(p) \in Documented
    /\ Documented = 0..4 /\ ExitOf("user_error") = 2 /\ ExitOf("stopped") = 1
  BY DEF Payloads, WatchPayloads, ExitOf, Documented

LEMMA ReportsArePayloads == \A f \in Failures : Payload(f) \in Payloads
  BY DEF Failures, Payload, Payloads, WatchPayloads

\* The one payload is printed where none was.
LEMMA PrintsOne ==
    ASSUME InvType, PrintInv, inv.at \in Before,
           NEW p \in Payloads, Prints(p, ExitOf(p))
    PROVE  InvType' /\ PrintInv'
  <1>1. ExitOf(p) \in Codes
    BY CodesOfPayloads DEF Codes
  <1>2. inv.payloads = <<>> /\ Append(inv.payloads, p) = <<p>>
    <2>1. inv.payloads = <<>>
      BY DEF PrintInv
    <2>2. Append(<<>>, p) = <<p>>
      OBVIOUS
    <2>3. QED
      BY <2>1, <2>2
  <1>3. inv' = [inv EXCEPT !.at = "finally", !.payloads = <<p>>, !.exit = ExitOf(p)]
    BY <1>2 DEF Prints
  <1>4. <<p>> \in Seq(Payloads)
    OBVIOUS
  <1>5. InvType'
    BY <1>1, <1>3, <1>4 DEF InvType
  <1>6. inv'.at = "finally" /\ inv'.payloads = <<p>> /\ inv'.exit = ExitOf(p)
    BY <1>3 DEF InvType
  <1>7. QED
    BY <1>5, <1>6 DEF PrintInv, Printed, Before

LEMMA MovesOn ==
    ASSUME InvType, PrintInv, inv.at \in Before,
           \/ \E place \in Before \ {"failed"} : Goes(place)
           \/ \E failure \in Failures : Raises(failure)
    PROVE  InvType' /\ PrintInv'
  BY DEF InvType, PrintInv, Goes, Raises, Before

LEMMA InvStepKeeps == ASSUME InvType, PrintInv, InvStep PROVE InvType' /\ PrintInv'
  <1>1. CASE LookedUp
    <2>1. "user" \in Failures /\ {"submit", "adapters", "lookup"} \subseteq Before \ {"failed"}
      BY DEF Failures, Before
    <2>2. QED
      BY <1>1, <2>1, MovesOn DEF LookedUp
  <1>2. CASE JobSubmitted
    <2>1. {"user_error", "submitted", "failed_job"} \subseteq Payloads
          /\ "other" \in Failures /\ "submit" \in Before
      BY DEF Payloads, WatchPayloads, Failures, Before
    <2>2. QED
      BY <1>2, <2>1, PrintsOne, MovesOn, CodesOfPayloads DEF JobSubmitted
  <1>3. CASE AdaptersParsed
    <2>1. "other" \in Failures /\ "adapters" \in Before
      BY DEF Failures, Before
    <2>2. CASE Parses(inv.sink)
      BY <1>3, <2>2 DEF AdaptersParsed, InvType, PrintInv, Before
    <2>3. CASE ~Parses(inv.sink)
      BY <1>3, <2>1, <2>3, MovesOn DEF AdaptersParsed
    <2>4. QED
      BY <2>2, <2>3
  <1>4. CASE Connected
    <2>1. CASE inv' = [inv EXCEPT !.at = "run", !.connected = TRUE]
      BY <1>4, <2>1 DEF Connected, InvType, PrintInv, Before
    <2>2. CASE \E failure \in Failures : Raises(failure)
      BY <1>4, <2>2, MovesOn DEF Connected, Before
    <2>3. QED
      BY <1>4, <2>1, <2>2 DEF Connected
  <1>5. CASE WatcherRan
    <2>1. WatchPayloads \subseteq Payloads /\ {"os", "user", "cancelled"} \subseteq Failures
          /\ "run" \in Before
      BY DEF Payloads, Failures, Before
    <2>2. QED
      BY <1>5, <2>1, PrintsOne, MovesOn DEF WatcherRan
  <1>6. CASE FailureReported
    <2>1. inv.at = "failed" /\ "failed" \in Before /\ inv.failure \in Failures
      BY <1>6 DEF FailureReported, Before, PrintInv
    <2>2. CASE ~Writes(inv.sink) /\ ~ToStdout
      <3>1. inv' = [inv EXCEPT !.at = "finally", !.exit = Uncaught]
        BY <1>6, <2>2 DEF FailureReported
      <3>2. QED
        BY <2>1, <2>2, <3>1 DEF InvType, PrintInv, Printed, Codes, Before
    <2>3. CASE ~(~Writes(inv.sink) /\ ~ToStdout)
      <3>1. Prints(Payload(inv.failure), ExitOf(Payload(inv.failure)))
        BY <1>6, <2>3 DEF FailureReported
      <3>2. QED
        BY <2>1, <3>1, PrintsOne, ReportsArePayloads
    <2>4. QED
      BY <2>2, <2>3
  <1>7. CASE Exited
    BY <1>7 DEF Exited, InvType, PrintInv, Printed, Before
  <1>8. QED
    BY <1>1, <1>2, <1>3, <1>4, <1>5, <1>6, <1>7 DEF InvStep

-----------------------------------------------------------------------------
(* The call. *)

\* While the child runs nothing is known of its code, and nothing is answered.
LEMMA RunningKeeps ==
    ASSUME CallInvs, child.state = "alive", InvType', PrintInv', UNCHANGED <<call, child>>
    PROVE  CallInvs'
  BY DEF CallInvs, CallType, ChildType, CodeInv, CallInv, AnswerIsTheChilds

\* The child has gone, killed or by itself.
LEMMA GoneKeeps ==
    ASSUME CallInvs, child.state = "alive", UNCHANGED <<inv, call>>,
           NEW code \in Codes, child' = [child EXCEPT !.state = "gone", !.code = code],
           code = Signalled \/ (inv.at = "exited" /\ code = inv.exit)
    PROVE  CallInvs'
  <1>1. child'.state = "gone" /\ child'.code = code /\ ChildType'
    BY DEF CallInvs, ChildType
  <1>2. call.result \in {"none", "error"}
    BY DEF CallInvs, CallType, AnswerIsTheChilds
  <1>3. QED
    BY <1>1, <1>2
       DEF CallInvs, InvType, PrintInv, Printed, CallType, CodeInv, CallInv, AnswerIsTheChilds

\* The server moves on; the child is where it was.
LEMMA ServerKeeps ==
    ASSUME CallInvs, UNCHANGED <<inv, child>>, CallType', CallInv',
           call'.result \in {call.result, "none", "error"}
    PROVE  CallInvs'
  BY DEF CallInvs, InvType, PrintInv, Printed, ChildType, CodeInv, AnswerIsTheChilds

\* What the server reads of a child that has gone.
LEMMA OutputIsTheChilds ==
    ASSUME CallInvs, child.state = "gone", Output # "not_json", child.code \in Documented
    PROVE  /\ Output \in Payloads
           /\ child.code = ExitOf(Output) /\ inv.payloads = <<Output>>
  <1>1. inv.at = "exited" /\ child.code = inv.exit
    BY DEF CallInvs, CodeInv, Signalled, Documented
  <1>2. inv.payloads # <<>>
    BY DEF Output
  <1>3. PICK p \in Payloads : inv.payloads = <<p>> /\ inv.exit = ExitOf(p)
    BY <1>1, <1>2 DEF CallInvs, PrintInv, Printed
  <1>4. Output = p
    BY <1>3 DEF Output
  <1>5. QED
    BY <1>1, <1>3, <1>4

LEMMA ServerStepKeeps == ASSUME CallInvs, ServerStep PROVE CallInvs'
  <1> USE DEF CallType, CallInv, Answers
  <1>1. CASE Validated
    BY <1>1, ServerKeeps DEF Validated, CallInvs
  <1>2. CASE Spawned
    <2>1. CASE Answers("error") /\ UNCHANGED <<inv, child>>
      BY <1>2, <2>1, ServerKeeps DEF Spawned, CallInvs
    <2>2. CASE /\ call' = [call EXCEPT !.at = "communicate"]
               /\ child' = [child EXCEPT !.state = "alive"] /\ UNCHANGED inv
      <3>1. call.at = "spawn" /\ call.result = "none" /\ child.state = "none"
        BY <1>2 DEF Spawned, CallInvs
      <3>2. child'.state = "alive" /\ ChildType'
        BY <2>2 DEF CallInvs, ChildType
      <3>3. CallType' /\ CallInv' /\ call'.result = "none"
        BY <2>2, <3>1, <3>2 DEF CallInvs
      <3>4. QED
        BY <2>2, <3>2, <3>3
           DEF CallInvs, InvType, PrintInv, Printed, CodeInv, AnswerIsTheChilds
    <2>3. QED
      BY <1>2, <2>1, <2>2 DEF Spawned
  <1>3. CASE Communicated
    <2>0. call.at = "communicate" /\ child.state = "gone" /\ UNCHANGED <<inv, child>>
      BY <1>3 DEF Communicated
    <2>1. CASE Output = "not_json" \/ child.code \notin Documented
      <3>1. call' = [call EXCEPT !.at = "returned", !.result = "error"]
        BY <1>3, <2>1 DEF Communicated
      <3>2. QED
        BY <2>0, <3>1, ServerKeeps DEF CallInvs
    <2>2. CASE ~(Output = "not_json" \/ child.code \notin Documented)
      <3>1. call' = [call EXCEPT !.at = "returned", !.result = Output]
        BY <1>3, <2>2 DEF Communicated
      <3>2. Output \in Payloads /\ child.code = ExitOf(Output) /\ inv.payloads = <<Output>>
        BY <2>0, <2>2, OutputIsTheChilds
      <3> DEFINE answer == Output
      <3>3. answer \in Payloads /\ call' = [call EXCEPT !.at = "returned", !.result = answer]
        BY <3>1, <3>2
      <3> HIDE DEF answer
      <3>4. call'.result = answer /\ CallType' /\ CallInv'
        BY <2>0, <3>3 DEF CallInvs
      <3>5. AnswerIsTheChilds'
        BY <2>0, <3>2, <3>4 DEF AnswerIsTheChilds, answer
      <3>6. QED
        BY <2>0, <3>4, <3>5 DEF CallInvs, InvType, PrintInv, Printed, ChildType, CodeInv
    <2>3. QED
      BY <2>1, <2>2
  <1>4. CASE Terminates
    <2>0. call.reaper = "terminate" /\ UNCHANGED inv
      BY <1>4 DEF Terminates
    <2>1. CASE child.state = "gone"
      BY <1>4, <2>1, ServerKeeps DEF Terminates, CallInvs
    <2>2. CASE child.state # "gone"
      <3>1. child' = [child EXCEPT !.signalled = TRUE] /\ call' = [call EXCEPT !.reaper = "grace"]
        BY <1>4, <2>2 DEF Terminates
      <3>2. ChildType' /\ child'.state = child.state /\ child'.code = child.code
        BY <3>1 DEF CallInvs, ChildType
      <3>3. CallType' /\ CallInv' /\ call'.result = call.result
        BY <2>0, <3>1, <3>2 DEF CallInvs
      <3>4. QED
        BY <2>0, <3>2, <3>3 DEF CallInvs, InvType, PrintInv, Printed, CodeInv, AnswerIsTheChilds
    <2>3. QED
      BY <2>1, <2>2
  <1>5. CASE Kills
    <2>1. child' = [child EXCEPT !.state = "gone", !.code = Signalled]
          /\ call' = [call EXCEPT !.reaper = "done"] /\ UNCHANGED inv
          /\ call.reaper = "grace" /\ child.state = "alive"
      BY <1>5 DEF Kills
    <2>2. ChildType' /\ child'.state = "gone" /\ child'.code = Signalled
      BY <2>1 DEF CallInvs, ChildType, Codes
    <2>3. CallType' /\ CallInv' /\ call'.result \in {"none", "error"}
      BY <2>1, <2>2 DEF CallInvs, AnswerIsTheChilds
    <2>4. QED
      BY <2>1, <2>2, <2>3 DEF CallInvs, InvType, PrintInv, Printed, CodeInv, AnswerIsTheChilds
  <1>6. CASE Reaped
    BY <1>6, ServerKeeps DEF Reaped, CallInvs
  <1>7. CASE TerminationAwaited
    BY <1>7, ServerKeeps DEF TerminationAwaited, CallInvs
  <1>8. QED
    BY <1>1, <1>2, <1>3, <1>4, <1>5, <1>6, <1>7 DEF ServerStep

LEMMA ChildTerminatedKeeps == ASSUME CallInvs, ChildTerminated PROVE CallInvs'
  <1>1. child.state = "alive" /\ UNCHANGED call
    BY DEF ChildTerminated
  <1>2. CASE inv.at = "run"
    <2>1. Prints("stopped", ExitOf("stopped")) /\ child' = [child EXCEPT !.signalled = FALSE]
      BY <1>2 DEF ChildTerminated
    <2>2. "stopped" \in Payloads /\ "run" \in Before
      BY DEF Payloads, WatchPayloads, Before
    <2>3. InvType' /\ PrintInv'
      BY <1>2, <2>1, <2>2, PrintsOne DEF CallInvs
    <2>4. ChildType' /\ child'.state = "alive"
      BY <1>1, <2>1 DEF CallInvs, ChildType
    <2>5. QED
      BY <1>1, <2>3, <2>4 DEF CallInvs, CallType, CodeInv, CallInv, AnswerIsTheChilds
  <1>3. CASE inv.at # "run"
    <2>1. child' = [child EXCEPT !.state = "gone", !.code = Signalled] /\ UNCHANGED inv
      BY <1>3 DEF ChildTerminated
    <2>2. QED
      BY <1>1, <2>1, GoneKeeps DEF Codes
  <1>4. QED
    BY <1>2, <1>3

LEMMA InterruptKeeps == ASSUME CallInvs, TimedOut \/ CancelledByClient PROVE CallInvs'
  <1>1. UNCHANGED <<inv, child>>
    BY DEF TimedOut, CancelledByClient
  <1>2. CASE StartsTermination /\ call.at = "communicate"
    <2>1. call.interrupts = 0 /\ call.result = "none" /\ child.state # "none"
      BY <1>2 DEF CallInvs, CallInv
    <2>2. call' = [call EXCEPT !.at = "shield", !.reaper = "terminate", !.interrupts = 1]
      BY <1>2, <2>1 DEF StartsTermination
    <2>3. call'.at = "shield" /\ call'.reaper = "terminate" /\ call'.interrupts = 1
          /\ call'.result = "none" /\ CallType'
      BY <2>1, <2>2 DEF CallInvs, CallType
    <2>4. CallInv'
      BY <1>1, <2>1, <2>3 DEF CallInv
    <2>5. QED
      BY <1>1, <2>3, <2>4, ServerKeeps
  <1>3. CASE /\ call.at \in {"spawn", "shield"}
             /\ call' = [call EXCEPT !.at = "returned", !.result = "error", !.interrupts = @ + 1]
    <2>1. call.interrupts \in Nat /\ call'.interrupts = call.interrupts + 1
          /\ call'.at = "returned" /\ call'.result = "error" /\ call'.reaper = call.reaper
      BY <1>3 DEF CallInvs, CallType
    <2>2. CallType'
      <3> DEFINE n == call.interrupts + 1
      <3>1. n \in Nat /\ call' = [call EXCEPT !.at = "returned", !.result = "error", !.interrupts = n]
        BY <1>3, <2>1
      <3> HIDE DEF n
      <3>2. QED
        BY <3>1 DEF CallInvs, CallType
    <2>3. CallInv'
      BY <1>1, <1>3, <2>1 DEF CallInvs, CallInv, CallType
    <2>4. QED
      BY <1>1, <2>1, <2>2, <2>3, ServerKeeps
  <1>4. QED
    BY <1>2, <1>3 DEF TimedOut, CancelledByClient

LEMMA IInvInit == CallInit => CallInvs
  <1> SUFFICES ASSUME CallInit PROVE CallInvs
    OBVIOUS
  <1>1. PICK sink \in Sinks, durable \in Submits :
            inv = [at |-> "lookup", sink |-> sink, durable |-> durable, adapter |-> FALSE,
                   connected |-> FALSE, failure |-> "none", payloads |-> <<>>, exit |-> NoExit]
    BY DEF CallInit, InvInit
  <1>2. InvType /\ PrintInv
    BY <1>1 DEF InvType, PrintInv, Before, Codes
  <1>3. CallType /\ ChildType /\ call.at = "validate" /\ child.state = "none"
        /\ call.result = "none" /\ call.interrupts = 0 /\ call.reaper = "none"
    BY DEF CallInit, CallType, ChildType, Codes
  <1>4. QED
    BY <1>2, <1>3 DEF CallInvs, CodeInv, CallInv, AnswerIsTheChilds

LEMMA IInvStep == CallInvs /\ [CallNext]_mcpVars => CallInvs'
  <1> SUFFICES ASSUME CallInvs, [CallNext]_mcpVars PROVE CallInvs'
    OBVIOUS
  <1>1. CASE ServerStep
    BY <1>1, ServerStepKeeps
  <1>2. CASE ChildRuns
    BY <1>2, InvStepKeeps, RunningKeeps DEF ChildRuns, CallInvs
  <1>3. CASE ChildExits
    <2>1. inv.exit \in Codes
      BY DEF CallInvs, InvType
    <2>2. QED
      BY <1>3, <2>1, GoneKeeps DEF ChildExits
  <1>4. CASE ChildTerminated
    BY <1>4, ChildTerminatedKeeps
  <1>5. CASE TimedOut \/ CancelledByClient
    BY <1>5, InterruptKeeps
  <1>6. CASE UNCHANGED mcpVars
    BY <1>6 DEF mcpVars, CallInvs, InvType, PrintInv, Printed, CallType, ChildType, CodeInv,
                CallInv, AnswerIsTheChilds
  <1>7. QED
    BY <1>1, <1>2, <1>3, <1>4, <1>5, <1>6 DEF CallNext

LEMMA IInvHolds == CallSpec => []CallInvs
  BY IInvInit, IInvStep, PTL DEF CallSpec

\* Wherever an invocation fails, one payload is printed and its code returned, in
\* a child of the server too, which may be told to stop at any moment.
THEOREM OnePayloadPrinted == CallSpec => []OneEnvelope
  <1>1. CallInvs => OneEnvelope
    <2> SUFFICES ASSUME CallInvs, inv.at = "exited", Writes(inv.sink)
                 PROVE  /\ Len(inv.payloads) = 1
                        /\ inv.exit = ExitOf(inv.payloads[1])
                        /\ ~inv.connected
      BY DEF OneEnvelope
    <2>1. Printed /\ ~inv.connected
      BY DEF CallInvs, PrintInv
    <2>2. PICK p \in Payloads : inv.payloads = <<p>> /\ inv.exit = ExitOf(p)
      BY <2>1 DEF Printed
    <2>3. Len(inv.payloads) = 1 /\ inv.payloads[1] = p
      BY <2>2
    <2>4. QED
      BY <2>1, <2>2, <2>3
  <1>2. QED
    BY <1>1, IInvHolds, PTL

\* An answer that is a payload is what the child printed before it exited by
\* itself, whatever was interrupted and however often.
THEOREM AnswersComeFromTheChild == CallSpec => []AnswerIsTheChilds
  <1>1. CallInvs => AnswerIsTheChilds
    BY DEF CallInvs
  <1>2. QED
    BY <1>1, IInvHolds, PTL

\* A call that has returned leaves no child, or one that is being terminated.
THEOREM ChildrenAreReaped == CallSpec => []NoChildLeft
  <1>1. CallInvs => NoChildLeft
    BY DEF CallInvs, CallType, CallInv, NoChildLeft
  <1>2. QED
    BY <1>1, IInvHolds, PTL

-----------------------------------------------------------------------------
(***************************************************************************)
(* The scene of overlapping claims.  Its steps are those of SupervisorPid, *)
(* with the contenders for processes; the other scenes leave its variables *)
(* alone.                                                                  *)
(***************************************************************************)
CP == INSTANCE SupervisorPidProofs WITH
        Processes <- Contenders, SerialClaims <- FALSE, ProbeMayFail <- TRUE,
        path <- file, content <- inodes, pc <- places, attempt <- attempts,
        seen <- opened, record <- records

\* A step of the composed model is one of the contenders', or none of theirs.
LEMMA ContendersStep == [MCNext]_allVars => [CP!Next]_(CP!vars)
  <1>1. C!Next => CP!Next
    BY DEF C!Next, CP!Next, C!Start, CP!Start, C!ClaimStep, CP!ClaimStep,
           C!ReleaseStep, CP!ReleaseStep, C!Dies, CP!Dies, C!CreateExclusive,
           CP!CreateExclusive, C!WriteRecord, CP!WriteRecord, C!FileExists,
           CP!FileExists, C!OpenExisting, CP!OpenExisting, C!OpenVanished,
           CP!OpenVanished, C!ReadExisting, CP!ReadExisting, C!Yield, CP!Yield,
           C!JudgeStale, CP!JudgeStale, C!StatSame, CP!StatSame, C!StatChanged,
           CP!StatChanged, C!UnlinkStale, CP!UnlinkStale, C!BeginRelease,
           CP!BeginRelease, C!ReleaseReads, CP!ReleaseReads, C!ReleaseUnlinks,
           CP!ReleaseUnlinks, C!Goto, CP!Goto, C!NextAttempt, CP!NextAttempt,
           C!MaxAttempts, CP!MaxAttempts, C!FreeInode, CP!FreeInode, C!Recorded,
           CP!Recorded, C!Living, CP!Living, C!Claiming, CP!Claiming, C!Owner,
           CP!Owner, C!MaySeeAlive, CP!MaySeeAlive, C!MaySeeDead, CP!MaySeeDead
  <1>2. QED
    BY <1>1 DEF MCNext, InSerial, InContend, InCall, InRequest, allVars, contendVars,
                CP!vars

\* Of the contenders at least one gets through: SomebodyClaims, for the scene in
\* which the claims of any number of processes interleave (_claim_daemon_pid).
THEOREM SomeContenderGetsThrough == MCSpec => []SomeContenderClaims
  <1>1. MCInit => CP!Init
    BY DEF MCInit, C!Init, CP!Init
  <1>2. CP!Spec => []CP!SomebodyClaims
    BY CP!ContendersDoNotAllLose, ContendersAssumption, PidAssumption DEF CP!PidAssumption
  <1>3. CP!SomebodyClaims => SomeContenderClaims
    BY DEF CP!SomebodyClaims, SomeContenderClaims, C!SomebodyClaims, C!Claiming,
           CP!Claiming, C!Owner, CP!Owner
  <1>4. QED
    BY <1>1, <1>2, <1>3, ContendersStep, PTL DEF MCSpec, CP!Spec
=============================================================================
