------------------------------- MODULE Clamd --------------------------------
(***************************************************************************)
(* internal/malware/clamd.go and its callers in scan.go: one conversation  *)
(* with clamd under one context, either the PING and VERSION of the        *)
(* dependency check, each on a connection of its own, or the INSTREAM of   *)
(* one file.                                                               *)
(*                                                                         *)
(* The context has a deadline, its own or that of the batch, and the       *)
(* connection is given the same one.  Three timers of the runtime thus     *)
(* wait for one moment: that of the context, that of the connection, and   *)
(* the function which ends the connection when the context has ended.      *)
(***************************************************************************)
EXTENDS Integers, Sequences, SequencesExt

CONSTANTS Files,    \* files to scan: sequences of chunks, "good" or "bad"
          Wants,    \* conversations: <<"ping", "version">>, <<"scan">>
          Buffer,   \* messages the socket holds before a write blocks
          Limit,    \* chunks clamd accepts (StreamMaxLength)
          Policies, \* values of policy.malware_scan_error
          Events    \* what may happen, a subset of EventKinds

DaemonFaults == {"refuse", "error", "garbage", "close", "stall"}
EventKinds == DaemonFaults \cup {"read", "deadline", "cancel"}

ASSUME ClamdAssumption == /\ Files \subseteq Seq({"good", "bad"})
                          /\ Wants \subseteq {<<"ping", "version">>, <<"scan">>}
                          /\ Buffer \in Nat \ {0} /\ Limit \in Nat
                          /\ Policies \subseteq {"reject", "reject_batch"}
                          /\ Events \subseteq EventKinds

VARIABLES pc,       \* control point of the client
          asks,     \* dialogues not yet finished
          file,     \* the file under its limit of time
          policy,   \* malware_scan_error
          sent,     \* chunks read from the file
          wire,     \* messages in the socket, to clamd
          daemon,   \* clamd's end: listening, reading, stalled or closed
          took,     \* the stream clamd received
          answer,   \* its answer in the socket
          due,      \* the moment of the deadline has passed
          whose,    \* the context whose deadline that is
          expired,  \* the connection's deadline has fired
          fileCtx,  \* the context of the file: live, canceled or expired
          batchCtx, \* that of the batch
          verdict,  \* what is returned for the file
          code,     \* or the exit code
          broke     \* events that happened

given == <<file, policy, whose>>
peer == <<daemon, took, answer>>
clocks == <<due, expired, fileCtx, batchCtx>>
result == <<verdict, code>>
vars == <<pc, asks, file, policy, sent, wire, daemon, took, answer, due, whose, expired,
          fileCtx, batchCtx, verdict, code, broke>>

Running == 1    \* no exit code of the program
Ok == 0
Dependency == 4
Canceled == 6

Init == /\ pc = "dial" /\ asks \in Wants /\ file \in Files /\ policy \in Policies
        /\ sent = 0 /\ wire = <<>>
        /\ daemon = "listening" /\ took = <<>> /\ answer = "none"
        /\ due = FALSE /\ whose \in {"file", "batch"} /\ expired = FALSE
        /\ fileCtx = "live" /\ batchCtx = "live"
        /\ verdict = "none" /\ code = Running /\ broke = {}

Connected == pc \in {"send", "chunk", "write", "finish", "receive"}

Fail == pc' = "failed"

\* ------------------------------------------------------------ the client

\* connect: the dialer gives up when the context or its deadline has passed; the new
\* connection has a deadline that may fire at once.
Dial ==
    /\ pc = "dial"
    /\ \/ /\ fileCtx = "live"
          /\ pc' = "send" /\ daemon' = "reading" /\ answer' = "none"
          /\ wire' = <<>> /\ expired' = FALSE /\ UNCHANGED broke
       \/ /\ fileCtx # "live" \/ due
          /\ Fail /\ UNCHANGED <<daemon, answer, wire, expired, broke>>
       \/ /\ "refuse" \in Events /\ broke' = broke \cup {"refuse"}
          /\ Fail /\ UNCHANGED <<daemon, answer, wire, expired>>
    /\ UNCHANGED <<asks, given, sent, took, due, fileCtx, batchCtx, result>>

\* writeAll on the connection: it blocks while the socket is full and fails once
\* clamd has closed its end or the deadline has fired.
Write(message, following) ==
    /\ IF expired \/ daemon = "closed" THEN Fail /\ UNCHANGED wire
       ELSE /\ Len(wire) < Buffer
            /\ wire' = Append(wire, message)
            /\ pc' = following
    /\ UNCHANGED <<asks, given, sent, peer, clocks, result, broke>>

Send == /\ pc = "send"
        /\ Write(Head(asks), IF Head(asks) = "scan" THEN "chunk" ELSE "receive")

\* The loop over the file: the context is looked at before every chunk.
ReadChunk ==
    /\ pc = "chunk"
    /\ IF fileCtx # "live" THEN Fail /\ UNCHANGED sent
       ELSE IF sent < Len(file) THEN sent' = sent + 1 /\ pc' = "write"
       ELSE pc' = "finish" /\ UNCHANGED sent
    /\ UNCHANGED <<asks, given, wire, peer, clocks, result, broke>>

\* Mutant: every error of the reader ends the stream.
ReadEnds ==
    /\ "read" \in Events /\ pc = "chunk" /\ fileCtx = "live"
    /\ broke' = broke \cup {"read"} /\ pc' = "finish"
    /\ UNCHANGED <<asks, given, sent, wire, peer, clocks, result>>

\* The file cannot be read to its end.
ReadFails ==
    /\ "read" \in Events /\ pc = "chunk" /\ fileCtx = "live"
    /\ broke' = broke \cup {"read"} /\ Fail
    /\ UNCHANGED <<asks, given, sent, wire, peer, clocks, result>>

WriteChunk == pc = "write" /\ Write(file[sent], "chunk")

Finish == pc = "finish" /\ Write("end", "receive")

\* The answer is the one that completes this dialogue; another one follows on a new
\* connection, or the dependency check is done.
Answered ==
    /\ asks' = Tail(asks)
    /\ IF Len(asks) > 1 THEN pc' = "dial" /\ UNCHANGED code ELSE pc' = "done" /\ code' = Ok
    /\ UNCHANGED verdict

\* What scanMalware makes of an answer that parses; the size limit concerns the file.
Judge ==
    /\ pc' = "done" /\ UNCHANGED asks
    /\ IF answer = "error" /\ policy = "reject_batch"
       THEN code' = Dependency /\ UNCHANGED verdict
       ELSE /\ code' = Ok
            /\ verdict' = IF answer = "ok" THEN "clean"
                          ELSE IF answer = "found" THEN "malware_found"
                          ELSE "malware_scan_error"

\* readNUL and the check of the response.
Receive ==
    /\ pc = "receive"
    /\ \/ /\ expired \/ (answer = "none" /\ daemon = "closed")
          /\ Fail /\ UNCHANGED <<asks, result>>
       \/ /\ ~expired /\ answer # "none"
          /\ IF Head(asks) = "scan" /\ answer \in {"ok", "found", "error", "limit"} THEN Judge
             ELSE IF Head(asks) = answer THEN Answered
             ELSE Fail /\ UNCHANGED <<asks, result>>
    /\ UNCHANGED <<given, sent, wire, peer, clocks, broke>>

\* Mutant: the batch context is not looked at.
ExamineFileOnly ==
    /\ pc = "failed" /\ pc' = "classify" /\ UNCHANGED code
    /\ UNCHANGED <<asks, given, sent, wire, peer, clocks, verdict, broke>>

\* An error was returned: the end of the batch context explains it first.
Examine ==
    /\ pc = "failed"
    /\ IF batchCtx # "live" THEN pc' = "done" /\ code' = Canceled
       ELSE pc' = "classify" /\ UNCHANGED code
    /\ UNCHANGED <<asks, given, sent, wire, peer, clocks, verdict, broke>>

\* Mutant: an error that is no timeout is not handed on.
ClassifyTimeoutOnly ==
    /\ pc = "classify" /\ pc' = "done"
    /\ code' = IF fileCtx = "expired" THEN Canceled ELSE Ok
    /\ UNCHANGED <<asks, given, sent, wire, peer, clocks, verdict, broke>>

\* The file context tells a timeout from another error, the policy whether it is the
\* file's or the batch's. The dependency check has no such distinction.
Classify ==
    /\ pc = "classify" /\ pc' = "done"
    /\ IF Head(asks) # "scan" THEN code' = Dependency /\ UNCHANGED verdict
       ELSE IF policy = "reject_batch"
       THEN /\ code' = IF fileCtx = "expired" THEN Canceled ELSE Dependency
            /\ UNCHANGED verdict
       ELSE /\ code' = Ok
            /\ verdict' = IF fileCtx = "expired" THEN "malware_scan_timeout"
                          ELSE "malware_scan_error"
    /\ UNCHANGED <<asks, given, sent, wire, peer, clocks, broke>>

Client == \/ Dial \/ Send \/ ReadChunk \/ ReadFails \/ WriteChunk \/ Finish \/ Receive
          \/ Examine \/ Classify

\* ------------------------------------------------------------ clamd

Reply(a) == answer' = a /\ daemon' = "closed"

\* clamd handles one message. A stream beyond its limit is answered at once.
Handle ==
    /\ Connected /\ daemon = "reading" /\ wire # <<>>
    /\ wire' = Tail(wire)
    /\ LET message == Head(wire) IN
       \/ message \in {"ping", "version"} /\ Reply(message) /\ UNCHANGED took
       \/ message = "scan" /\ UNCHANGED peer
       \/ /\ message = "end"
          /\ Reply(IF Contains(took, "bad") THEN "found" ELSE "ok") /\ UNCHANGED took
       \/ /\ message \in {"good", "bad"}
          /\ IF Len(took) = Limit THEN Reply("limit") /\ UNCHANGED took
             ELSE took' = Append(took, message) /\ UNCHANGED <<daemon, answer>>
    /\ UNCHANGED <<pc, asks, given, sent, clocks, result, broke>>

\* clamd fails: an error or nonsense for an answer, a connection closed without one,
\* or no answer at all.
Misbehave ==
    /\ Connected /\ daemon = "reading"
    /\ \E f \in (DaemonFaults \ {"refuse"}) \cap Events :
         /\ broke' = broke \cup {f}
         /\ \/ f \in {"error", "garbage"} /\ Reply(f)
            \/ f = "close" /\ daemon' = "closed" /\ UNCHANGED answer
            \/ f = "stall" /\ daemon' = "stalled" /\ UNCHANGED answer
    /\ UNCHANGED <<pc, asks, given, sent, wire, took, clocks, result>>

\* ------------------------------------------------------------ time

Deadline ==
    /\ "deadline" \in Events /\ ~due /\ pc # "done" /\ due' = TRUE
    /\ UNCHANGED <<pc, asks, given, sent, wire, peer, expired, fileCtx, batchCtx, result,
                   broke>>

\* The poller's timer for the connection.
ConnTimer ==
    /\ due /\ Connected /\ ~expired /\ expired' = TRUE
    /\ UNCHANGED <<pc, asks, given, sent, wire, peer, due, fileCtx, batchCtx, result, broke>>

\* The timer of the context whose deadline it is; the file's ends with the batch's.
CtxTimer ==
    /\ due /\ fileCtx = "live" /\ pc # "done"
    /\ fileCtx' = "expired"
    /\ batchCtx' = IF whose = "batch" THEN "expired" ELSE batchCtx
    /\ UNCHANGED <<pc, asks, given, sent, wire, peer, due, expired, result, broke>>

\* A signal ends the batch context, and with it the file's.
Cancel ==
    /\ "cancel" \in Events /\ batchCtx = "live" /\ pc # "done"
    /\ batchCtx' = "canceled"
    /\ fileCtx' = IF fileCtx = "live" THEN "canceled" ELSE fileCtx
    /\ UNCHANGED <<pc, asks, given, sent, wire, peer, due, expired, result, broke>>

\* Mutant: nothing wakes the client when its context ends.
InterruptNever == FALSE /\ UNCHANGED vars

\* context.AfterFunc: the connection's deadline becomes the present.
Interrupt ==
    /\ fileCtx # "live" /\ Connected /\ ~expired /\ expired' = TRUE
    /\ UNCHANGED <<pc, asks, given, sent, wire, peer, due, fileCtx, batchCtx, result, broke>>

Next == \/ Client \/ Handle \/ Misbehave
        \/ Deadline \/ ConnTimer \/ CtxTimer \/ Cancel \/ Interrupt

\* The client runs, clamd answers unless it stalls, and timers that are due fire; no
\* deadline has to pass.
Fairness == /\ WF_vars(Client) /\ WF_vars(Handle)
            /\ WF_vars(ConnTimer) /\ WF_vars(CtxTimer) /\ WF_vars(Interrupt)

Spec == Init /\ [][Next]_vars /\ Fairness

\* ------------------------------------------------------------ properties

Verdicts == {"none", "clean", "malware_found", "malware_scan_error", "malware_scan_timeout"}

\* Types; what clamd took and what is on the wire is what was read of the file, and a
\* file gets a verdict exactly when the scan may go on.
TypeOK ==
    /\ pc \in {"dial", "send", "chunk", "write", "finish", "receive", "failed", "classify",
               "done"}
    /\ daemon \in {"listening", "reading", "stalled", "closed"}
    /\ fileCtx \in {"live", "canceled", "expired"} /\ batchCtx \in {"live", "canceled", "expired"}
    /\ sent \in 0..Len(file) /\ Len(wire) <= Buffer
    /\ IsPrefix(took, SubSeq(file, 1, sent))
    /\ verdict \in Verdicts /\ code \in {Running, Ok, Dependency, Canceled}
    /\ pc = "done" <=> code # Running
    /\ verdict # "none" <=> (code = Ok /\ Head(asks \o <<"over">>) = "scan")

\* A file is called clean only if clamd received all of it, up to its end and within
\* its limit, and found nothing; it is called malware only for what clamd received.
VerdictIsTrue ==
    /\ verdict = "clean" => took = file /\ ~Contains(file, "bad") /\ Len(file) <= Limit
    /\ verdict = "malware_found" => Contains(took, "bad")

\* clamd refused the stream for its size.
Limited == answer = "limit"

\* clamd did something wrong; a clamd that only stalls is found out by the deadline.
Faulty == \E f \in DaemonFaults : f # "stall" /\ f \in broke

\* What an error of the conversation may come from while no context has ended: clamd, the
\* deadline, and for a file its size or a failure to read it.
Cause == Faulty \/ due \/ (asks = <<"scan">> /\ (Limited \/ "read" \in broke))

\* The scan of a file went wrong, and not because its own time was up.
ScanFailed == answer = "error" \/ (fileCtx # "expired" /\ Cause)

\* Every failure is charged to what caused it. The dependency check fails only for a
\* fault of clamd or the deadline. The scan of a file fails the batch or rejects the file,
\* as the policy says, only if clamd reported an error or the conversation broke for a
\* cause; it is a timeout only if the time of the file is up, and canceled only if the
\* batch has ended or the time of the file is up. Neither a cancellation alone nor a clamd
\* that only stalls is a cause; a file that cannot be read is one, as the code has it.
FailureHasCause ==
    /\ code = Dependency /\ asks # <<"scan">> => Faulty \/ due
    /\ code = Dependency /\ asks = <<"scan">> => policy = "reject_batch" /\ ScanFailed
    /\ verdict = "malware_scan_error" => Limited \/ (policy = "reject" /\ ScanFailed)
    /\ verdict = "malware_scan_timeout" => policy = "reject" /\ fileCtx = "expired" /\ due
    /\ code = Canceled => \/ batchCtx # "live"
                          \/ /\ asks = <<"scan">> /\ policy = "reject_batch"
                             /\ fileCtx = "expired" /\ due

\* The conversation ends, whatever clamd does; only while it stalls, no deadline has
\* passed and nobody cancels does the client wait.
DialogueEnds ==
    \/ <>(pc = "done")
    \/ <>[](daemon = "stalled" /\ ~due /\ fileCtx = "live")

\* src/README.md:84-91: exit 6 is "Canceled or timed out", 4 a failing dependency. A
\* clamd that does nothing worse than take too long is a timeout.
TimeoutIsReported == broke = {"stall"} => code # Dependency

\* scan.go:572 and scan_test.go:380: a stream beyond clamd's limit rejects the file,
\* never the batch.
StreamLimitIsPerFile == Limited => code # Dependency
=============================================================================
