----------------------------- MODULE ClamdProofs -----------------------------
(***************************************************************************)
(* What holds of Clamd for every file, buffer, limit, policy and fault.    *)
(***************************************************************************)
EXTENDS Clamd, TLAPS

Messages == {"ping", "version", "scan", "good", "bad", "end"}

\* Types, and what each control point knows of the file.
Shape ==
    /\ pc \in {"dial", "send", "chunk", "write", "finish", "receive", "failed", "classify",
               "done"}
    /\ asks \in {<<"ping", "version">>, <<"version">>, <<"scan">>, <<>>}
    /\ pc # "done" => asks # <<>>
    /\ pc # "done" => code = Running /\ verdict = "none"
    /\ pc \in {"chunk", "write", "finish"} => asks = <<"scan">>
    /\ file \in Seq({"good", "bad"}) /\ took \in Seq({"good", "bad"})
    /\ wire \in Seq(Messages) /\ policy \in {"reject", "reject_batch"}
    /\ sent \in 0..Len(file)
    /\ pc \in {"dial", "send"} => took = <<>> /\ sent = 0
    /\ asks # <<"scan">> => took = <<>> /\ sent = 0
    /\ pc = "send" => wire = <<>>
    /\ pc = "write" => sent > 0
    /\ pc = "finish" => sent = Len(file)
    /\ answer # "none" /\ Connected => daemon = "closed"
    /\ answer \in {"none", "ok", "found", "ping", "version", "limit", "error", "garbage"}
    /\ fileCtx \in {"live", "canceled", "expired"} /\ batchCtx \in {"live", "canceled", "expired"}

\* The messages of an INSTREAM, from 0, and how many of them have been sent.
Stream(j) == IF j = 0 THEN "scan" ELSE IF j <= Len(file) THEN file[j] ELSE "end"
Count == IF pc = "chunk" THEN sent + 1 ELSE IF pc = "write" THEN sent
         ELSE IF pc = "finish" THEN Len(file) + 1 ELSE Len(file) + 2
Handled == Count - Len(wire)

\* clamd has a prefix of the file, and while it reads the rest of what was sent is on
\* the wire, in order.
Conversation ==
    /\ Len(took) <= Len(file) /\ Len(took) <= Limit
    /\ \A j \in 1..Len(took) : took[j] = file[j]
    /\ asks = <<"scan">> /\ daemon = "reading" /\ pc \in {"chunk", "write", "finish", "receive"} =>
         /\ (Handled = 0 /\ took = <<>>) \/ Handled = Len(took) + 1
         /\ \A k \in 1..Len(wire) : wire[k] = Stream(Handled + k - 1)
    /\ asks # <<"scan">> /\ pc = "receive" =>
         \A k \in 1..Len(wire) : wire[k] = asks[1]

\* An answer about the file is true of it.
Answers ==
    asks = <<"scan">> =>
      /\ answer = "ok" => took = file /\ ~Contains(took, "bad")
      /\ answer = "found" => Contains(took, "bad")

\* Where a failure came from, as soon as it is one.
Blame ==
    /\ answer \in {"none", "ok", "found", "ping", "version", "limit"} \/ Faulty
    /\ Connected /\ daemon = "closed" => answer # "none" \/ Faulty
    /\ pc \in {"send", "chunk", "write", "finish"} /\ daemon = "closed" => Faulty \/ Limited
    /\ asks = <<"scan">> => answer \notin {"ping", "version"}
    /\ asks # <<"scan">> => ~Limited /\ "read" \notin broke
    /\ asks # <<"scan">> /\ asks # <<>> /\ pc = "receive" =>
         answer \in {"none", asks[1]} \/ Faulty
    /\ fileCtx = "expired" => due
    /\ batchCtx = "expired" => due
    /\ fileCtx = "canceled" => batchCtx # "live"
    /\ expired => due \/ batchCtx # "live"
    /\ pc = "failed" => Cause \/ batchCtx # "live"
    /\ pc = "classify" => Cause

IInv == Shape /\ Conversation /\ Answers /\ Blame /\ VerdictIsTrue /\ FailureHasCause

\* What Append and Tail do to the length and the elements of a sequence.
LEMMA AppendIs ==
    ASSUME NEW S, NEW s \in Seq(S), NEW x \in S
    PROVE  /\ Append(s, x) \in Seq(S) /\ Len(Append(s, x)) = Len(s) + 1
           /\ \A k \in 1..Len(s) : Append(s, x)[k] = s[k]
           /\ Append(s, x)[Len(s) + 1] = x
PROOF BY SMT

\* What Tail does to the length and the elements of a sequence.
LEMMA TailIs ==
    ASSUME NEW S, NEW s \in Seq(S), s # <<>>
    PROVE  /\ Len(s) \in Nat \ {0} /\ Head(s) = s[1] /\ Head(s) \in S
           /\ Tail(s) \in Seq(S) /\ Len(Tail(s)) = Len(s) - 1
           /\ \A k \in 1..(Len(s) - 1) : Tail(s)[k] = s[k + 1]
PROOF BY SMT

\* Sequences that agree in length and elements are equal.
LEMMA SameIs ==
    ASSUME NEW S, NEW s \in Seq(S), NEW t \in Seq(S), Len(s) = Len(t),
           \A k \in 1..Len(s) : s[k] = t[k]
    PROVE  s = t
PROOF BY SMT

\* The dialogues, one by one.
LEMMA AsksIs ==
    /\ Head(<<"scan">>) = "scan" /\ Head(<<"version">>) = "version"
    /\ Head(<<"ping", "version">>) = "ping"
    /\ Tail(<<"version">>) = <<>> /\ Tail(<<"ping", "version">>) = <<"version">>
    /\ Len(<<"version">>) = 1 /\ Len(<<"ping", "version">>) = 2 /\ Len(<<"scan">>) = 1
    /\ <<"scan">>[1] = "scan" /\ <<"version">>[1] = "version" /\ <<"ping", "version">>[1] = "ping"
    /\ <<"scan">> # <<"version">> /\ <<"scan">> # <<"ping", "version">> /\ <<"scan">> # <<>>
    /\ <<"version">> # <<>> /\ <<"ping", "version">> # <<>>
    /\ <<"version">> # <<"ping", "version">>
PROOF BY SMT

\* The invariant holds when a conversation begins.
LEMMA Start == Init => IInv
<1> SUFFICES ASSUME Init PROVE IInv
  OBVIOUS
<1> USE DEF Init, Connected
<1>1. Shape
  BY ClamdAssumption, AsksIs DEF Shape, Messages
<1>2. Conversation
  BY <1>1, ClamdAssumption DEF Shape, Conversation
<1>3. Answers /\ Blame
  BY DEF Answers, Blame, Limited
<1>4. VerdictIsTrue /\ FailureHasCause
  BY DEF VerdictIsTrue, FailureHasCause, Running, Dependency, Canceled
<1> QED
  BY <1>1, <1>2, <1>3, <1>4 DEF IInv

\* Dialing starts the dialogue with its first question or ends it at once.
LEMMA DialStep == IInv /\ Dial => IInv'
<1> SUFFICES ASSUME IInv, Dial PROVE IInv'
  OBVIOUS
<1> USE DEF Dial, Fail, given, peer, clocks, result, Connected
<1>1. CASE pc' = "failed"
  <2>1. Shape'
    BY <1>1 DEF IInv, Shape
  <2>2. Conversation' /\ Answers'
    BY <1>1 DEF IInv, Shape, Conversation, Answers
  <2>3. Faulty => Faulty'
    BY DEF Faulty
  <2>4. fileCtx # "live" \/ due \/ Faulty'
    BY <1>1 DEF Faulty, DaemonFaults
  <2>5. Blame'
    BY <1>1, <2>3, <2>4 DEF IInv, Shape, Blame, Cause, Faulty, DaemonFaults, Limited
  <2>6. VerdictIsTrue' /\ FailureHasCause'
    BY <1>1 DEF IInv, Shape, VerdictIsTrue, FailureHasCause, Limited, Running, Dependency,
       Canceled
  <2> QED BY <2>1, <2>2, <2>5, <2>6 DEF IInv
<1>2. CASE pc' = "send"
  <2>1. Shape'
    BY <1>2 DEF IInv, Shape
  <2>2. Conversation' /\ Answers'
    BY <1>2 DEF IInv, Shape, Conversation, Answers
  <2>3. Blame'
    BY <1>2 DEF IInv, Shape, Blame, Cause, Faulty, DaemonFaults, Limited
  <2>4. VerdictIsTrue' /\ FailureHasCause'
    BY <1>2 DEF IInv, Shape, VerdictIsTrue, FailureHasCause, Running, Dependency, Canceled
  <2> QED BY <2>1, <2>2, <2>3, <2>4 DEF IInv
<1> QED BY <1>1, <1>2

\* A message the client sends lengthens the stream by that message, or the write fails.
LEMMA SendStep == IInv /\ Send => IInv'
<1> SUFFICES ASSUME IInv, Send PROVE IInv'
  OBVIOUS
<1> USE DEF Send, Write, Fail, given, peer, clocks, result, Connected
<1>a. Head(asks) \in Messages /\ asks # <<>>
  BY AsksIs DEF IInv, Shape, Messages
<1>b. wire = <<>> /\ (Append(wire, Head(asks)) = <<Head(asks)>>)
  BY <1>a DEF IInv, Shape
<1>d. wire' \in Seq(Messages)
  <2>1. Append(wire, Head(asks)) \in Seq(Messages)
    BY <1>a, AppendIs DEF IInv, Shape
  <2> QED BY <1>b, <2>1 DEF IInv, Shape
<1>e. pc' = "chunk" => asks = <<"scan">>
  BY AsksIs DEF IInv, Shape
<1>1. Shape'
  BY <1>d, <1>e, AsksIs DEF IInv, Shape
<1>2. Conversation'
  <2>1. CASE pc' = "failed"
    BY <2>1 DEF IInv, Shape, Conversation
  <2>2. CASE pc' # "failed"
    <3>1. wire' = <<Head(asks)>> /\ Len(wire') = 1 /\ wire'[1] = Head(asks)
      BY <1>b, <2>2
    <3>2. CASE asks = <<"scan">>
      <4>1. Count' = 1 /\ Handled' = 0 /\ Head(asks) = "scan"
        BY <2>2, <3>1, <3>2, AsksIs DEF IInv, Shape, Count, Handled
      <4>2. Stream(0)' = "scan"
        BY DEF Stream
      <4> QED
        BY <2>2, <3>1, <3>2, <4>1, <4>2, AsksIs DEF IInv, Shape, Conversation
    <3>3. CASE asks # <<"scan">>
      <4>1. Head(asks) = asks[1]
        BY <3>3, AsksIs DEF IInv, Shape
      <4> QED
        BY <3>1, <3>3, <4>1 DEF IInv, Shape, Conversation
    <3> QED BY <3>2, <3>3
  <2> QED BY <2>1, <2>2
<1>3. Answers'
  BY DEF IInv, Shape, Answers, Conversation, Contains
<1>4. Blame'
  BY <1>1 DEF IInv, Shape, Blame, Cause, Faulty, DaemonFaults, Limited
<1>5. VerdictIsTrue' /\ FailureHasCause'
  BY DEF IInv, Shape, Answers, Conversation, Blame, VerdictIsTrue, FailureHasCause,
     Cause, Faulty, DaemonFaults, Limited, Dependency, Canceled, Ok, Running
<1> QED
  BY <1>1, <1>2, <1>3, <1>4, <1>5 DEF IInv

\* Reading a chunk changes only the position in the file.
LEMMA ReadChunkStep == IInv /\ ReadChunk => IInv'
<1> SUFFICES ASSUME IInv, ReadChunk PROVE IInv'
  OBVIOUS
<1> USE DEF ReadChunk, Write, Fail, given, peer, clocks, result, Connected
<1>1. Shape'
  BY AsksIs DEF IInv, Shape, Messages, Running
<1>2. Conversation'
  <2>1. CASE pc' = "failed"
    BY <2>1 DEF IInv, Shape, Conversation
  <2>2. CASE pc' # "failed"
    <3>1. Count' = Count /\ Handled' = Handled
      BY <2>2 DEF IInv, Shape, Count, Handled
    <3>2. \A k \in 1..Len(wire) : Stream(Handled + k - 1)' = Stream(Handled + k - 1)
      BY <3>1 DEF Stream
    <3> QED
      BY <2>2, <3>1, <3>2 DEF IInv, Shape, Conversation
  <2> QED BY <2>1, <2>2
<1>3. Answers'
  BY DEF IInv, Shape, Answers, Conversation, Contains
<1>4. Blame'
  BY <1>1 DEF IInv, Shape, Blame, Cause, Faulty, DaemonFaults, Limited
<1>5. VerdictIsTrue' /\ FailureHasCause'
  BY DEF IInv, Shape, Answers, Conversation, Blame, VerdictIsTrue, FailureHasCause,
     Cause, Faulty, DaemonFaults, Limited, Dependency, Canceled, Ok, Running
<1> QED
  BY <1>1, <1>2, <1>3, <1>4, <1>5 DEF IInv

\* A read error ends the dialogue before the terminator is sent.
LEMMA ReadFailsStep == IInv /\ ReadFails => IInv'
<1> SUFFICES ASSUME IInv, ReadFails PROVE IInv'
  OBVIOUS
<1> USE DEF ReadFails, Write, Fail, given, peer, clocks, result, Connected
<1>1. Shape'
  BY AsksIs DEF IInv, Shape, Messages, Running
<1>2. Conversation'
  BY <1>1 DEF IInv, Shape, Conversation, Handled, Count, Stream
<1>3. Answers'
  BY DEF IInv, Shape, Answers, Conversation, Contains
<1>4. Blame'
  BY <1>1 DEF IInv, Shape, Blame, Cause, Faulty, DaemonFaults, Limited
<1>5. VerdictIsTrue' /\ FailureHasCause'
  BY DEF IInv, Shape, Answers, Conversation, Blame, VerdictIsTrue, FailureHasCause,
     Cause, Faulty, DaemonFaults, Limited, Dependency, Canceled, Ok, Running
<1> QED
  BY <1>1, <1>2, <1>3, <1>4, <1>5 DEF IInv

\* A chunk written lengthens the stream by the next part of the file.
LEMMA WriteChunkStep == IInv /\ WriteChunk => IInv'
<1> SUFFICES ASSUME IInv, WriteChunk PROVE IInv'
  OBVIOUS
<1> USE DEF WriteChunk, Write, Fail, given, peer, clocks, result, Connected
<1>a. wire \in Seq(Messages) /\ file[sent] \in Messages /\ asks = <<"scan">>
  BY DEF IInv, Shape, Messages
<1>b. wire' \in Seq(Messages)
  <2>1. Append(wire, file[sent]) \in Seq(Messages)
    BY <1>a, AppendIs
  <2> QED BY <1>a, <2>1
<1>1. Shape'
  BY <1>a, <1>b DEF IInv, Shape
<1>2. Conversation'
  <2>1. CASE pc' = "failed"
    BY <2>1 DEF IInv, Shape, Conversation
  <2>2. CASE pc' # "failed"
    <3>1. /\ Len(wire') = Len(wire) + 1 /\ wire'[Len(wire) + 1] = file[sent]
          /\ \A k \in 1..Len(wire) : wire'[k] = wire[k]
      BY <1>a, <2>2, AppendIs
    <3>2. Count = sent /\ Count' = Count + 1 /\ Handled' = Handled /\ Handled + Len(wire) = Count
      BY <1>a, <2>2, <3>1 DEF IInv, Shape, Count, Handled
    <3>3. file[sent] = Stream(Handled + Len(wire))
      BY <3>2 DEF IInv, Shape, Stream
    <3>4. \A j : Stream(j)' = Stream(j)
      BY DEF Stream
    <3>5. Len(wire) \in Nat /\ Handled \in Int
      BY <1>a, <3>2 DEF IInv, Shape, Handled
    <3>6. \A k \in 1..Len(wire') : daemon = "reading" => wire'[k] = Stream(Handled + k - 1)
      <4> SUFFICES ASSUME NEW k \in 1..Len(wire'), daemon = "reading"
                   PROVE  wire'[k] = Stream(Handled + k - 1)
        OBVIOUS
      <4>1. CASE k = Len(wire) + 1
        <5>1. Handled + k - 1 = Handled + Len(wire)
          BY <3>5, <4>1
        <5> QED BY <3>1, <3>3, <4>1, <5>1
      <4>2. CASE k \in 1..Len(wire)
        BY <1>a, <3>1, <4>2 DEF IInv, Conversation
      <4> QED BY <3>1, <3>5, <4>1, <4>2
    <3>7. /\ Len(took) <= Len(file) /\ Len(took) <= Limit
          /\ \A j \in 1..Len(took) : took[j] = file[j]
          /\ daemon = "reading" => (Handled = 0 /\ took = <<>>) \/ Handled = Len(took) + 1
      BY <1>a DEF IInv, Conversation
    <3> QED
      BY <1>a, <2>2, <3>2, <3>4, <3>6, <3>7 DEF Conversation
  <2> QED BY <2>1, <2>2
<1>3. Answers'
  BY DEF IInv, Shape, Answers, Conversation, Contains
<1>4. Blame'
  BY <1>1 DEF IInv, Shape, Blame, Cause, Faulty, DaemonFaults, Limited
<1>5. VerdictIsTrue' /\ FailureHasCause'
  BY DEF IInv, Shape, Answers, Conversation, Blame, VerdictIsTrue, FailureHasCause,
     Cause, Faulty, DaemonFaults, Limited, Dependency, Canceled, Ok, Running
<1> QED
  BY <1>1, <1>2, <1>3, <1>4, <1>5 DEF IInv

\* The terminator is sent only when the file has been read to its end.
LEMMA FinishStep == IInv /\ Finish => IInv'
<1> SUFFICES ASSUME IInv, Finish PROVE IInv'
  OBVIOUS
<1> USE DEF Finish, Write, Fail, given, peer, clocks, result, Connected
<1>a. wire \in Seq(Messages) /\ "end" \in Messages /\ asks = <<"scan">>
  BY DEF IInv, Shape, Messages
<1>b. wire' \in Seq(Messages)
  <2>1. Append(wire, "end") \in Seq(Messages)
    BY <1>a, AppendIs
  <2> QED BY <1>a, <2>1
<1>1. Shape'
  BY <1>a, <1>b DEF IInv, Shape
<1>2. Conversation'
  <2>1. CASE pc' = "failed"
    BY <2>1 DEF IInv, Shape, Conversation
  <2>2. CASE pc' # "failed"
    <3>1. /\ Len(wire') = Len(wire) + 1 /\ wire'[Len(wire) + 1] = "end"
          /\ \A k \in 1..Len(wire) : wire'[k] = wire[k]
      BY <1>a, <2>2, AppendIs
    <3>2. /\ Count = Len(file) + 1 /\ Count' = Count + 1 /\ Handled' = Handled
          /\ Handled + Len(wire) = Count
      BY <1>a, <2>2, <3>1 DEF IInv, Shape, Count, Handled
    <3>3. "end" = Stream(Handled + Len(wire))
      BY <3>2 DEF IInv, Shape, Stream
    <3>4. \A j : Stream(j)' = Stream(j)
      BY DEF Stream
    <3>5. Len(wire) \in Nat /\ Handled \in Int
      BY <1>a, <3>2 DEF IInv, Shape, Handled
    <3>6. \A k \in 1..Len(wire') : daemon = "reading" => wire'[k] = Stream(Handled + k - 1)
      <4> SUFFICES ASSUME NEW k \in 1..Len(wire'), daemon = "reading"
                   PROVE  wire'[k] = Stream(Handled + k - 1)
        OBVIOUS
      <4>1. CASE k = Len(wire) + 1
        <5>1. Handled + k - 1 = Handled + Len(wire)
          BY <3>5, <4>1
        <5> QED BY <3>1, <3>3, <4>1, <5>1
      <4>2. CASE k \in 1..Len(wire)
        BY <1>a, <3>1, <4>2 DEF IInv, Conversation
      <4> QED BY <3>1, <3>5, <4>1, <4>2
    <3>7. /\ Len(took) <= Len(file) /\ Len(took) <= Limit
          /\ \A j \in 1..Len(took) : took[j] = file[j]
          /\ daemon = "reading" => (Handled = 0 /\ took = <<>>) \/ Handled = Len(took) + 1
      BY <1>a DEF IInv, Conversation
    <3> QED
      BY <1>a, <2>2, <3>2, <3>4, <3>6, <3>7 DEF Conversation
  <2> QED BY <2>1, <2>2
<1>3. Answers'
  BY DEF IInv, Shape, Answers, Conversation, Contains
<1>4. Blame'
  BY <1>1 DEF IInv, Shape, Blame, Cause, Faulty, DaemonFaults, Limited
<1>5. VerdictIsTrue' /\ FailureHasCause'
  BY DEF IInv, Shape, Answers, Conversation, Blame, VerdictIsTrue, FailureHasCause,
     Cause, Faulty, DaemonFaults, Limited, Dependency, Canceled, Ok, Running
<1> QED
  BY <1>1, <1>2, <1>3, <1>4, <1>5 DEF IInv

\* An answer is judged by what clamd had taken when it was given.
LEMMA ReceiveStep == IInv /\ Receive => IInv'
<1> SUFFICES ASSUME IInv, Receive PROVE IInv'
  OBVIOUS
<1> USE DEF Receive, Judge, Answered, Write, Fail, given, peer, clocks, result, Connected
<1>a. asks # <<"scan">> => Head(asks) = asks[1]
  BY AsksIs DEF IInv, Shape
<1>b. asks = <<"scan">> => Head(asks) = "scan"
  BY AsksIs
<1>c. asks' # asks => asks \in {<<"ping", "version">>, <<"version">>} /\ asks' = Tail(asks)
  BY <1>b DEF IInv, Shape
<1>1. Shape'
  <2>1. CASE asks' = asks
    BY <2>1 DEF IInv, Shape, Running
  <2>2. CASE asks' # asks
    <3>1. asks' \in {<<"version">>, <<>>}
      BY <1>c, <2>2, AsksIs
    <3>2. pc' = "dial" \/ pc' = "done"
      BY <2>2
    <3>3. pc' = "dial" => asks' # <<>> /\ code' = code
      BY <1>c, <2>2, AsksIs
    <3>4. /\ verdict' = verdict /\ took = <<>> /\ sent = 0
          /\ UNCHANGED <<file, took, wire, sent, answer, daemon, fileCtx, batchCtx>>
      BY <1>c, <2>2, AsksIs DEF IInv, Shape
    <3> QED BY <3>1, <3>2, <3>3, <3>4, AsksIs DEF IInv, Shape, Running
  <2> QED BY <2>1, <2>2
<1>2. Conversation'
  BY <1>1 DEF IInv, Shape, Conversation, Handled, Count, Stream
<1>3. Answers'
  BY DEF IInv, Shape, Answers, Conversation, Contains
<1>4. Blame'
  <2>1. CASE pc' = "failed"
    BY <1>1, <1>a, <1>b, <2>1 DEF IInv, Shape, Blame, Cause, Faulty, DaemonFaults, Limited
  <2>2. CASE pc' # "failed"
    <3>1. pc' \in {"dial", "done"}
      BY <2>2
    <3>2. asks' = asks \/ answer \in {"ping", "version"}
      BY <1>c, AsksIs DEF IInv, Shape
    <3> QED BY <3>1, <1>c, AsksIs DEF IInv, Shape, Blame, Cause, Faulty, DaemonFaults, Limited
  <2> QED BY <2>1, <2>2
<1>5. VerdictIsTrue' /\ FailureHasCause'
  <2>1. CASE pc' = "done" /\ asks' = asks
    <3>1. Judge /\ asks = <<"scan">>
      BY <1>a, <1>c, <2>1, AsksIs DEF IInv, Shape
    <3>2. VerdictIsTrue'
      BY <3>1 DEF IInv, Shape, Answers, Conversation, VerdictIsTrue, Ok
    <3>3. /\ code' = Dependency => policy = "reject_batch" /\ answer = "error"
          /\ code' # Canceled /\ verdict' # "malware_scan_timeout"
          /\ verdict' = "malware_scan_error" =>
               answer = "limit" \/ (policy = "reject" /\ answer = "error")
      BY <1>1, <3>1 DEF IInv, Shape, Ok, Running, Dependency, Canceled
    <3> QED BY <2>1, <3>1, <3>2, <3>3 DEF FailureHasCause, ScanFailed, Limited
  <2>2. CASE pc' # "done" \/ asks' # asks
    <3>1. verdict' = "none" /\ code' \in {Running, Ok}
      BY <1>c, <2>2 DEF IInv, Shape
    <3> QED BY <3>1 DEF VerdictIsTrue, FailureHasCause, Ok, Running, Dependency, Canceled
  <2> QED BY <2>1, <2>2
<1> QED
  BY <1>1, <1>2, <1>3, <1>4, <1>5 DEF IInv

\* After an error the client looks at the two contexts.
LEMMA ExamineStep == IInv /\ Examine => IInv'
<1> SUFFICES ASSUME IInv, Examine PROVE IInv'
  OBVIOUS
<1> USE DEF Examine, Write, Fail, given, peer, clocks, result, Connected
<1>1. Shape'
  BY AsksIs DEF IInv, Shape, Messages, Running
<1>2. Conversation'
  BY <1>1 DEF IInv, Shape, Conversation, Handled, Count, Stream
<1>3. Answers'
  BY DEF IInv, Shape, Answers, Conversation, Contains
<1>4. Blame'
  BY <1>1 DEF IInv, Shape, Blame, Cause, Faulty, DaemonFaults, Limited
<1>5. VerdictIsTrue' /\ FailureHasCause'
  BY DEF IInv, Shape, Answers, Conversation, Blame, VerdictIsTrue, FailureHasCause,
     Cause, Faulty, DaemonFaults, Limited, Dependency, Canceled, Ok, Running
<1> QED
  BY <1>1, <1>2, <1>3, <1>4, <1>5 DEF IInv

\* The cause charged follows from what the contexts showed and what happened.
LEMMA ClassifyStep == IInv /\ Classify => IInv'
<1> SUFFICES ASSUME IInv, Classify PROVE IInv'
  OBVIOUS
<1> USE DEF Classify, Write, Fail, given, peer, clocks, result, Connected
<1>1. Shape'
  BY AsksIs DEF IInv, Shape, Messages, Running
<1>2. Conversation'
  BY <1>1 DEF IInv, Shape, Conversation, Handled, Count, Stream
<1>3. Answers'
  BY DEF IInv, Shape, Answers, Conversation, Contains
<1>4. Blame'
  BY <1>1 DEF IInv, Shape, Blame, Cause, Faulty, DaemonFaults, Limited
<1>5. VerdictIsTrue' /\ FailureHasCause'
  <2>1. /\ Cause /\ Cause' = Cause /\ pc = "classify" /\ verdict = "none"
        /\ asks' = asks /\ policy' = policy /\ fileCtx' = fileCtx /\ due' = due
        /\ fileCtx = "expired" => due
    BY DEF IInv, Shape, Blame, Cause, Faulty, Limited
  <2>2. CASE asks # <<"scan">>
    <3>1. code' = Dependency /\ verdict' = "none"
      BY <2>1, <2>2, AsksIs DEF IInv, Shape
    <3>2. (Faulty \/ due)'
      BY <2>1, <2>2 DEF Cause
    <3> QED BY <2>1, <2>2, <3>1, <3>2
            DEF VerdictIsTrue, FailureHasCause, Dependency, Canceled
  <2>3. CASE asks = <<"scan">>
    <3>1. Head(asks) = "scan" /\ policy \in {"reject", "reject_batch"}
      BY <2>3, AsksIs DEF IInv, Shape
    <3>2. fileCtx # "expired" => ScanFailed'
      BY <2>1 DEF ScanFailed
    <3> QED BY <2>1, <2>3, <3>1, <3>2
            DEF VerdictIsTrue, FailureHasCause, Ok, Dependency, Canceled
  <2> QED BY <2>2, <2>3
<1> QED
  BY <1>1, <1>2, <1>3, <1>4, <1>5 DEF IInv

\* When clamd takes a message off the wire, the rest is what follows in the stream.
LEMMA HandledIs ==
    ASSUME UNCHANGED <<pc, file, sent>>, Count \in Int, Len(wire) \in Nat \ {0},
           Len(wire') = Len(wire) - 1,
           \A k \in 1..(Len(wire) - 1) : wire'[k] = wire[k + 1],
           \A k \in 1..Len(wire) : wire[k] = Stream(Handled + k - 1)
    PROVE  /\ Handled' = Handled + 1
           /\ (\A k \in 1..Len(wire) : wire[k] = Stream(Handled + k - 1))'
<1>1. Count' = Count
  BY DEF Count
<1>2. Handled' = Handled + 1 /\ Handled \in Int
  BY <1>1 DEF Handled
<1>3. ASSUME NEW k \in 1..Len(wire') PROVE wire'[k] = (Stream(Handled + k - 1))'
  <2>1. wire'[k] = wire[k + 1] /\ k + 1 \in 1..Len(wire)
    OBVIOUS
  <2>2. wire[k + 1] = Stream(Handled + (k + 1) - 1)
    BY <2>1
  <2>3. Handled + (k + 1) - 1 = Handled' + k - 1
    BY <1>2
  <2> QED BY <2>1, <2>2, <2>3 DEF Stream
<1> QED BY <1>2, <1>3

\* clamd takes a message and may answer: what it has taken stays a prefix of the file.
LEMMA HandleStep == IInv /\ Handle => IInv'
<1> SUFFICES ASSUME IInv, Handle PROVE IInv'
  OBVIOUS
<1> DEFINE message == Head(wire)
<1> USE DEF given, peer, clocks, result, Connected
<1>a. /\ wire \in Seq(Messages) /\ wire # <<>> /\ wire' = Tail(wire) /\ daemon = "reading"
      /\ pc \in {"chunk", "write", "finish", "receive"}
      /\ UNCHANGED <<pc, asks, given, sent, clocks, result, broke>>
  BY DEF Handle, IInv, Shape
<1>b. /\ Len(wire) \in Nat \ {0} /\ message = wire[1] /\ message \in Messages
      /\ wire' \in Seq(Messages) /\ Len(wire') = Len(wire) - 1
      /\ \A k \in 1..(Len(wire) - 1) : wire'[k] = wire[k + 1]
  BY <1>a, TailIs
<1>c. \/ message \in {"ping", "version"} /\ Reply(message) /\ UNCHANGED took
      \/ message = "scan" /\ UNCHANGED peer
      \/ /\ message = "end"
         /\ Reply(IF Contains(took, "bad") THEN "found" ELSE "ok") /\ UNCHANGED took
      \/ /\ message \in {"good", "bad"}
         /\ IF Len(took) = Limit THEN Reply("limit") /\ UNCHANGED took
            ELSE took' = Append(took, message) /\ UNCHANGED <<daemon, answer>>
  BY DEF Handle
<1>d. asks # <<"scan">> => message \in {"ping", "version"} /\ message = asks[1]
  BY <1>a, <1>b, AsksIs DEF IInv, Shape, Conversation
<1>e. asks = <<"scan">> =>
        /\ message = Stream(Handled) /\ Handled \in Nat /\ Handled < Count
        /\ (Handled = 0 /\ took = <<>>) \/ Handled = Len(took) + 1
  <2> SUFFICES ASSUME asks = <<"scan">>
               PROVE  /\ message = Stream(Handled) /\ Handled \in Nat /\ Handled < Count
                      /\ (Handled = 0 /\ took = <<>>) \/ Handled = Len(took) + 1
    OBVIOUS
  <2>1. /\ (Handled = 0 /\ took = <<>>) \/ Handled = Len(took) + 1
        /\ \A k \in 1..Len(wire) : wire[k] = Stream(Handled + k - 1)
    BY <1>a DEF IInv, Conversation
  <2>2. Handled \in Nat /\ Len(took) \in Nat
    BY <2>1 DEF IInv, Shape
  <2>3. wire[1] = Stream(Handled + 1 - 1) /\ Handled + 1 - 1 = Handled
    BY <1>b, <2>1, <2>2
  <2>4. Count \in Int
    BY DEF Count, IInv, Shape
  <2> QED BY <1>b, <2>1, <2>2, <2>3, <2>4 DEF Handled
<1>f. asks = <<"scan">> =>
        \/ message = "scan" /\ Handled = 0 /\ took = <<>>
        \/ /\ message = "end" /\ Handled = Len(file) + 1 /\ Len(took) = Len(file) /\ pc = "receive"
        \/ /\ message \in {"good", "bad"} /\ Handled = Len(took) + 1 /\ Handled <= Len(file)
           /\ message = file[Handled]
  BY <1>a, <1>e DEF IInv, Shape, Conversation, Stream, Count
<1>l. Count \in Int
  BY DEF Count, IInv, Shape
<1>g. CASE asks # <<"scan">>
  <2>1. answer' = asks[1] /\ daemon' = "closed" /\ took' = took
    BY <1>c, <1>d, <1>g DEF Reply
  <2>2. Shape'
    BY <1>a, <1>b, <1>g, <2>1, AsksIs DEF IInv, Shape
  <2>3. Conversation'
    BY <1>a, <1>b, <1>g, <2>1 DEF IInv, Shape, Conversation
  <2>4. Answers' /\ Blame'
    BY <1>a, <1>d, <1>g, <2>1, AsksIs
       DEF IInv, Shape, Answers, Blame, Cause, Faulty, DaemonFaults, Limited
  <2>5. VerdictIsTrue' /\ FailureHasCause'
    BY <1>a, <2>1 DEF IInv, Shape, VerdictIsTrue, FailureHasCause, Running, Dependency, Canceled
  <2> QED BY <2>2, <2>3, <2>4, <2>5 DEF IInv
<1>h. CASE asks = <<"scan">> /\ message = "scan"
  <2>1. UNCHANGED peer /\ took = <<>> /\ Handled = 0
    BY <1>c, <1>f, <1>h
  <2>2. Shape'
    BY <1>a, <1>b, <1>h, <2>1 DEF IInv, Shape
  <2>3. Conversation'
    <3>1. Handled' = 1 /\ (\A k \in 1..Len(wire) : wire[k] = Stream(Handled + k - 1))'
      BY <1>a, <1>b, <1>h, <1>l, <2>1, HandledIs DEF IInv, Conversation
    <3> QED
      BY <1>a, <1>h, <2>1, <3>1 DEF IInv, Shape, Conversation
  <2>4. Answers' /\ Blame'
    BY <1>a, <2>1 DEF IInv, Shape, Answers, Blame, Cause, Faulty, DaemonFaults, Limited
  <2>5. VerdictIsTrue' /\ FailureHasCause'
    BY <1>a, <2>1 DEF IInv, Shape, VerdictIsTrue, FailureHasCause, Running, Dependency, Canceled
  <2> QED BY <2>2, <2>3, <2>4, <2>5 DEF IInv
<1>i. CASE asks = <<"scan">> /\ message = "end"
  <2>1. /\ daemon' = "closed" /\ took' = took /\ pc = "receive"
        /\ answer' = IF Contains(took, "bad") THEN "found" ELSE "ok"
    BY <1>c, <1>f, <1>i DEF Reply
  <2>2. took = file
    BY <1>f, <1>i, SameIs DEF IInv, Shape, Conversation
  <2>3. Shape'
    BY <1>a, <1>b, <1>i, <2>1 DEF IInv, Shape
  <2>4. Conversation'
    BY <1>a, <1>i, <2>1 DEF IInv, Shape, Conversation
  <2>5. Answers'
    BY <1>a, <2>1, <2>2 DEF Answers
  <2>6. Blame'
    BY <1>a, <1>i, <2>1 DEF IInv, Shape, Blame, Cause, Faulty, DaemonFaults, Limited
  <2>7. VerdictIsTrue' /\ FailureHasCause'
    BY <1>a, <2>1 DEF IInv, Shape, VerdictIsTrue, FailureHasCause, Running, Dependency, Canceled
  <2> QED BY <2>3, <2>4, <2>5, <2>6, <2>7 DEF IInv
<1>j. CASE asks = <<"scan">> /\ message \in {"good", "bad"} /\ Len(took) = Limit
  <2>1. daemon' = "closed" /\ took' = took /\ answer' = "limit"
    BY <1>c, <1>j DEF Reply
  <2>2. Shape'
    BY <1>a, <1>b, <1>j, <2>1 DEF IInv, Shape
  <2>3. Conversation'
    BY <1>a, <1>j, <2>1 DEF IInv, Shape, Conversation
  <2>4. Answers' /\ Blame'
    BY <1>a, <1>j, <2>1 DEF IInv, Shape, Answers, Blame, Cause, Faulty, DaemonFaults, Limited
  <2>5. VerdictIsTrue' /\ FailureHasCause'
    BY <1>a, <2>1 DEF IInv, Shape, VerdictIsTrue, FailureHasCause, Running, Dependency, Canceled
  <2> QED BY <2>2, <2>3, <2>4, <2>5 DEF IInv
<1>k. CASE asks = <<"scan">> /\ message \in {"good", "bad"} /\ Len(took) # Limit
  <2>1. took' = Append(took, message) /\ UNCHANGED <<daemon, answer>>
    BY <1>c, <1>k
  <2>2. /\ took' \in Seq({"good", "bad"}) /\ Len(took') = Len(took) + 1
        /\ \A k \in 1..Len(took) : took'[k] = took[k]
        /\ took'[Len(took) + 1] = message
    BY <1>k, <2>1, AppendIs DEF IInv, Shape
  <2>3. Shape'
    BY <1>a, <1>b, <1>k, <2>1, <2>2 DEF IInv, Shape
  <2>4. /\ Len(took') <= Len(file) /\ Len(took') <= Limit
        /\ \A j \in 1..Len(took') : took'[j] = file[j]
    <3>1. Len(took) + 1 <= Len(file) /\ message = file[Len(took) + 1] /\ Len(took) \in Nat
      BY <1>f, <1>k DEF IInv, Shape
    <3>2. Len(took) + 1 <= Limit
      BY <1>k, <3>1, ClamdAssumption DEF IInv, Conversation
    <3>3. \A j \in 1..Len(took) : took[j] = file[j]
      BY DEF IInv, Conversation
    <3> QED BY <2>2, <3>1, <3>2, <3>3
  <2>5. Handled = Len(took) + 1
    BY <1>f, <1>k
  <2>6. Conversation'
    <3>1. /\ Handled' = Len(took') + 1
          /\ (\A k \in 1..Len(wire) : wire[k] = Stream(Handled + k - 1))'
      BY <1>a, <1>b, <1>k, <1>l, <2>2, <2>5, HandledIs DEF IInv, Conversation
    <3> QED
      BY <1>a, <1>k, <2>4, <3>1 DEF Conversation
  <2>7. Answers' /\ Blame'
    BY <1>a, <1>k, <2>1 DEF IInv, Shape, Answers, Blame, Cause, Faulty, DaemonFaults, Limited
  <2>8. VerdictIsTrue' /\ FailureHasCause'
    BY <1>a, <2>1 DEF IInv, Shape, VerdictIsTrue, FailureHasCause, Running, Dependency, Canceled
  <2> QED BY <2>3, <2>6, <2>7, <2>8 DEF IInv
<1> QED BY <1>f, <1>g, <1>h, <1>i, <1>j, <1>k

\* A misbehaving clamd leaves a fault behind.
LEMMA MisbehaveStep == IInv /\ Misbehave => IInv'
<1> SUFFICES ASSUME IInv, Misbehave PROVE IInv'
  OBVIOUS
<1> USE DEF Misbehave, Reply, Write, Fail, given, peer, clocks, result, Connected
<1>1. Shape'
  BY AsksIs DEF IInv, Shape, Messages, Running
<1>2. Conversation'
  BY <1>1 DEF IInv, Shape, Conversation, Handled, Count, Stream
<1>3. Answers'
  BY DEF IInv, Shape, Answers, Conversation, Contains
<1>4. Blame'
  BY <1>1 DEF IInv, Shape, Blame, Cause, Faulty, DaemonFaults, Limited
<1>5. VerdictIsTrue' /\ FailureHasCause'
  BY DEF IInv, Shape, Answers, Conversation, Blame, VerdictIsTrue, FailureHasCause,
     Cause, Faulty, DaemonFaults, Limited, Dependency, Canceled, Ok, Running
<1> QED
  BY <1>1, <1>2, <1>3, <1>4, <1>5 DEF IInv

\* The deadline passes: timers may fire from now on.
LEMMA DeadlineStep == IInv /\ Deadline => IInv'
<1> SUFFICES ASSUME IInv, Deadline PROVE IInv'
  OBVIOUS
<1> USE DEF Deadline, Write, Fail, given, peer, clocks, result, Connected
<1>1. Shape'
  BY AsksIs DEF IInv, Shape, Messages, Running
<1>2. Conversation'
  BY <1>1 DEF IInv, Shape, Conversation, Handled, Count, Stream
<1>3. Answers'
  BY DEF IInv, Shape, Answers, Conversation, Contains
<1>4. Blame'
  BY <1>1 DEF IInv, Shape, Blame, Cause, Faulty, DaemonFaults, Limited
<1>5. VerdictIsTrue' /\ FailureHasCause'
  BY DEF IInv, Shape, Answers, Conversation, Blame, VerdictIsTrue, FailureHasCause,
     Cause, Faulty, DaemonFaults, Limited, Dependency, Canceled, Ok, Running
<1> QED
  BY <1>1, <1>2, <1>3, <1>4, <1>5 DEF IInv

\* The timer of the connection fires only after the deadline.
LEMMA ConnTimerStep == IInv /\ ConnTimer => IInv'
<1> SUFFICES ASSUME IInv, ConnTimer PROVE IInv'
  OBVIOUS
<1> USE DEF ConnTimer, Write, Fail, given, peer, clocks, result, Connected
<1>1. Shape'
  BY AsksIs DEF IInv, Shape, Messages, Running
<1>2. Conversation'
  BY <1>1 DEF IInv, Shape, Conversation, Handled, Count, Stream
<1>3. Answers'
  BY DEF IInv, Shape, Answers, Conversation, Contains
<1>4. Blame'
  BY <1>1 DEF IInv, Shape, Blame, Cause, Faulty, DaemonFaults, Limited
<1>5. VerdictIsTrue' /\ FailureHasCause'
  BY DEF IInv, Shape, Answers, Conversation, Blame, VerdictIsTrue, FailureHasCause,
     Cause, Faulty, DaemonFaults, Limited, Dependency, Canceled, Ok, Running
<1> QED
  BY <1>1, <1>2, <1>3, <1>4, <1>5 DEF IInv

\* The timer of the file's context fires only after the deadline.
LEMMA CtxTimerStep == IInv /\ CtxTimer => IInv'
<1> SUFFICES ASSUME IInv, CtxTimer PROVE IInv'
  OBVIOUS
<1> USE DEF CtxTimer, Write, Fail, given, peer, clocks, result, Connected
<1>1. Shape'
  BY AsksIs DEF IInv, Shape, Messages, Running
<1>2. Conversation'
  BY <1>1 DEF IInv, Shape, Conversation, Handled, Count, Stream
<1>3. Answers'
  BY DEF IInv, Shape, Answers, Conversation, Contains
<1>4. Blame'
  BY <1>1 DEF IInv, Shape, Blame, Cause, Faulty, DaemonFaults, Limited
<1>5. VerdictIsTrue' /\ FailureHasCause'
  BY DEF IInv, Shape, Answers, Conversation, Blame, VerdictIsTrue, FailureHasCause,
     Cause, Faulty, DaemonFaults, Limited, Dependency, Canceled, Ok, Running
<1> QED
  BY <1>1, <1>2, <1>3, <1>4, <1>5 DEF IInv

\* Cancellation ends both contexts, unless the file's has ended.
LEMMA CancelStep == IInv /\ Cancel => IInv'
<1> SUFFICES ASSUME IInv, Cancel PROVE IInv'
  OBVIOUS
<1> USE DEF Cancel, Write, Fail, given, peer, clocks, result, Connected
<1>1. Shape'
  BY AsksIs DEF IInv, Shape, Messages, Running
<1>2. Conversation'
  BY <1>1 DEF IInv, Shape, Conversation, Handled, Count, Stream
<1>3. Answers'
  BY DEF IInv, Shape, Answers, Conversation, Contains
<1>4. Blame'
  BY <1>1 DEF IInv, Shape, Blame, Cause, Faulty, DaemonFaults, Limited
<1>5. VerdictIsTrue' /\ FailureHasCause'
  BY DEF IInv, Shape, Answers, Conversation, Blame, VerdictIsTrue, FailureHasCause,
     Cause, Faulty, DaemonFaults, Limited, Dependency, Canceled, Ok, Running
<1> QED
  BY <1>1, <1>2, <1>3, <1>4, <1>5 DEF IInv

\* The function registered with the context sets the connection's deadline.
LEMMA InterruptStep == IInv /\ Interrupt => IInv'
<1> SUFFICES ASSUME IInv, Interrupt PROVE IInv'
  OBVIOUS
<1> USE DEF Interrupt, Write, Fail, given, peer, clocks, result, Connected
<1>1. Shape'
  BY AsksIs DEF IInv, Shape, Messages, Running
<1>2. Conversation'
  BY <1>1 DEF IInv, Shape, Conversation, Handled, Count, Stream
<1>3. Answers'
  BY DEF IInv, Shape, Answers, Conversation, Contains
<1>4. Blame'
  BY <1>1 DEF IInv, Shape, Blame, Cause, Faulty, DaemonFaults, Limited
<1>5. VerdictIsTrue' /\ FailureHasCause'
  BY DEF IInv, Shape, Answers, Conversation, Blame, VerdictIsTrue, FailureHasCause,
     Cause, Faulty, DaemonFaults, Limited, Dependency, Canceled, Ok, Running
<1> QED
  BY <1>1, <1>2, <1>3, <1>4, <1>5 DEF IInv

\* A step that changes nothing keeps the invariant.
LEMMA Stutter == IInv /\ UNCHANGED vars => IInv'
  BY DEF IInv, vars, Shape, Conversation, Answers, Blame, VerdictIsTrue, FailureHasCause,
     Connected, Count, Handled, Stream, Cause, Faulty, DaemonFaults, Limited,
     ScanFailed

\* The invariant holds in every state.
LEMMA Invariant == Spec => []IInv
<1>1. IInv /\ [Next]_vars => IInv'
  BY DialStep, SendStep, ReadChunkStep, ReadFailsStep, WriteChunkStep, FinishStep, ReceiveStep,
     ExamineStep, ClassifyStep, HandleStep, MisbehaveStep, DeadlineStep,
     ConnTimerStep, CtxTimerStep, CancelStep, InterruptStep, Stutter
     DEF Next, Client
<1> QED
  BY Start, <1>1, PTL DEF Spec

\* Whatever clamd and the timers do, a file is called clean only if clamd received all of
\* it within its limit and nothing bad was in it, and malware only if something bad was in
\* what clamd received.
THEOREM VerdictIsAlwaysTrue == Spec => []VerdictIsTrue
<1>1. IInv => VerdictIsTrue
  BY DEF IInv
<1> QED
  BY Invariant, <1>1, PTL

\* Every failure of the dependency check, the batch or the file is charged to what caused
\* it: clamd, the deadline, the file, the limit of the stream or the end of a context.
THEOREM FailureAlwaysHasCause == Spec => []FailureHasCause
<1>1. IInv => FailureHasCause
  BY DEF IInv
<1> QED
  BY Invariant, <1>1, PTL

\* The sizes of what is between the client and clamd, and what ends with a verdict.
Bounds ==
    /\ daemon \in {"listening", "reading", "stalled", "closed"}
    /\ Len(wire) <= Buffer
    /\ Len(took) <= sent
    /\ pc = "receive" /\ asks = <<"scan">> => sent = Len(file)
    /\ code \in {Running, Ok, Dependency, Canceled} /\ verdict \in Verdicts
    /\ pc = "done" => code # Running
    /\ pc = "done" => (verdict # "none" <=> code = Ok /\ asks = <<"scan">>)

\* A message on its way is one the socket has room for.
LEMMA WriteBounds ==
    ASSUME IInv, Bounds, NEW message \in Messages, NEW following, Write(message, following),
           following # "done", pc # "done",
           following = "receive" /\ asks = <<"scan">> => sent = Len(file)
    PROVE  Bounds'
<1> USE DEF Write, Fail, given, peer, clocks, result
<1>1. Len(wire') <= Buffer
  <2>1. CASE UNCHANGED wire
    BY <2>1 DEF Bounds
  <2>2. CASE Len(wire) < Buffer /\ wire' = Append(wire, message)
    <3>1. Len(wire') = Len(wire) + 1 /\ Len(wire) \in Nat
      BY <2>2, AppendIs DEF IInv, Shape
    <3> QED BY <2>2, <3>1, ClamdAssumption DEF ClamdAssumption
  <2> QED BY <2>1, <2>2
<1> QED BY <1>1 DEF Bounds

\* clamd takes no chunk the client has not read.
LEMMA HandleBounds == IInv /\ Bounds /\ Handle => Bounds'
<1> SUFFICES ASSUME IInv, Bounds, Handle PROVE Bounds'
  OBVIOUS
<1> USE DEF given, peer, clocks, result
<1>1. /\ wire \in Seq(Messages) /\ wire # <<>> /\ wire' = Tail(wire) /\ daemon = "reading"
      /\ Connected /\ took \in Seq({"good", "bad"}) /\ sent \in Nat /\ Len(took) \in Nat
      /\ UNCHANGED <<pc, asks, file, sent, verdict, code>> /\ Len(took) <= sent
      /\ sent <= Len(file) /\ Len(file) \in Nat
  BY DEF IInv, Shape, Handle, Bounds
<1>2. Len(wire) \in Nat \ {0} /\ Len(wire') = Len(wire) - 1 /\ Head(wire) = wire[1]
  BY <1>1, TailIs
<1>3. Len(wire') <= Buffer
  BY <1>2, ClamdAssumption DEF Bounds, ClamdAssumption
<1>4. daemon' \in {"reading", "closed"}
  BY <1>1 DEF Handle, Reply
<1>5. Len(took') <= sent
  <2>1. CASE UNCHANGED took
    BY <1>1, <2>1
  <2>2. CASE took' # took
    <3>1. Head(wire) \in {"good", "bad"} /\ took' = Append(took, Head(wire))
      BY <2>2 DEF Handle
    <3>2. Len(took') = Len(took) + 1
      BY <1>1, <3>1, AppendIs
    <3>3. asks = <<"scan">> /\ pc \in {"chunk", "write", "finish", "receive"}
      <4>1. pc # "send"
        BY <1>1 DEF IInv, Shape
      <4>2. ASSUME asks # <<"scan">>, pc = "receive" PROVE FALSE
        <5>1. wire[1] = asks[1]
          BY <1>2, <4>2 DEF IInv, Conversation
        <5> QED BY <1>2, <3>1, <4>2, <5>1, AsksIs DEF IInv, Shape
      <4> QED BY <1>1, <4>1, <4>2 DEF Connected, IInv, Shape
    <3>4. wire[1] = Stream(Handled) /\ Handled \in {0, Len(took) + 1} /\ Handled \in Int
      <4>1. Handled \in {0, Len(took) + 1}
        BY <1>1, <3>3 DEF IInv, Conversation
      <4>2. Handled \in Int
        BY <1>1, <4>1
      <4>3. wire[1] = Stream(Handled + 1 - 1)
        BY <1>1, <1>2, <3>3 DEF IInv, Conversation
      <4> QED BY <4>1, <4>2, <4>3
    <3>5. Handled = Len(took) + 1 /\ Handled <= Len(file)
      BY <1>1, <1>2, <3>1, <3>4 DEF Stream
    <3>6. Handled <= Count - 1
      BY <1>1, <1>2, <3>3 DEF Handled, Count
    <3>7. CASE pc = "chunk"
      BY <1>1, <3>2, <3>5, <3>6, <3>7 DEF Count
    <3>8. CASE pc = "write"
      BY <1>1, <3>2, <3>5, <3>6, <3>8 DEF Count
    <3>9. CASE pc = "finish"
      BY <1>1, <3>2, <3>5, <3>9 DEF IInv, Shape
    <3>10. CASE pc = "receive"
      BY <1>1, <3>2, <3>3, <3>5, <3>10 DEF Bounds
    <3> QED BY <3>3, <3>7, <3>8, <3>9, <3>10
  <2> QED BY <2>1, <2>2
<1> QED BY <1>1, <1>3, <1>4, <1>5 DEF Bounds

\* So do all other steps.
LEMMA BoundsStep == IInv /\ Bounds /\ [Next]_vars => Bounds'
<1> SUFFICES ASSUME IInv, Bounds, [Next]_vars PROVE Bounds'
  OBVIOUS
<1> USE DEF Fail, given, peer, clocks, result
<1>0. /\ asks \in {<<"ping", "version">>, <<"version">>, <<"scan">>, <<>>}
      /\ pc # "done" => asks # <<>> /\ code = Running /\ verdict = "none"
      /\ pc \in {"chunk", "write", "finish"} => asks = <<"scan">>
      /\ pc \in {"dial", "send"} => took = <<>> /\ sent = 0
      /\ asks # <<"scan">> => took = <<>> /\ sent = 0
      /\ sent \in Nat /\ Len(took) \in Nat /\ Len(file) \in Nat /\ Len(took) <= sent
      /\ pc = "finish" => sent = Len(file)
      /\ file \in Seq({"good", "bad"})
  BY DEF IInv, Shape, Bounds
<1>1. CASE Dial
  <2>1. pc' \in {"send", "failed"} /\ (UNCHANGED wire \/ wire' = <<>>)
        /\ daemon' \in {daemon, "reading"} /\ UNCHANGED <<took, sent, code, verdict>>
    BY <1>1 DEF Dial
  <2>2. Len(<<>>) = 0 /\ Buffer \in Nat
    BY ClamdAssumption DEF ClamdAssumption
  <2> QED BY <1>0, <2>1, <2>2 DEF Bounds
<1>2. CASE Send
  <2>1. Head(asks) \in Messages
    BY <1>0, <1>2, AsksIs DEF Send, Messages
  <2>2. Head(asks) # "scan" => asks # <<"scan">>
    BY AsksIs
  <2> QED BY <1>2, <2>1, <2>2, WriteBounds DEF Send
<1>3. CASE ReadChunk
  <2>1. CASE sent' = sent + 1
    BY <1>0, <1>3, <2>1 DEF ReadChunk, Bounds
  <2>2. CASE UNCHANGED sent
    BY <1>0, <1>3, <2>2 DEF ReadChunk, Bounds
  <2> QED BY <1>3, <2>1, <2>2 DEF ReadChunk
<1>4. CASE ReadFails
  BY <1>0, <1>4 DEF ReadFails, Bounds
<1>5. CASE WriteChunk
  <2>1. file[sent] \in Messages
    BY <1>5 DEF IInv, Shape, Messages, WriteChunk
  <2> QED BY <1>5, <2>1, WriteBounds DEF WriteChunk
<1>6. CASE Finish
  BY <1>0, <1>6, WriteBounds DEF Finish, Messages
<1>7. CASE Receive
  <2>1. /\ pc = "receive" /\ UNCHANGED <<wire, daemon, took, sent, file>>
        /\ \/ pc' = "failed" /\ UNCHANGED <<asks, code, verdict>>
           \/ Head(asks) = "scan" /\ Judge
           \/ Head(asks) = answer /\ Answered
    BY <1>7 DEF Receive
  <2>2. CASE pc' = "failed" /\ UNCHANGED <<asks, code, verdict>>
    BY <1>0, <2>1, <2>2 DEF Bounds
  <2>3. CASE Head(asks) = "scan" /\ Judge
    <3>1. asks = <<"scan">>
      BY <1>0, <2>1, <2>3, AsksIs
    <3> QED BY <1>0, <2>1, <2>3, <3>1
            DEF Judge, Bounds, Verdicts, Running, Ok, Dependency, Canceled
  <2>4. CASE Head(asks) = answer /\ Answered
    <3>1. answer # "scan"
      BY DEF IInv, Shape
    <3>2. asks \in {<<"ping", "version">>, <<"version">>} /\ asks' \in {<<"version">>, <<>>}
      BY <1>0, <2>1, <2>4, <3>1, AsksIs DEF Answered
    <3>3. asks' # <<"scan">>
      BY <3>2, AsksIs
    <3> QED BY <1>0, <2>1, <2>4, <3>3
            DEF Answered, Bounds, Running, Ok, Dependency, Canceled
  <2> QED BY <2>1, <2>2, <2>3, <2>4
<1>8. CASE Examine
  BY <1>0, <1>8 DEF Examine, Bounds, Running, Ok, Dependency, Canceled
<1>9. CASE Classify
  <2>1. Head(asks) # "scan" <=> asks # <<"scan">>
    BY <1>0, <1>9, AsksIs DEF Classify
  <2> QED BY <1>0, <1>9, <2>1
          DEF Classify, Bounds, Verdicts, Running, Ok, Dependency, Canceled
<1>10. CASE Misbehave
  BY <1>0, <1>10 DEF Misbehave, Reply, Bounds, DaemonFaults
<1>11. CASE Deadline \/ ConnTimer \/ CtxTimer \/ Cancel \/ Interrupt \/ UNCHANGED vars
  <2>1. UNCHANGED <<pc, asks, file, sent, wire, daemon, took, code, verdict>>
    BY <1>11 DEF Deadline, ConnTimer, CtxTimer, Cancel, Interrupt, vars
  <2> QED BY <2>1 DEF Bounds
<1> QED BY <1>1, <1>2, <1>3, <1>4, <1>5, <1>6, <1>7, <1>8, <1>9, <1>10, <1>11, HandleBounds
        DEF Next, Client

\* The conversation of a scan with what comes after it.
LEMMA AsksOver ==
    ASSUME asks \in {<<"ping", "version">>, <<"version">>, <<"scan">>, <<>>}
    PROVE  Head(asks \o <<"over">>) = "scan" <=> asks = <<"scan">>
<1>1. /\ Head(<<"scan">> \o <<"over">>) = "scan" /\ Head(<<>> \o <<"over">>) = "over"
      /\ Head(<<"version">> \o <<"over">>) = "version"
      /\ Head(<<"ping", "version">> \o <<"over">>) = "ping"
  OBVIOUS
<1> QED BY <1>1, AsksIs

\* Types; what clamd took is a prefix of what was read of the file, the socket holds no
\* more than it can, and a file has a verdict exactly when the scan goes on with it.
THEOREM TypeCorrect == Spec => []TypeOK
<1>1. Init => Bounds
  <2>1. Len(<<>>) = 0
    OBVIOUS
  <2> QED BY <2>1, ClamdAssumption DEF Init, Bounds, ClamdAssumption, Verdicts
<1>2. IInv /\ Bounds => TypeOK
  <2> SUFFICES ASSUME IInv, Bounds PROVE TypeOK
    OBVIOUS
  <2>1. IsPrefix(took, SubSeq(file, 1, sent))
    <3>1. /\ file \in Seq({"good", "bad"}) /\ took \in Seq({"good", "bad"})
          /\ sent \in 0..Len(file) /\ Len(took) <= sent
          /\ \A j \in 1..Len(took) : took[j] = file[j]
      BY DEF IInv, Shape, Conversation, Bounds
    <3> DEFINE s == SubSeq(file, 1, sent)
    <3>2. s \in Seq({"good", "bad"}) /\ Len(s) = sent /\ \A j \in 1..sent : s[j] = file[j]
      BY <3>1
    <3> HIDE DEF s
    <3>3. /\ SubSeq(took, 1, Len(took)) \in Seq({"good", "bad"})
          /\ Len(SubSeq(took, 1, Len(took))) = Len(took)
          /\ \A j \in 1..Len(took) : SubSeq(took, 1, Len(took))[j] = took[j]
      BY <3>1
    <3>4. /\ SubSeq(s, 1, Len(took)) \in Seq({"good", "bad"})
          /\ Len(SubSeq(s, 1, Len(took))) = Len(took)
          /\ \A j \in 1..Len(took) : SubSeq(s, 1, Len(took))[j] = s[j]
      BY <3>1, <3>2
    <3>5. \A j \in 1..Len(took) : s[j] = took[j]
      BY <3>1, <3>2
    <3>6. SubSeq(took, 1, Len(took)) = SubSeq(s, 1, Len(took))
      BY <3>3, <3>4, <3>5, SameIs
    <3> QED BY <3>1, <3>2, <3>6 DEF IsPrefix, s
  <2>2. pc = "done" <=> code # Running
    BY DEF IInv, Shape, Bounds
  <2>3. verdict # "none" <=> (code = Ok /\ Head(asks \o <<"over">>) = "scan")
    BY <2>2, AsksOver DEF IInv, Shape, Bounds, Running, Ok
  <2> QED BY <2>1, <2>2, <2>3 DEF TypeOK, IInv, Shape, Bounds
<1> QED
  BY <1>1, <1>2, BoundsStep, Invariant, PTL DEF Spec
=============================================================================
