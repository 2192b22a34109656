--------------------------- MODULE ContainerReader ---------------------------
(***************************************************************************)
(* The container source of a whole-image carve                             *)
(* (browser-forensic-cli/src/imagecarve_container.rs): a worker thread owns *)
(* the decoder, because it may not cross threads, and answers positioned    *)
(* reads over two channels that every reader shares behind one mutex.       *)
(*                                                                         *)
(* One action is one blocking operation of a thread: a channel send or      *)
(* receive, a lock, a join, a call of the decoder.  A channel is a sequence *)
(* of messages; its receiver fails once it is empty and every sender is     *)
(* gone, its sender once the receiver is gone.  The ends the worker holds   *)
(* go with the worker, those of a ReaderChannel when the slot is taken.     *)
(***************************************************************************)
EXTENDS Integers, Sequences

CONSTANTS
    Readers,    \* threads that hold a reference to the source
    Size,       \* bytes in the decoded image
    Requests,   \* the reads they ask for: an offset and a buffer length
    MaxReads    \* bound: reads of each reader

ASSUME SizeAssumption == Size \in Nat /\ MaxReads \in Nat

\* The mutex is held by nobody, or by a reader.
ASSUME ReadersAssumption == "free" \notin Readers

ASSUME RequestsAssumption == Requests \subseteq [offset: Nat, len: Nat]

\* Requests on a small instance: every offset up to the end of the image and past it, with
\* empty, short and long buffers.
AllRequests == [offset: 0..Size, len: {0, 1, Size + 1}]

VARIABLES
    owner,      \* the thread that opens and drops the source
    worker,     \* where the container-reader thread is
    job,        \* what the worker has in hand
    init,       \* channel: the size of the image, or why it did not open
    req,        \* channel: read requests
    resp,       \* channel: answers
    slot,       \* the ReaderChannel is in the mutex
    lock,       \* who holds the mutex
    pc,         \* where each reader is in read_at
    call,       \* the request it makes
    got,        \* the bytes its last read returned
    reads       \* how many it has made

threadVars == <<owner, worker, job>>
channels   == <<init, req, resp, slot>>
readerVars == <<pc, call, got, reads>>
vars == <<threadVars, channels, lock, readerVars>>

Free   == "free"
NoCall == [offset |-> 0, len |-> 0]
NoJob  == [is |-> "nothing"]

Bytes(offset, n) == offset .. (offset + n - 1)

Least(a, b) == IF a <= b THEN a ELSE b

\* What is asked of the worker: never past the end of the image.
Clipped(c) == [offset |-> c.offset, len |-> Least(c.len, Size - c.offset)]

Answers == [is: {"data"}, bytes: SUBSET (0..(Size - 1))] \cup {[is |-> "error"]}

Jobs == {NoJob, [is |-> "size"], [is |-> "refused"]}
        \cup [is: {"read"}, req: [offset: Nat, len: Nat]] \cup Answers

OwnerStates == {"new", "waiting", "failing", "failed", "open", "closing", "gone"}

WorkerStates == {"absent", "opening", "reporting", "serving", "reading",
                 "answering", "leaving", "exited"}

TypeOK ==
    /\ owner \in OwnerStates
    /\ worker \in WorkerStates
    /\ job \in Jobs
    /\ init \in Seq({"size", "refused"})
    /\ req \in Seq([offset: Nat, len: Nat])
    /\ resp \in Seq(Answers)
    /\ slot \in BOOLEAN
    /\ lock \in Readers \cup {Free}
    /\ pc \in [Readers -> {"out", "lock", "send", "recv"}]
    /\ call \in [Readers -> [offset: Nat, len: Nat]]
    /\ got \in [Readers -> SUBSET (0..(Size - 1))]
    /\ reads \in [Readers -> Nat]

Init ==
    /\ owner = "new" /\ worker = "absent" /\ job = NoJob
    /\ init = << >> /\ req = << >> /\ resp = << >> /\ slot = FALSE
    /\ lock = Free
    /\ pc = [r \in Readers |-> "out"]
    /\ call = [r \in Readers |-> NoCall]
    /\ got = [r \in Readers |-> {}]
    /\ reads = [r \in Readers |-> 0]

-----------------------------------------------------------------------------
(* ContainerSource::open and Drop, on the owner's thread.                  *)

\* The thread cannot be started, or starts.
Spawn ==
    /\ owner = "new"
    /\ \/ owner' = "failed" /\ UNCHANGED worker
       \/ owner' = "waiting" /\ worker' = "opening"
    /\ UNCHANGED <<job, channels, lock, readerVars>>

Opened ==
    /\ owner = "waiting" /\ init # << >> /\ Head(init) = "size"
    /\ owner' = "open" /\ init' = Tail(init) /\ slot' = TRUE
    /\ UNCHANGED <<worker, job, req, resp, lock, readerVars>>

\* Mistake: the error is returned before the thread is joined.
RefusedUnjoined ==
    /\ owner = "waiting" /\ init # << >> /\ Head(init) = "refused"
    /\ owner' = "failed" /\ init' = Tail(init)
    /\ UNCHANGED <<worker, job, req, resp, slot, lock, readerVars>>

Refused ==
    /\ owner = "waiting" /\ init # << >> /\ Head(init) = "refused"
    /\ owner' = "failing" /\ init' = Tail(init)
    /\ UNCHANGED <<worker, job, req, resp, slot, lock, readerVars>>

\* "reader thread exited before opening".
Disconnected ==
    /\ owner = "waiting" /\ init = << >> /\ worker = "exited"
    /\ owner' = "failing"
    /\ UNCHANGED <<worker, job, channels, lock, readerVars>>

\* Mistake: the thread is joined before its request channel is closed.
JoinsBeforeClosing ==
    /\ owner = "open" /\ \A r \in Readers : pc[r] = "out"
    /\ owner' = "closing"
    /\ UNCHANGED <<worker, job, channels, lock, readerVars>>

\* drop(&mut self): no reader has the source any more.
Drop ==
    /\ owner = "open" /\ \A r \in Readers : pc[r] = "out"
    /\ owner' = "closing" /\ slot' = FALSE /\ resp' = << >>
    /\ UNCHANGED <<worker, job, init, req, lock, readerVars>>

Join ==
    /\ owner \in {"failing", "closing"} /\ worker = "exited"
    /\ owner' = IF owner = "failing" THEN "failed" ELSE "gone"
    /\ UNCHANGED <<worker, job, channels, lock, readerVars>>

Owner == Spawn \/ Opened \/ Refused \/ Disconnected \/ Drop \/ Join

-----------------------------------------------------------------------------
(* reader_thread.                                                          *)

\* The worker returns or unwinds: its ends of the channels go, and what was
\* asked and not read goes with them.
Exit ==
    /\ worker' = "exited" /\ job' = NoJob /\ req' = << >>
    /\ UNCHANGED <<owner, init, resp, slot, lock, readerVars>>

\* container::open (a library) succeeds or does not.
OpenContainer ==
    /\ worker = "opening"
    /\ worker' = "reporting"
    /\ job' \in {[is |-> "size"], [is |-> "refused"]}
    /\ UNCHANGED <<owner, channels, lock, readerVars>>

Report ==
    /\ worker = "reporting"
    /\ init' = Append(init, job.is)
    /\ worker' = IF job.is = "size" THEN "serving" ELSE "leaving"
    /\ job' = NoJob
    /\ UNCHANGED <<owner, req, resp, slot, lock, readerVars>>

Leave == worker = "leaving" /\ Exit

Serve ==
    /\ worker = "serving" /\ req # << >>
    /\ worker' = "reading"
    /\ job' = [is |-> "read", req |-> Head(req)]
    /\ req' = Tail(req)
    /\ UNCHANGED <<owner, init, resp, slot, lock, readerVars>>

\* read_positioned over the decoder (a library): a prefix of what is there,
\* short where the decoded stream ends early, or an error.
ReadPositioned ==
    /\ worker = "reading"
    /\ worker' = "answering"
    /\ \/ job' = [is |-> "error"]
       \/ \E n \in 0..job.req.len :
             job' = [is |-> "data", bytes |-> Bytes(job.req.offset, n)]
    /\ UNCHANGED <<owner, channels, lock, readerVars>>

\* Mistake: an error is swallowed and nothing is answered.
AnswerDataOnly ==
    /\ worker = "answering"
    /\ resp' = IF job.is = "data" THEN Append(resp, job) ELSE resp
    /\ worker' = "serving" /\ job' = NoJob
    /\ UNCHANGED <<owner, init, req, slot, lock, readerVars>>

Answer ==
    /\ worker = "answering"
    /\ resp' = Append(resp, job)
    /\ worker' = "serving" /\ job' = NoJob
    /\ UNCHANGED <<owner, init, req, slot, lock, readerVars>>

\* The source was dropped, and recv says so.  (The send would say so too, but
\* a source cannot be dropped while a read is under way.)
SourceDropped ==
    /\ worker = "serving" /\ req = << >> /\ owner = "closing" /\ ~slot
    /\ Exit

\* The decoder panics.
Panic == worker \in {"opening", "reading"} /\ Exit

Worker ==
    OpenContainer \/ Report \/ Leave \/ Serve \/ ReadPositioned \/ Answer
    \/ SourceDropped \/ Panic

-----------------------------------------------------------------------------
(* read_at, on a reader's thread.                                          *)

\* The bytes are copied out and the guard released.
Return(r, bytes) ==
    /\ got' = [got EXCEPT ![r] = bytes]
    /\ call' = [call EXCEPT ![r] = NoCall]
    /\ pc' = [pc EXCEPT ![r] = "out"]
    /\ lock' = Free
    /\ UNCHANGED reads

ReadNothing(r) ==
    /\ owner = "open" /\ pc[r] = "out" /\ reads[r] < MaxReads
    /\ \E c \in Requests : c.len = 0 \/ c.offset >= Size
    /\ got' = [got EXCEPT ![r] = {}]
    /\ reads' = [reads EXCEPT ![r] = @ + 1]
    /\ UNCHANGED <<threadVars, channels, lock, pc, call>>

ReadAt(r) ==
    /\ owner = "open" /\ pc[r] = "out" /\ reads[r] < MaxReads
    /\ \E c \in Requests :
          /\ c.len # 0 /\ c.offset < Size
          /\ call' = [call EXCEPT ![r] = Clipped(c)]
    /\ pc' = [pc EXCEPT ![r] = "lock"]
    /\ reads' = [reads EXCEPT ![r] = @ + 1]
    /\ UNCHANGED <<threadVars, channels, lock, got>>

\* Mistake: the endpoints are used without the lock.
LockSkipped(r) ==
    /\ pc[r] = "lock"
    /\ lock' = r
    /\ pc' = [pc EXCEPT ![r] = "send"]
    /\ UNCHANGED <<threadVars, channels, call, got, reads>>

Lock(r) ==
    /\ pc[r] = "lock" /\ lock = Free
    /\ lock' = r
    /\ pc' = [pc EXCEPT ![r] = "send"]
    /\ UNCHANGED <<threadVars, channels, call, got, reads>>

Send(r) ==
    /\ pc[r] = "send" /\ slot /\ worker # "exited"
    /\ req' = Append(req, call[r])
    /\ pc' = [pc EXCEPT ![r] = "recv"]
    /\ UNCHANGED <<threadVars, init, resp, slot, lock, call, got, reads>>

Receive(r) ==
    /\ pc[r] = "recv" /\ resp # << >>
    /\ resp' = Tail(resp)
    /\ Return(r, IF Head(resp).is = "data" THEN Head(resp).bytes ELSE {})
    /\ UNCHANGED <<threadVars, init, req, slot>>

\* A worker that is gone answers nothing: the send or the receive fails.
WorkerGone(r) ==
    /\ worker = "exited"
    /\ \/ pc[r] = "send"
       \/ pc[r] = "recv" /\ resp = << >>
    /\ Return(r, {})
    /\ UNCHANGED <<threadVars, channels>>

Read(r) ==
    ReadNothing(r) \/ ReadAt(r) \/ Lock(r) \/ Send(r) \/ Receive(r) \/ WorkerGone(r)

Finished == owner \in {"gone", "failed"} /\ UNCHANGED vars

Next == Owner \/ Worker \/ (\E r \in Readers : Read(r)) \/ Finished

Spec == Init /\ [][Next]_vars

\* Every thread is scheduled, the decoder returns from what it is asked, and
\* whoever holds the source drops it in the end.  A reader need not read.
FairSpec ==
    /\ Spec
    /\ WF_vars(Owner) /\ WF_vars(Worker)
    /\ \A r \in Readers :
          WF_vars(Lock(r) \/ Send(r) \/ Receive(r) \/ WorkerGone(r))

-----------------------------------------------------------------------------
(* Properties.                                                             *)

\* Whoever holds the lock is alone on the channels: of its request and its
\* answer exactly one is somewhere, and while nobody waits for one there is
\* neither, so that no answer is ever left for the next reader to take.
Outstanding ==
    Len(req) + Len(resp) + (IF worker \in {"reading", "answering"} THEN 1 ELSE 0)

OneExchange ==
    IF \E r \in Readers : pc[r] = "recv"
    THEN Outstanding <= 1 /\ (worker # "exited" => Outstanding = 1)
    ELSE Outstanding = 0

\* The thread never outlives the source: when open has failed, or drop is
\* done, it is gone.
NoThreadLeft == owner \in {"failed", "gone"} => worker \in {"absent", "exited"}

\* Nobody waits for ever: a read that has begun returns, also when the decoder fails
\* or panics under it; open returns, with a source or with an error; and so does drop
\* ("order matters to avoid a join-before-close hang").
CallsReturn ==
    /\ \A r \in Readers : pc[r] # "out" ~> pc[r] = "out"
    /\ owner = "waiting" ~> owner \in {"open", "failed"}
    /\ owner = "closing" ~> owner = "gone"

Source == INSTANCE PositionedRead

\* Whatever the threads do, each read is answered with a prefix of the bytes
\* at its own offset, or with nothing: never with another reader's answer,
\* and never with one that a failed or dropped read left behind.
ImplementsPositionedRead == Source!ReadSpec

-----------------------------------------------------------------------------
(* The inductive invariant: where the one exchange can be.                 *)

\* What ReadPositioned may make of a request.
AnswersTo(c) ==
    {[is |-> "error"]} \cup
    {[is |-> "data", bytes |-> Bytes(c.offset, n)] : n \in 0..c.len}

ChannelsEmpty ==
    req = << >> /\ resp = << >> /\ worker \notin {"reading", "answering"}

InFlight(c) ==
    \/ worker = "serving" /\ req = <<c>> /\ resp = << >>
    \/ worker = "reading" /\ job = [is |-> "read", req |-> c]
          /\ req = << >> /\ resp = << >>
    \/ worker = "answering" /\ job \in AnswersTo(c)
          /\ req = << >> /\ resp = << >>
    \/ worker = "serving" /\ req = << >>
          /\ \E a \in AnswersTo(c) : resp = <<a>>
    \/ worker = "exited" /\ req = << >> /\ resp = << >>

ReaderSound(r) ==
    /\ pc[r] \in {"send", "recv"} <=> lock = r
    /\ pc[r] = "recv" => InFlight(call[r])
    /\ pc[r] # "out" => owner = "open"
    /\ IF pc[r] = "out"
       THEN call[r] = NoCall
       ELSE call[r].len > 0 /\ call[r].offset + call[r].len <= Size

WorkerSound ==
    /\ slot <=> owner = "open"
    /\ owner = "new" => worker = "absent"
    /\ owner = "waiting" =>
          \/ init = << >> /\ worker \in {"opening", "reporting", "exited"}
          \/ init = <<"size">> /\ worker = "serving"
          \/ init = <<"refused">> /\ worker \in {"leaving", "exited"}
    /\ owner = "failing" => worker \in {"leaving", "exited"}
    /\ owner = "gone" => worker = "exited"
    /\ owner = "failed" => worker \in {"absent", "exited"}
    /\ owner \in {"open", "closing"} =>
          worker \in {"serving", "reading", "answering", "exited"}
    /\ owner # "open" => ChannelsEmpty
    /\ owner # "waiting" => init = << >>
    /\ worker = "reporting" <=> job.is \in {"size", "refused"}

IInv ==
    /\ TypeOK
    /\ WorkerSound
    /\ \A r \in Readers : ReaderSound(r)
    /\ (\A r \in Readers : pc[r] # "recv") => ChannelsEmpty
=============================================================================
