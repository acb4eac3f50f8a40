---------------------------- MODULE AsyncDispatch ----------------------------
(***************************************************************************)
(* The asynchronous invoke path of the Rust core (crates/rustra/src):      *)
(*   ffi_async_entries.rs, ffi_typed_async.rs   the entries a host calls   *)
(*   ffi_lifecycle_entries.rs                   cancel, refusal, free      *)
(*   ffi_pool.rs                                the bounded worker pool    *)
(*   ffi_workers.rs                             what a worker does         *)
(*   cancel.rs                                  the cancellation registry  *)
(*                                                                         *)
(* One element of Calls is one call of an entry together with the host     *)
(* thread that makes it; the id register_invocation issues is never used   *)
(* twice (a u64 counter), so the call stands for its own id.  A step is    *)
(* what one thread does between two accesses to state another thread can   *)
(* see: the registry mutex, the sender mutex, the channel, the receiver    *)
(* mutex, an atomic counter, the completion callback.                      *)
(***************************************************************************)
EXTENDS Integers, Sequences, FiniteSets

CONSTANTS
  Calls,        \* the calls hosts make
  NoCall,       \* no call
  Workers,      \* the worker threads (ASYNC_POOL_SIZE of them)
  NoWorker,     \* no worker
  QueueDepth,   \* capacity of the job channel (ASYNC_QUEUE_DEPTH)
  IntoCalls,    \* calls made through the caller-buffer entry
  NullCallback, \* calls made with a null completion callback
  PayloadSize,  \* the request size of each call
  Limits        \* the values hosts give the payload limit, default included

ASSUME CallsAssumption   == IsFiniteSet(Calls) /\ NoCall \notin Calls
                            /\ IntoCalls \subseteq Calls /\ NullCallback \subseteq Calls
ASSUME WorkersAssumption == Workers # {} /\ IsFiniteSet(Workers) /\ NoWorker \notin Workers
ASSUME DepthAssumption   == QueueDepth \in Nat \ {0}
ASSUME SizeAssumption    == PayloadSize \in [Calls -> Nat] /\ Limits \subseteq Nat

VARIABLES
  callerPc,    \* where the entry is in submit_alloc_async / ..._async_into
  registry,    \* cancel.rs REGISTRY: "absent", "running" or "cancelled"
  limit,       \* limits.rs MAX_PAYLOAD_BYTES
  senderLock,  \* the call whose thread holds AsyncPool.sender's mutex
  senderOpen,  \* is the channel's sender still there (Drop takes it)
  queue,       \* the bounded channel
  recvLock,    \* the worker that holds the receiver's mutex
  workerPc,    \* where each worker is in its loop
  job,         \* the call each worker is running
  reply,       \* what the response frame says, "none" before there is one
  owner,       \* who has to free the response frame
  inflight, submitted, rejected, completed,   \* PoolCounters
  dispatched,  \* history: the checkpoint let the handler of the call run
  ack,         \* history: a cancel returned true before / after that
  deliveries   \* history: how often the call was settled

callerVars  == <<callerPc, senderLock>>
workerVars  == <<workerPc, job, recvLock>>
counterVars == <<inflight, submitted, rejected, completed>>
frameVars   == <<reply, owner>>
historyVars == <<dispatched, ack, deliveries>>
vars == <<callerVars, registry, limit, senderOpen, queue, workerVars,
          frameVars, counterVars, historyVars>>

CallerPcs == {"idle", "registered", "checked", "reserved", "sent", "refused",
              "too_large", "backpressure", "completed", "returned"}
WorkerPcs == {"idle", "receiving", "got", "handling", "framed", "completed",
              "delivered", "uncounted", "exited"}
Replies   == {"none", "ok", "error", "cancelled", "backpressure", "too_large"}
Owners    == {"none", "rust", "caller_buffer", "host", "freed"}

Init ==
  /\ callerPc   = [c \in Calls |-> "idle"]
  /\ registry   = [c \in Calls |-> "absent"]
  /\ limit \in Limits
  /\ senderLock = NoCall
  /\ senderOpen = TRUE
  /\ queue      = <<>>
  /\ recvLock   = NoWorker
  /\ workerPc   = [w \in Workers |-> "idle"]
  /\ job        = [w \in Workers |-> NoCall]
  /\ reply      = [c \in Calls |-> "none"]
  /\ owner      = [c \in Calls |-> "none"]
  /\ inflight = 0 /\ submitted = 0 /\ rejected = 0 /\ completed = 0
  /\ dispatched = [c \in Calls |-> FALSE]
  /\ ack        = [c \in Calls |-> "none"]
  /\ deliveries = [c \in Calls |-> 0]

CallerGoes(c, from, to) ==
  /\ callerPc[c] = from
  /\ callerPc' = [callerPc EXCEPT ![c] = to]

WorkerGoes(w, from, to) ==
  /\ workerPc[w] = from
  /\ workerPc' = [workerPc EXCEPT ![w] = to]

(***************************************************************************)
(* Frames.  A reply of the caller-buffer entry that fits is written into   *)
(* the host's buffer (owned = 0); any other reply is a Rust heap frame.    *)
(***************************************************************************)
Placements(c) == IF c \in IntoCalls THEN {"rust", "caller_buffer"} ELSE {"rust"}

Encode(c, r) ==
  /\ reply' = [reply EXCEPT ![c] = r]
  /\ \E place \in Placements(c) : owner' = [owner EXCEPT ![c] = place]

\* complete_invocation: the entry leaves the registry.
CompleteInvocation(c) == registry' = [registry EXCEPT ![c] = "absent"]

\* Mutant: a heap frame is left to the host even when nobody was told of it.
MutSettleLeaking(c) ==
  /\ deliveries' = [deliveries EXCEPT ![c] = @ + 1]
  /\ owner' = [owner EXCEPT ![c] = IF @ = "rust" THEN "host" ELSE @]

\* The completion callback takes the frame over; without a callback a heap
\* frame is freed on the spot and a caller buffer is left alone.
Settle(c) ==
  /\ deliveries' = [deliveries EXCEPT ![c] = @ + 1]
  /\ owner' = [owner EXCEPT ![c] =
                 IF @ # "rust" THEN @
                 ELSE IF c \in NullCallback THEN "freed" ELSE "host"]

(***************************************************************************)
(* The entry, on the host's thread.                                        *)
(***************************************************************************)
Register(c) ==
  /\ CallerGoes(c, "idle", "registered")
  /\ senderOpen
  /\ registry' = [registry EXCEPT ![c] = "running"]
  /\ UNCHANGED <<senderLock, limit, senderOpen, queue, workerVars, frameVars,
                 counterVars, historyVars>>

\* The size gate, before the request is copied.
CheckSize(c) ==
  /\ IF PayloadSize[c] > limit
     THEN CallerGoes(c, "registered", "too_large")
     ELSE CallerGoes(c, "registered", "checked")
  /\ UNCHANGED <<registry, senderLock, limit, senderOpen, queue, workerVars,
                 frameVars, counterVars, historyVars>>

\* Mutant: the job is published before it is counted.
MutReserveUncounted(c) ==
  /\ CallerGoes(c, "checked", "reserved")
  /\ senderLock = NoCall
  /\ senderLock' = c
  /\ UNCHANGED <<registry, limit, senderOpen, queue, workerVars, frameVars,
                 counterVars, historyVars>>

\* AsyncPool::submit takes the sender's mutex and counts the job before it
\* publishes it.
Reserve(c) ==
  /\ CallerGoes(c, "checked", "reserved")
  /\ senderLock = NoCall
  /\ senderLock' = c
  /\ inflight' = inflight + 1
  /\ UNCHANGED <<registry, limit, senderOpen, queue, workerVars, frameVars,
                 submitted, rejected, completed, historyVars>>

TrySend(c) ==
  /\ \/ /\ Len(queue) < QueueDepth
        /\ CallerGoes(c, "reserved", "sent")
        /\ queue' = Append(queue, c)
     \/ /\ Len(queue) = QueueDepth
        /\ CallerGoes(c, "reserved", "refused")
        /\ UNCHANGED queue
  /\ UNCHANGED <<registry, senderLock, limit, senderOpen, workerVars,
                 frameVars, counterVars, historyVars>>

\* The rest of submit: the mutex is released when it returns.
Accept(c) ==
  /\ CallerGoes(c, "sent", "returned")
  /\ submitted' = submitted + 1
  /\ senderLock' = NoCall
  /\ UNCHANGED <<registry, limit, senderOpen, queue, workerVars, frameVars,
                 inflight, rejected, completed, historyVars>>

\* Mutant: the error of a full channel is dropped.
MutRefuseSilently(c) ==
  /\ CallerGoes(c, "refused", "returned")
  /\ inflight' = inflight - 1
  /\ rejected' = rejected + 1
  /\ senderLock' = NoCall
  /\ UNCHANGED <<registry, limit, senderOpen, queue, workerVars, frameVars,
                 submitted, completed, historyVars>>

Refuse(c) ==
  /\ CallerGoes(c, "refused", "backpressure")
  /\ inflight' = inflight - 1
  /\ rejected' = rejected + 1
  /\ senderLock' = NoCall
  /\ UNCHANGED <<registry, limit, senderOpen, queue, workerVars, frameVars,
                 submitted, completed, historyVars>>

\* deliver_spawn_failure / deliver_immediate: encode the refusal, complete
\* the invocation, then call back on the host's own thread.
FailComplete(c) ==
  /\ callerPc[c] \in {"too_large", "backpressure"}
  /\ CallerGoes(c, callerPc[c], "completed")
  /\ Encode(c, callerPc[c])
  /\ CompleteInvocation(c)
  /\ UNCHANGED <<senderLock, limit, senderOpen, queue, workerVars, counterVars,
                 historyVars>>

FailDeliver(c) ==
  /\ CallerGoes(c, "completed", "returned")
  /\ Settle(c)
  /\ UNCHANGED <<senderLock, registry, limit, senderOpen, queue, workerVars,
                 reply, counterVars, dispatched, ack>>

(***************************************************************************)
(* What else hosts do: cancel, change the payload limit, free a frame.  A  *)
(* cancel that finds no running entry returns false and changes nothing.   *)
(***************************************************************************)
Cancel(c) ==
  /\ registry[c] = "running"
  /\ registry' = [registry EXCEPT ![c] = "cancelled"]
  /\ ack' = [ack EXCEPT ![c] = IF dispatched[c] THEN "late" ELSE "early"]
  /\ UNCHANGED <<callerVars, limit, senderOpen, queue, workerVars, frameVars,
                 counterVars, dispatched, deliveries>>

SetMaxPayload ==
  /\ limit' \in Limits \ {limit}
  /\ UNCHANGED <<callerVars, registry, senderOpen, queue, workerVars, frameVars,
                 counterVars, historyVars>>

HostFree(c) ==
  /\ owner[c] = "host"
  /\ owner' = [owner EXCEPT ![c] = "freed"]
  /\ UNCHANGED <<callerVars, registry, limit, senderOpen, queue, workerVars,
                 reply, counterVars, historyVars>>

(***************************************************************************)
(* A worker thread.                                                        *)
(***************************************************************************)
LockReceiver(w) ==
  /\ WorkerGoes(w, "idle", "receiving")
  /\ recvLock = NoWorker
  /\ recvLock' = w
  /\ UNCHANGED <<callerVars, registry, limit, senderOpen, queue, job, frameVars,
                 counterVars, historyVars>>

\* Mutant: the guard lives as long as the loop body (while let).
MutReceiveHolding(w) ==
  /\ WorkerGoes(w, "receiving", "got")
  /\ queue # <<>>
  /\ job' = [job EXCEPT ![w] = Head(queue)]
  /\ queue' = Tail(queue)
  /\ UNCHANGED <<callerVars, registry, limit, senderOpen, recvLock, frameVars,
                 counterVars, historyVars>>

\* recv returns a job; the mutex guard is a temporary of that statement, so
\* the mutex is free again before the job runs.
Receive(w) ==
  /\ WorkerGoes(w, "receiving", "got")
  /\ queue # <<>>
  /\ job' = [job EXCEPT ![w] = Head(queue)]
  /\ queue' = Tail(queue)
  /\ recvLock' = NoWorker
  /\ UNCHANGED <<callerVars, registry, limit, senderOpen, frameVars,
                 counterVars, historyVars>>

\* Mutants: a worker leaves with jobs waiting; it keeps the mutex.
MutLeaveAtOnce(w) ==
  /\ WorkerGoes(w, "receiving", "exited")
  /\ ~senderOpen
  /\ recvLock' = NoWorker
  /\ UNCHANGED <<callerVars, registry, limit, senderOpen, queue, job, frameVars,
                 counterVars, historyVars>>

MutLeaveHolding(w) ==
  /\ WorkerGoes(w, "receiving", "exited")
  /\ queue = <<>> /\ ~senderOpen
  /\ UNCHANGED <<callerVars, registry, limit, senderOpen, queue, job, recvLock,
                 frameVars, counterVars, historyVars>>

\* recv fails only when the sender is gone and the channel is empty.
Disconnected(w) ==
  /\ WorkerGoes(w, "receiving", "exited")
  /\ queue = <<>> /\ ~senderOpen
  /\ recvLock' = NoWorker
  /\ UNCHANGED <<callerVars, registry, limit, senderOpen, queue, job, frameVars,
                 counterVars, historyVars>>

\* Mutant: the status is not read before the handler runs.
MutCheckpointUnread(w) ==
  /\ WorkerGoes(w, "got", "handling")
  /\ dispatched' = [dispatched EXCEPT ![job[w]] = TRUE]
  /\ UNCHANGED <<callerVars, registry, limit, senderOpen, queue, job, recvLock,
                 frameVars, counterVars, ack, deliveries>>

\* The dispatch checkpoint.  Reading the status decides whether the handler
\* runs, so this read is where a cancellation is early or late.
Checkpoint(w) ==
  LET c == job[w] IN
  /\ \/ /\ WorkerGoes(w, "got", "framed")
        /\ registry[c] = "cancelled"
        /\ Encode(c, "cancelled")
        /\ UNCHANGED dispatched
     \/ /\ WorkerGoes(w, "got", "handling")
        /\ registry[c] # "cancelled"
        /\ dispatched' = [dispatched EXCEPT ![c] = TRUE]
        /\ UNCHANGED frameVars
  /\ UNCHANGED <<callerVars, registry, limit, senderOpen, queue, job, recvLock,
                 counterVars, ack, deliveries>>

\* Mutant: the status is read again after the handler.
MutCancelAfterRun(w) ==
  /\ WorkerGoes(w, "handling", "framed")
  /\ IF registry[job[w]] = "cancelled" THEN Encode(job[w], "cancelled")
     ELSE Encode(job[w], "ok")
  /\ UNCHANGED <<callerVars, registry, limit, senderOpen, queue, job, recvLock,
                 counterVars, historyVars>>

\* The handler returned, failed, or panicked (normalised to an error frame).
HandlerReturns(w) ==
  /\ WorkerGoes(w, "handling", "framed")
  /\ \E r \in {"ok", "error"} : Encode(job[w], r)
  /\ UNCHANGED <<callerVars, registry, limit, senderOpen, queue, job, recvLock,
                 counterVars, historyVars>>

\* Mutant: the entry outlives the callback.
MutCompleteNot(w) ==
  /\ WorkerGoes(w, "framed", "completed")
  /\ UNCHANGED <<callerVars, registry, limit, senderOpen, queue, job, recvLock,
                 frameVars, counterVars, historyVars>>

\* drop(_ensure), before the callback.
Complete(w) ==
  /\ WorkerGoes(w, "framed", "completed")
  /\ CompleteInvocation(job[w])
  /\ UNCHANGED <<callerVars, limit, senderOpen, queue, job, recvLock, frameVars,
                 counterVars, historyVars>>

Deliver(w) ==
  /\ WorkerGoes(w, "completed", "delivered")
  /\ Settle(job[w])
  /\ UNCHANGED <<callerVars, registry, limit, senderOpen, queue, job, recvLock,
                 reply, counterVars, dispatched, ack>>

Uncount(w) ==
  /\ WorkerGoes(w, "delivered", "uncounted")
  /\ inflight' = inflight - 1
  /\ job' = [job EXCEPT ![w] = NoCall]
  /\ UNCHANGED <<callerVars, registry, limit, senderOpen, queue, recvLock,
                 frameVars, submitted, rejected, completed, historyVars>>

Count(w) ==
  /\ WorkerGoes(w, "uncounted", "idle")
  /\ completed' = completed + 1
  /\ UNCHANGED <<callerVars, registry, limit, senderOpen, queue, job, recvLock,
                 frameVars, inflight, submitted, rejected, historyVars>>

(***************************************************************************)
(* Drop of an owned pool.  The process-wide pool is never dropped; where a *)
(* pool is dropped, &mut self excludes every submit, before and after.     *)
(***************************************************************************)
DropPool ==
  /\ senderOpen
  /\ \A c \in Calls : callerPc[c] \in {"idle", "returned"}
  /\ senderOpen' = FALSE
  /\ UNCHANGED <<callerVars, registry, limit, queue, workerVars, frameVars,
                 counterVars, historyVars>>

\* Drop has joined every worker: nothing is left to do.
Joined ==
  /\ \A w \in Workers : workerPc[w] = "exited"
  /\ UNCHANGED vars

Entry(c)  == Register(c) \/ CheckSize(c) \/ Reserve(c) \/ TrySend(c) \/ Accept(c)
             \/ Refuse(c) \/ FailComplete(c) \/ FailDeliver(c)
Work(w)   == LockReceiver(w) \/ Receive(w) \/ Disconnected(w) \/ Checkpoint(w)
             \/ Complete(w) \/ Deliver(w) \/ Uncount(w) \/ Count(w)

Next ==
  \/ \E c \in Calls : Entry(c) \/ Cancel(c) \/ HostFree(c)
  \/ \E w \in Workers : Work(w) \/ HandlerReturns(w)
  \/ SetMaxPayload
  \/ DropPool
  \/ Joined

Spec == Init /\ [][Next]_vars

(***************************************************************************)
(* Fairness: the OS schedules every thread, and a handler returns unless   *)
(* its call is in Hanging.  Hosts are free never to call, cancel or free.  *)
(***************************************************************************)
EntrySteps(c) == CheckSize(c) \/ Reserve(c) \/ TrySend(c) \/ Accept(c)
                 \/ Refuse(c) \/ FailComplete(c) \/ FailDeliver(c)

Fairness(Hanging) ==
  /\ \A c \in Calls : WF_vars(EntrySteps(c))
  /\ \A w \in Workers : WF_vars(Work(w))
  /\ \A w \in Workers : WF_vars(job[w] \notin Hanging /\ HandlerReturns(w))

------------------------------------------------------------------------------
(***************************************************************************)
(* Properties.                                                             *)
(***************************************************************************)
Carrying == {"got", "handling", "framed", "completed", "delivered"}

Queued(c)   == \E i \in 1..Len(queue) : queue[i] = c
AtWorker(c) == \E w \in Workers : job[w] = c

\* The states of every variable.
TypeOK ==
  /\ callerPc \in [Calls -> CallerPcs]
  /\ registry \in [Calls -> {"absent", "running", "cancelled"}]
  /\ limit \in Limits
  /\ senderLock \in Calls \cup {NoCall}
  /\ senderOpen \in BOOLEAN
  /\ queue \in Seq(Calls)
  /\ recvLock \in Workers \cup {NoWorker}
  /\ workerPc \in [Workers -> WorkerPcs]
  /\ job \in [Workers -> Calls \cup {NoCall}]
  /\ reply \in [Calls -> Replies]
  /\ owner \in [Calls -> Owners]
  /\ inflight \in Int /\ submitted \in Nat /\ rejected \in Nat /\ completed \in Nat
  /\ dispatched \in [Calls -> BOOLEAN]
  /\ ack \in [Calls -> {"none", "early", "late"}]
  /\ deliveries \in [Calls -> Nat]

\* A call is settled at most once, and when neither its host's thread, the
\* channel nor a worker carries it any more it has been settled: no path
\* through refusal, cancellation, failure or the pool's drop loses or
\* repeats the completion callback (ffi_workers.rs, deliver_spawn_failure).
ExactlyOnce ==
  \A c \in Calls :
    /\ deliveries[c] <= 1
    /\ (callerPc[c] = "returned" /\ ~Queued(c) /\ ~AtWorker(c)) => deliveries[c] = 1

\* A cancel that returned true before the checkpoint keeps the handler from
\* ever running, and a "cancelled" reply is given only after such a cancel;
\* a handler's reply is given only if the handler ran (run_worker).
CancelHonoured ==
  \A c \in Calls :
    /\ ack[c] = "early" => ~dispatched[c]
    /\ reply[c] = "cancelled" => ack[c] = "early"
    /\ reply[c] \in {"ok", "error"} => dispatched[c]
    /\ (reply[c] # "none" /\ dispatched[c]) => reply[c] \in {"ok", "error"}

\* While its handler runs a call is in the registry, so polling its status
\* there never reads Unknown; when its callback runs it is gone, so the
\* host reads Unknown and the registry keeps nothing of a settled call.
CompleteBeforeCallback ==
  /\ \A w \in Workers : workerPc[w] = "handling" => registry[job[w]] # "absent"
  /\ \A c \in Calls : deliveries[c] > 0 => registry[c] = "absent"

\* PoolCounters.inflight counts exactly the jobs between their reservation
\* and the end of their run: "a fast worker must never decrement zero".
Inflight ==
  {c \in Calls : callerPc[c] \in {"reserved", "refused"} \/ Queued(c) \/ AtWorker(c)}
InflightExact == inflight = Cardinality(Inflight)

\* Every heap frame has one owner: Rust until the call is settled, then the
\* host, which frees it; Rust frees it itself when there is no callback, and
\* a reply in the caller's buffer is never freed by anybody.
FrameOwned ==
  \A c \in Calls :
    /\ deliveries[c] = 0 => owner[c] \in {"none", "rust", "caller_buffer"}
    /\ deliveries[c] = 1 => owner[c] \in {"host", "freed", "caller_buffer"}
    /\ owner[c] = "host" => c \notin NullCallback
    /\ owner[c] = "caller_buffer" => c \in IntoCalls
    /\ (owner[c] = "none") <=> (reply[c] = "none")

\* What the pool keeps about calls agrees with where the calls are, in every
\* interleaving of hosts and workers: the registry, the counter and the frames.
BooksBalance == CompleteBeforeCallback /\ InflightExact /\ FrameOwned

\* Dropping a pool loses no accepted job: when its last worker has left, the
\* channel is empty and no accepted call is without its settlement.
DropDrains ==
  (\A w \in Workers : workerPc[w] = "exited") =>
     queue = <<>> /\ inflight = 0 /\ completed = submitted

\* Every call an entry has registered is settled, even when the handler of
\* one call hangs for ever, as long as another worker is left.
EveryCallSettled(Hanging) ==
  \A c \in Calls \ Hanging : (callerPc[c] = "registered") ~> (deliveries[c] = 1)

\* Drop returns unless a handler never does: once the sender is gone every
\* worker leaves its loop or is in such a handler (ffi_pool.rs:138-150), and
\* no accepted job is left behind.
PoolEnds(Hanging) ==
  ~senderOpen ~>
    (\A w \in Workers : workerPc[w] = "exited" \/ job[w] \in Hanging) /\ DropDrains

\* The contract of AsyncCall.tla: what the host of a call can observe.
AbsPhase  == [c \in Calls |-> IF callerPc[c] = "idle" THEN "idle"
                              ELSE IF deliveries[c] > 0 THEN "settled" ELSE "open"]
AbsResult == [c \in Calls |-> IF deliveries[c] > 0 THEN reply[c] ELSE "none"]

Contract == INSTANCE AsyncCall WITH phase <- AbsPhase, ran <- dispatched,
                                    result <- AbsResult

\* Every behaviour of the pool is one the contract allows.
ImplementsAsyncCall == Contract!Spec
==============================================================================
