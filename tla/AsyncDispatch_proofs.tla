------------------------ MODULE AsyncDispatch_proofs -------------------------
(***************************************************************************)
(* Proofs about AsyncDispatch for every set of calls and workers, every    *)
(* channel capacity and every payload size.                                *)
(***************************************************************************)
EXTENDS AsyncDispatch, SequenceTheorems, FiniteSetTheorems, TLAPS

\* Every tuple of variables an action leaves unchanged.
LEMMA AllUnchanged == UNCHANGED vars =>
    /\ UNCHANGED <<callerPc, senderLock, registry, limit, senderOpen, queue>>
    /\ UNCHANGED <<workerPc, job, recvLock, reply, owner>>
    /\ UNCHANGED <<inflight, submitted, rejected, completed>>
    /\ UNCHANGED <<dispatched, ack, deliveries>>
  BY DEF vars, callerVars, workerVars, frameVars, counterVars, historyVars

------------------------------------------------------------------------------
(***************************************************************************)
(* Type correctness.                                                       *)
(***************************************************************************)

LEMMA TypeInit == Init => TypeOK
  BY DEF Init, TypeOK, CallerPcs, WorkerPcs, Replies, Owners

\* A frame is encoded, and a call settled, without leaving the types.
LEMMA EncodeType ==
  ASSUME TypeOK, NEW c, NEW r \in Replies, Encode(c, r)
  PROVE  reply' \in [Calls -> Replies] /\ owner' \in [Calls -> Owners]
  <1>1. PICK place \in {"rust", "caller_buffer"} : owner' = [owner EXCEPT ![c] = place]
    BY DEF Encode, Placements
  <1>2. place \in Owners
    BY DEF Owners
  <1> QED BY <1>1, <1>2 DEF Encode, TypeOK

LEMMA SettleType ==
  ASSUME TypeOK, NEW c, Settle(c)
  PROVE  deliveries' \in [Calls -> Nat] /\ owner' \in [Calls -> Owners]
  <1>1. deliveries' \in [Calls -> Nat]
    <2>1. deliveries' = [deliveries EXCEPT ![c] = deliveries[c] + 1]
      BY DEF Settle
    <2>2. \A x \in Calls : deliveries[x] \in Nat /\ deliveries[x] + 1 \in Nat
      BY DEF TypeOK
    <2> QED BY <2>1, <2>2 DEF TypeOK
  <1>2. owner' \in [Calls -> Owners]
    BY DEF Settle, TypeOK, Owners
  <1> QED BY <1>1, <1>2

LEMMA TypeStep == TypeOK /\ [Next]_vars => TypeOK'
  <1> SUFFICES ASSUME TypeOK, [Next]_vars PROVE TypeOK'
    OBVIOUS
  <1> USE DEF TypeOK, CallerPcs, WorkerPcs, Replies, Owners, callerVars, workerVars,
              frameVars, counterVars, historyVars, CallerGoes, WorkerGoes,
              CompleteInvocation
  <1>1. ASSUME NEW c \in Calls, Entry(c) PROVE TypeOK'
    <2>1. CASE Register(c)      BY <2>1 DEF Register
    <2>2. CASE CheckSize(c)     BY <2>2 DEF CheckSize
    <2>3. CASE Reserve(c)       BY <2>3 DEF Reserve
    <2>4. CASE TrySend(c)
      <3>1. queue' \in Seq(Calls)
        <4>1. queue' = Append(queue, c) \/ queue' = queue
          BY <2>4 DEF TrySend
        <4>2. queue \in Seq(Calls) /\ Append(queue, c) \in Seq(Calls)
          BY AppendProperties
        <4> QED BY <4>1, <4>2
      <3> QED BY <2>4, <3>1 DEF TrySend
    <2>5. CASE Accept(c)        BY <2>5 DEF Accept
    <2>6. CASE Refuse(c)        BY <2>6 DEF Refuse
    <2>7. CASE FailComplete(c)
      <3>1. callerPc[c] \in Replies /\ Encode(c, callerPc[c])
        BY <2>7 DEF FailComplete
      <3> QED BY <2>7, <3>1, EncodeType DEF FailComplete
    <2>8. CASE FailDeliver(c)   BY <2>8, SettleType DEF FailDeliver
    <2> QED BY <1>1, <2>1, <2>2, <2>3, <2>4, <2>5, <2>6, <2>7, <2>8 DEF Entry
  <1>2. ASSUME NEW c \in Calls, Cancel(c) PROVE TypeOK'
    BY <1>2 DEF Cancel
  <1>3. ASSUME NEW c \in Calls, HostFree(c) PROVE TypeOK'
    BY <1>3 DEF HostFree
  <1>4. CASE SetMaxPayload
    BY <1>4 DEF SetMaxPayload
  <1>5. ASSUME NEW w \in Workers, Work(w) \/ HandlerReturns(w) PROVE TypeOK'
    <2>1. CASE LockReceiver(w)  BY <2>1 DEF LockReceiver
    <2>2. CASE Receive(w)       BY <2>2 DEF Receive
    <2>3. CASE Disconnected(w)  BY <2>3 DEF Disconnected
    <2>4. CASE Checkpoint(w)
      <3>1. reply' \in [Calls -> Replies] /\ owner' \in [Calls -> Owners]
        BY <2>4, EncodeType DEF Checkpoint
      <3>2. dispatched' \in [Calls -> BOOLEAN] /\ workerPc' \in [Workers -> WorkerPcs]
        <4>1. dispatched' \in {dispatched, [dispatched EXCEPT ![job[w]] = TRUE]}
          BY <2>4, Zenon DEF Checkpoint
        <4>2. \/ workerPc' = [workerPc EXCEPT ![w] = "framed"]
              \/ workerPc' = [workerPc EXCEPT ![w] = "handling"]
          BY <2>4, Zenon DEF Checkpoint
        <4> QED BY <4>1, <4>2
      <3>3. UNCHANGED <<callerVars, registry, limit, senderOpen, queue, job, recvLock,
                        counterVars, ack, deliveries>>
        <4> HIDE DEF TypeOK, callerVars, counterVars
        <4> QED BY <2>4, Zenon DEF Checkpoint
      <3> QED BY <3>1, <3>2, <3>3
    <2>5. CASE HandlerReturns(w) BY <2>5, EncodeType DEF HandlerReturns
    <2>6. CASE Complete(w)      BY <2>6 DEF Complete
    <2>7. CASE Deliver(w)       BY <2>7, SettleType DEF Deliver
    <2>8. CASE Uncount(w)       BY <2>8 DEF Uncount
    <2>9. CASE Count(w)         BY <2>9 DEF Count
    <2> QED BY <1>5, <2>1, <2>2, <2>3, <2>4, <2>5, <2>6, <2>7, <2>8, <2>9 DEF Work
  <1>6. CASE DropPool
    BY <1>6 DEF DropPool
  <1>7. CASE UNCHANGED vars
    BY <1>7, AllUnchanged
  <1> QED BY <1>1, <1>2, <1>3, <1>4, <1>5, <1>6, <1>7 DEF Next, Joined

\* Every variable keeps its type, whatever the instance.
THEOREM TypeCorrect == Spec => []TypeOK
  BY TypeInit, TypeStep, PTL DEF Spec

------------------------------------------------------------------------------
(***************************************************************************)
(* The inductive invariant.  At every moment a call has one carrier: its   *)
(* host's thread, the channel, one worker, or none once it is settled; and *)
(* the carrier's place in its code says what the registry, the history and *)
(* the frame of the call look like.                                        *)
(***************************************************************************)
Present(c) == registry[c] # "absent"
Fresh(c)   == deliveries[c] = 0 /\ ~dispatched[c] /\ reply[c] = "none"

Pending      == {"registered", "checked", "reserved", "refused", "too_large",
                 "backpressure"}
Published    == {"sent", "returned"}
Refusals     == {"too_large", "backpressure"}
WorkerReply  == {"ok", "error", "cancelled"}

\* The host's thread has the call until it is published or refused.
CallerInv == \A c \in Calls :
  /\ callerPc[c] = "idle" => Fresh(c) /\ ~Present(c) /\ ack[c] = "none"
  /\ callerPc[c] \in Pending => Fresh(c) /\ Present(c)
  /\ callerPc[c] = "completed" =>
       deliveries[c] = 0 /\ ~Present(c) /\ ~dispatched[c] /\ reply[c] \in Refusals
  /\ callerPc[c] \notin Published => ~Queued(c) /\ ~AtWorker(c)

\* The channel has a call at most once, and no worker has it.
Distinct == \A i, j \in 1..Len(queue) : queue[i] = queue[j] => i = j
QueueInv == Distinct /\ \A c \in Calls : Queued(c) => Fresh(c) /\ Present(c) /\ ~AtWorker(c)

\* A worker has the call from recv to the end of the callback, alone.
WorkerInv == \A w \in Workers :
  /\ job[w] = NoCall <=> workerPc[w] \notin Carrying
  /\ \A v \in Workers : job[w] = job[v] /\ job[w] # NoCall => w = v
  /\ workerPc[w] = "got" => Fresh(job[w]) /\ Present(job[w])
  /\ workerPc[w] = "handling" =>
       deliveries[job[w]] = 0 /\ Present(job[w]) /\ dispatched[job[w]]
         /\ reply[job[w]] = "none"
  /\ workerPc[w] = "framed" =>
       deliveries[job[w]] = 0 /\ Present(job[w]) /\ reply[job[w]] \in WorkerReply
  /\ workerPc[w] = "completed" =>
       deliveries[job[w]] = 0 /\ ~Present(job[w]) /\ reply[job[w]] \in WorkerReply
  /\ workerPc[w] = "delivered" => deliveries[job[w]] = 1 /\ ~Present(job[w])

\* A call without a carrier is settled and has left the registry.
GoneInv == \A c \in Calls :
  (callerPc[c] \in Published /\ ~Queued(c) /\ ~AtWorker(c))
     => deliveries[c] = 1 /\ ~Present(c)

\* What the registry says of a call that is not dispatched yet.
RegistryInv == \A c \in Calls :
  /\ registry[c] = "running" => ack[c] = "none"
  /\ (registry[c] = "cancelled" /\ ~dispatched[c]) => ack[c] = "early"

IInv == /\ TypeOK /\ CallerInv /\ QueueInv /\ WorkerInv /\ GoneInv
        /\ RegistryInv /\ CancelHonoured /\ FrameOwned

------------------------------------------------------------------------------
(***************************************************************************)
(* Preservation, one lemma per action.                                     *)
(***************************************************************************)
USE DEF Fresh, Present, Pending, Published, Refusals, WorkerReply, Carrying,
        callerVars, workerVars, frameVars, historyVars

\* What the steps that move no call keep: the channel and the workers' jobs.
LEMMA CarriersKept ==
  ASSUME UNCHANGED <<queue, job>>
  PROVE  /\ \A c : Queued(c)' <=> Queued(c)
         /\ \A c : AtWorker(c)' <=> AtWorker(c)
         /\ Distinct' <=> Distinct
  BY DEF Queued, AtWorker, Distinct

\* A call its host's thread still has is with no worker and not in the channel.
LEMMA CallerAlone ==
  ASSUME CallerInv, NEW c \in Calls, callerPc[c] \notin Published
  PROVE  ~Queued(c) /\ \A w \in Workers : job[w] # c
  BY DEF CallerInv, AtWorker

\* A worker between recv and the end of the callback has a call.
LEMMA WorkerHasCall ==
  ASSUME TypeOK, WorkerInv, NEW w \in Workers, workerPc[w] \in Carrying
  PROVE  /\ job[w] \in Calls
         /\ \A v \in Workers : job[v] = job[w] => v = w
  BY CallsAssumption DEF TypeOK, WorkerInv

\* Of the call a worker has, the host's thread knows that it was published.
LEMMA WorkerCallPublished ==
  ASSUME TypeOK, CallerInv, QueueInv, WorkerInv, NEW w \in Workers,
         workerPc[w] \in Carrying
  PROVE  callerPc[job[w]] \in Published /\ ~Queued(job[w]) /\ AtWorker(job[w])
  BY WorkerHasCall DEF CallerInv, QueueInv, AtWorker

LEMMA RegisterKeeps ==
  ASSUME IInv, TypeOK', NEW c \in Calls, Register(c)
  PROVE  IInv'
  <1> USE CallsAssumption DEF IInv, TypeOK, Register, CallerGoes
  <1>1. UNCHANGED <<queue, job>>
    OBVIOUS
  <1>2. CallerInv' /\ QueueInv' /\ GoneInv'
    BY <1>1, CarriersKept DEF CallerInv, QueueInv, WorkerInv, GoneInv
  <1>3. WorkerInv'
    BY <1>1 DEF CallerInv, WorkerInv, AtWorker
  <1>4. RegistryInv' /\ CancelHonoured' /\ FrameOwned'
    BY <1>1 DEF CallerInv, WorkerInv, RegistryInv, CancelHonoured, FrameOwned
  <1> QED BY <1>2, <1>3, <1>4

LEMMA CheckSizeKeeps ==
  ASSUME IInv, TypeOK', NEW c \in Calls, CheckSize(c)
  PROVE  IInv'
  <1> USE CallsAssumption DEF IInv, TypeOK, CheckSize, CallerGoes
  <1>0. CallerGoes(c, "registered", "too_large") \/ CallerGoes(c, "registered", "checked")
    OBVIOUS
  <1>1. UNCHANGED <<queue, job>>
    OBVIOUS
  <1>2. CallerInv' /\ QueueInv' /\ GoneInv'
    BY <1>1, CarriersKept, <1>0 DEF CallerInv, QueueInv, WorkerInv, GoneInv
  <1>3. WorkerInv'
    BY <1>1, <1>0 DEF CallerInv, WorkerInv, AtWorker
  <1>4. RegistryInv' /\ CancelHonoured' /\ FrameOwned'
    BY <1>1, <1>0 DEF CallerInv, WorkerInv, RegistryInv, CancelHonoured, FrameOwned
  <1> QED BY <1>2, <1>3, <1>4

LEMMA ReserveKeeps ==
  ASSUME IInv, TypeOK', NEW c \in Calls, Reserve(c)
  PROVE  IInv'
  <1> USE CallsAssumption DEF IInv, TypeOK, Reserve, CallerGoes
  <1>1. UNCHANGED <<queue, job>>
    OBVIOUS
  <1>2. CallerInv' /\ QueueInv' /\ GoneInv'
    BY <1>1, CarriersKept DEF CallerInv, QueueInv, WorkerInv, GoneInv
  <1>3. WorkerInv'
    BY <1>1 DEF CallerInv, WorkerInv, AtWorker
  <1>4. RegistryInv' /\ CancelHonoured' /\ FrameOwned'
    BY <1>1 DEF CallerInv, WorkerInv, RegistryInv, CancelHonoured, FrameOwned
  <1> QED BY <1>2, <1>3, <1>4

LEMMA AcceptKeeps ==
  ASSUME IInv, TypeOK', NEW c \in Calls, Accept(c)
  PROVE  IInv'
  <1> USE CallsAssumption DEF IInv, TypeOK, Accept, CallerGoes
  <1>1. UNCHANGED <<queue, job>>
    OBVIOUS
  <1>2. CallerInv' /\ QueueInv' /\ GoneInv'
    BY <1>1, CarriersKept DEF CallerInv, QueueInv, WorkerInv, GoneInv
  <1>3. WorkerInv'
    BY <1>1 DEF CallerInv, WorkerInv, AtWorker
  <1>4. RegistryInv' /\ CancelHonoured' /\ FrameOwned'
    BY <1>1 DEF CallerInv, WorkerInv, RegistryInv, CancelHonoured, FrameOwned
  <1> QED BY <1>2, <1>3, <1>4

LEMMA RefuseKeeps ==
  ASSUME IInv, TypeOK', NEW c \in Calls, Refuse(c)
  PROVE  IInv'
  <1> USE CallsAssumption DEF IInv, TypeOK, Refuse, CallerGoes
  <1>1. UNCHANGED <<queue, job>>
    OBVIOUS
  <1>2. CallerInv' /\ QueueInv' /\ GoneInv'
    BY <1>1, CarriersKept DEF CallerInv, QueueInv, WorkerInv, GoneInv
  <1>3. WorkerInv'
    BY <1>1 DEF CallerInv, WorkerInv, AtWorker
  <1>4. RegistryInv' /\ CancelHonoured' /\ FrameOwned'
    BY <1>1 DEF CallerInv, WorkerInv, RegistryInv, CancelHonoured, FrameOwned
  <1> QED BY <1>2, <1>3, <1>4

LEMMA FailCompleteKeeps ==
  ASSUME IInv, TypeOK', NEW c \in Calls, FailComplete(c)
  PROVE  IInv'
  <1> USE CallsAssumption DEF IInv, TypeOK, FailComplete, CallerGoes, Encode, Placements, CompleteInvocation
  <1>0. ~Queued(c) /\ \A w \in Workers : job[w] # c
    BY CallerAlone
  <1>1. UNCHANGED <<queue, job>>
    OBVIOUS
  <1>2. CallerInv' /\ QueueInv' /\ GoneInv'
    BY <1>1, CarriersKept, <1>0 DEF CallerInv, QueueInv, WorkerInv, GoneInv
  <1>3. WorkerInv'
    BY <1>1, <1>0 DEF CallerInv, WorkerInv, AtWorker
  <1>4. RegistryInv' /\ CancelHonoured' /\ FrameOwned'
    BY <1>1, <1>0 DEF CallerInv, WorkerInv, RegistryInv, CancelHonoured, FrameOwned
  <1> QED BY <1>2, <1>3, <1>4

LEMMA FailDeliverKeeps ==
  ASSUME IInv, TypeOK', NEW c \in Calls, FailDeliver(c)
  PROVE  IInv'
  <1> USE CallsAssumption DEF IInv, TypeOK, FailDeliver, CallerGoes, Settle
  <1>0. ~Queued(c) /\ \A w \in Workers : job[w] # c
    BY CallerAlone
  <1>1. UNCHANGED <<queue, job>>
    OBVIOUS
  <1>2. CallerInv' /\ QueueInv' /\ GoneInv'
    BY <1>1, CarriersKept, <1>0 DEF CallerInv, QueueInv, WorkerInv, GoneInv
  <1>3. WorkerInv'
    BY <1>1, <1>0 DEF CallerInv, WorkerInv, AtWorker
  <1>4. RegistryInv' /\ CancelHonoured' /\ FrameOwned'
    <2>1. RegistryInv' /\ CancelHonoured'
      BY DEF RegistryInv, CancelHonoured
    <2>2. deliveries[c] = 0 /\ deliveries'[c] = 1 /\ owner[c] \in {"rust", "caller_buffer"}
      <3>1. deliveries[c] = 0 /\ reply[c] # "none"
        BY DEF CallerInv
      <3>2. deliveries'[c] = 1
        BY <3>1
      <3>3. owner[c] \in {"rust", "caller_buffer"}
        BY <3>1 DEF FrameOwned
      <3> QED BY <3>1, <3>2, <3>3
    <2>3. owner'[c] \in {"host", "freed", "caller_buffer"}
          /\ (owner'[c] = "host" => c \notin NullCallback)
          /\ (owner'[c] = "caller_buffer" => owner[c] = "caller_buffer")
      BY <2>2
    <2>4. ASSUME NEW x \in Calls, x # c PROVE owner'[x] = owner[x] /\ deliveries'[x] = deliveries[x]
      BY <2>4
    <2>5. reply[c] # "none"
      BY DEF CallerInv
    <2>6. FrameOwned'
      BY <2>2, <2>3, <2>4, <2>5 DEF FrameOwned
    <2> QED BY <2>1, <2>6
  <1> QED BY <1>2, <1>3, <1>4

LEMMA CancelKeeps ==
  ASSUME IInv, TypeOK', NEW c \in Calls, Cancel(c)
  PROVE  IInv'
  <1> USE CallsAssumption DEF IInv, TypeOK, Cancel
  <1>1. UNCHANGED <<queue, job>>
    OBVIOUS
  <1>2. CallerInv' /\ QueueInv' /\ GoneInv'
    BY <1>1, CarriersKept DEF CallerInv, QueueInv, WorkerInv, GoneInv
  <1>3. WorkerInv'
    BY <1>1 DEF CallerInv, WorkerInv, AtWorker
  <1>4. RegistryInv' /\ CancelHonoured' /\ FrameOwned'
    BY <1>1 DEF CallerInv, WorkerInv, RegistryInv, CancelHonoured, FrameOwned
  <1> QED BY <1>2, <1>3, <1>4

LEMMA HostFreeKeeps ==
  ASSUME IInv, TypeOK', NEW c \in Calls, HostFree(c)
  PROVE  IInv'
  <1> USE CallsAssumption DEF IInv, TypeOK, HostFree
  <1>1. UNCHANGED <<queue, job>>
    OBVIOUS
  <1>2. CallerInv' /\ QueueInv' /\ GoneInv'
    BY <1>1, CarriersKept DEF CallerInv, QueueInv, WorkerInv, GoneInv
  <1>3. WorkerInv'
    BY <1>1 DEF CallerInv, WorkerInv, AtWorker
  <1>4. RegistryInv' /\ CancelHonoured' /\ FrameOwned'
    BY <1>1 DEF CallerInv, WorkerInv, RegistryInv, CancelHonoured, FrameOwned
  <1> QED BY <1>2, <1>3, <1>4

LEMMA SetMaxPayloadKeeps ==
  ASSUME IInv, TypeOK', SetMaxPayload
  PROVE  IInv'
  <1> USE CallsAssumption DEF IInv, TypeOK, SetMaxPayload
  <1>1. UNCHANGED <<queue, job>>
    OBVIOUS
  <1>2. CallerInv' /\ QueueInv' /\ GoneInv'
    BY <1>1, CarriersKept DEF CallerInv, QueueInv, WorkerInv, GoneInv
  <1>3. WorkerInv'
    BY <1>1 DEF CallerInv, WorkerInv, AtWorker
  <1>4. RegistryInv' /\ CancelHonoured' /\ FrameOwned'
    BY <1>1 DEF CallerInv, WorkerInv, RegistryInv, CancelHonoured, FrameOwned
  <1> QED BY <1>2, <1>3, <1>4

LEMMA DropPoolKeeps ==
  ASSUME IInv, TypeOK', DropPool
  PROVE  IInv'
  <1> USE CallsAssumption DEF IInv, TypeOK, DropPool
  <1>1. UNCHANGED <<queue, job>>
    OBVIOUS
  <1>2. CallerInv' /\ QueueInv' /\ GoneInv'
    BY <1>1, CarriersKept DEF CallerInv, QueueInv, WorkerInv, GoneInv
  <1>3. WorkerInv'
    BY <1>1 DEF CallerInv, WorkerInv, AtWorker
  <1>4. RegistryInv' /\ CancelHonoured' /\ FrameOwned'
    BY <1>1 DEF CallerInv, WorkerInv, RegistryInv, CancelHonoured, FrameOwned
  <1> QED BY <1>2, <1>3, <1>4

LEMMA LockReceiverKeeps ==
  ASSUME IInv, TypeOK', NEW w \in Workers, LockReceiver(w)
  PROVE  IInv'
  <1> USE CallsAssumption DEF IInv, TypeOK, LockReceiver, WorkerGoes
  <1>1. UNCHANGED <<queue, job>>
    OBVIOUS
  <1>2. CallerInv' /\ QueueInv' /\ GoneInv'
    BY <1>1, CarriersKept DEF CallerInv, QueueInv, WorkerInv, GoneInv
  <1>3. WorkerInv'
    BY <1>1 DEF CallerInv, WorkerInv, AtWorker
  <1>4. RegistryInv' /\ CancelHonoured' /\ FrameOwned'
    BY <1>1 DEF CallerInv, WorkerInv, RegistryInv, CancelHonoured, FrameOwned
  <1> QED BY <1>2, <1>3, <1>4

LEMMA DisconnectedKeeps ==
  ASSUME IInv, TypeOK', NEW w \in Workers, Disconnected(w)
  PROVE  IInv'
  <1> USE CallsAssumption DEF IInv, TypeOK, Disconnected, WorkerGoes
  <1>1. UNCHANGED <<queue, job>>
    OBVIOUS
  <1>2. CallerInv' /\ QueueInv' /\ GoneInv'
    BY <1>1, CarriersKept DEF CallerInv, QueueInv, WorkerInv, GoneInv
  <1>3. WorkerInv'
    BY <1>1 DEF CallerInv, WorkerInv, AtWorker
  <1>4. RegistryInv' /\ CancelHonoured' /\ FrameOwned'
    BY <1>1 DEF CallerInv, WorkerInv, RegistryInv, CancelHonoured, FrameOwned
  <1> QED BY <1>2, <1>3, <1>4

LEMMA CountKeeps ==
  ASSUME IInv, TypeOK', NEW w \in Workers, Count(w)
  PROVE  IInv'
  <1> USE CallsAssumption DEF IInv, TypeOK, Count, WorkerGoes
  <1>1. UNCHANGED <<queue, job>>
    OBVIOUS
  <1>2. CallerInv' /\ QueueInv' /\ GoneInv'
    BY <1>1, CarriersKept DEF CallerInv, QueueInv, WorkerInv, GoneInv
  <1>3. WorkerInv'
    BY <1>1 DEF CallerInv, WorkerInv, AtWorker
  <1>4. RegistryInv' /\ CancelHonoured' /\ FrameOwned'
    BY <1>1 DEF CallerInv, WorkerInv, RegistryInv, CancelHonoured, FrameOwned
  <1> QED BY <1>2, <1>3, <1>4

LEMMA CheckpointKeeps ==
  ASSUME IInv, TypeOK', NEW w \in Workers, Checkpoint(w)
  PROVE  IInv'
  <1> USE CallsAssumption DEF IInv, TypeOK, Checkpoint, WorkerGoes, Encode, Placements
  <1>0. /\ job[w] \in Calls /\ \A v \in Workers : job[v] = job[w] => v = w
        /\ callerPc[job[w]] \in Published /\ ~Queued(job[w]) /\ AtWorker(job[w])
    BY WorkerHasCall, WorkerCallPublished
  <1>1. UNCHANGED <<queue, job>>
    OBVIOUS
  <1>2. CallerInv' /\ QueueInv' /\ GoneInv'
    BY <1>1, CarriersKept, <1>0 DEF CallerInv, QueueInv, WorkerInv, GoneInv
  <1>3. WorkerInv'
    BY <1>1, <1>0 DEF CallerInv, WorkerInv, AtWorker
  <1>4. RegistryInv' /\ CancelHonoured' /\ FrameOwned'
    <2> DEFINE c == job[w]
    <2>1. CASE registry[c] # "cancelled"
      BY <1>0, <2>1 DEF WorkerInv, RegistryInv, CancelHonoured, FrameOwned
    <2>2. CASE registry[c] = "cancelled"
      <3>1. PICK place \in {"rust", "caller_buffer"} :
              /\ owner' = [owner EXCEPT ![c] = place]
              /\ place = "caller_buffer" => c \in IntoCalls
        BY <2>2
      <3>2. deliveries[c] = 0 /\ ~dispatched[c] /\ ack[c] = "early"
        BY <1>0, <2>2 DEF WorkerInv, RegistryInv
      <3>3. reply' = [reply EXCEPT ![c] = "cancelled"] /\ UNCHANGED dispatched
        BY <2>2
      <3>4. RegistryInv' /\ CancelHonoured'
        BY <1>0, <3>2, <3>3 DEF RegistryInv, CancelHonoured
      <3>5. FrameOwned'
        BY <1>0, <3>1, <3>2, <3>3 DEF FrameOwned
      <3> QED BY <3>4, <3>5
    <2> QED BY <2>1, <2>2
  <1> QED BY <1>2, <1>3, <1>4

LEMMA HandlerReturnsKeeps ==
  ASSUME IInv, TypeOK', NEW w \in Workers, HandlerReturns(w)
  PROVE  IInv'
  <1> USE CallsAssumption DEF IInv, TypeOK, HandlerReturns, WorkerGoes, Encode, Placements
  <1>0. /\ job[w] \in Calls /\ \A v \in Workers : job[v] = job[w] => v = w
        /\ callerPc[job[w]] \in Published /\ ~Queued(job[w]) /\ AtWorker(job[w])
    BY WorkerHasCall, WorkerCallPublished
  <1>1. UNCHANGED <<queue, job>>
    OBVIOUS
  <1>2. CallerInv' /\ QueueInv' /\ GoneInv'
    BY <1>1, CarriersKept, <1>0 DEF CallerInv, QueueInv, WorkerInv, GoneInv
  <1>3. WorkerInv'
    BY <1>1, <1>0 DEF CallerInv, WorkerInv, AtWorker
  <1>4. RegistryInv' /\ CancelHonoured' /\ FrameOwned'
    BY <1>1, <1>0 DEF CallerInv, WorkerInv, RegistryInv, CancelHonoured, FrameOwned
  <1> QED BY <1>2, <1>3, <1>4

LEMMA CompleteKeeps ==
  ASSUME IInv, TypeOK', NEW w \in Workers, Complete(w)
  PROVE  IInv'
  <1> USE CallsAssumption DEF IInv, TypeOK, Complete, WorkerGoes, CompleteInvocation
  <1>0. /\ job[w] \in Calls /\ \A v \in Workers : job[v] = job[w] => v = w
        /\ callerPc[job[w]] \in Published /\ ~Queued(job[w]) /\ AtWorker(job[w])
    BY WorkerHasCall, WorkerCallPublished
  <1>1. UNCHANGED <<queue, job>>
    OBVIOUS
  <1>2. CallerInv' /\ QueueInv' /\ GoneInv'
    BY <1>1, CarriersKept, <1>0 DEF CallerInv, QueueInv, WorkerInv, GoneInv
  <1>3. WorkerInv'
    BY <1>1, <1>0 DEF CallerInv, WorkerInv, AtWorker
  <1>4. RegistryInv' /\ CancelHonoured' /\ FrameOwned'
    BY <1>1, <1>0 DEF CallerInv, WorkerInv, RegistryInv, CancelHonoured, FrameOwned
  <1> QED BY <1>2, <1>3, <1>4

LEMMA DeliverKeeps ==
  ASSUME IInv, TypeOK', NEW w \in Workers, Deliver(w)
  PROVE  IInv'
  <1> USE CallsAssumption DEF IInv, TypeOK, Deliver, WorkerGoes, Settle
  <1>0. /\ job[w] \in Calls /\ \A v \in Workers : job[v] = job[w] => v = w
        /\ callerPc[job[w]] \in Published /\ ~Queued(job[w]) /\ AtWorker(job[w])
    BY WorkerHasCall, WorkerCallPublished
  <1>1. UNCHANGED <<queue, job>>
    OBVIOUS
  <1>2. CallerInv' /\ QueueInv' /\ GoneInv'
    BY <1>1, CarriersKept, <1>0 DEF CallerInv, QueueInv, WorkerInv, GoneInv
  <1>3. WorkerInv'
    BY <1>1, <1>0 DEF CallerInv, WorkerInv, AtWorker
  <1>4. RegistryInv' /\ CancelHonoured' /\ FrameOwned'
    BY <1>1, <1>0 DEF CallerInv, WorkerInv, RegistryInv, CancelHonoured, FrameOwned
  <1> QED BY <1>2, <1>3, <1>4

(***************************************************************************)
(* The steps that hand a call from one carrier to the next.                *)
(***************************************************************************)

\* What appending one call does to the channel.
LEMMA AppendQueue ==
  ASSUME TypeOK, NEW c \in Calls, queue' = Append(queue, c)
  PROVE  /\ \A x : Queued(x)' <=> (Queued(x) \/ x = c)
         /\ (Distinct /\ ~Queued(c)) => Distinct'
  <1>1. /\ Len(queue') = Len(queue) + 1 /\ Len(queue) \in Nat
        /\ \A i \in 1..Len(queue) : queue'[i] = queue[i]
        /\ queue'[Len(queue) + 1] = c
    BY DEF TypeOK
  <1>2. \A x : Queued(x)' <=> (Queued(x) \/ x = c)
    BY <1>1 DEF Queued
  <1>3. (Distinct /\ ~Queued(c)) => Distinct'
    BY <1>1 DEF Distinct, Queued
  <1> QED BY <1>2, <1>3

\* What taking the head of a channel without repetitions does to it.
LEMMA TailQueue ==
  ASSUME TypeOK, Distinct, queue # <<>>, queue' = Tail(queue)
  PROVE  /\ Head(queue) \in Calls /\ Queued(Head(queue)) /\ Distinct'
         /\ \A x : Queued(x)' <=> (Queued(x) /\ x # Head(queue))
  <1>1. /\ Len(queue) \in Nat \ {0} /\ Len(queue') = Len(queue) - 1
        /\ \A i \in 1..Len(queue') : queue'[i] = queue[i + 1]
        /\ Head(queue) = queue[1] /\ Head(queue) \in Calls
    BY HeadTailProperties, EmptySeq DEF TypeOK
  <1>2. Queued(Head(queue)) /\ Distinct'
    BY <1>1 DEF Queued, Distinct
  <1>3. ASSUME NEW x, Queued(x)' PROVE Queued(x) /\ x # Head(queue)
    <2>1. PICK i \in 1..Len(queue') : queue'[i] = x
      BY <1>3 DEF Queued
    <2>2. i + 1 \in 1..Len(queue) /\ queue[i + 1] = x /\ i + 1 # 1 /\ 1 \in 1..Len(queue)
      BY <1>1, <2>1
    <2> QED BY <1>1, <2>2 DEF Queued, Distinct
  <1>4. ASSUME NEW x, Queued(x), x # Head(queue) PROVE Queued(x)'
    <2>1. PICK i \in 1..Len(queue) : queue[i] = x
      BY <1>4 DEF Queued
    <2>2. i - 1 \in 1..Len(queue') /\ queue'[i - 1] = x
      BY <1>1, <1>4, <2>1
    <2> QED BY <2>2 DEF Queued
  <1> QED BY <1>1, <1>2, <1>3, <1>4

LEMMA TrySendKeeps ==
  ASSUME IInv, TypeOK', NEW c \in Calls, TrySend(c)
  PROVE  IInv'
  <1> USE CallsAssumption DEF IInv, TypeOK, TrySend, CallerGoes
  <1>0. ~Queued(c) /\ \A w \in Workers : job[w] # c
    BY CallerAlone
  <1>1. \A x : AtWorker(x)' <=> AtWorker(x)
    BY DEF AtWorker
  <1>2. CASE queue' = Append(queue, c) /\ callerPc' = [callerPc EXCEPT ![c] = "sent"]
    <2>1. /\ \A x : Queued(x)' <=> (Queued(x) \/ x = c)
          /\ Distinct'
      BY <1>0, <1>2, AppendQueue DEF QueueInv
    <2>2. ~AtWorker(c) /\ Fresh(c) /\ Present(c)
      BY <1>0 DEF AtWorker, CallerInv
    <2>3. CallerInv' /\ QueueInv' /\ GoneInv'
      BY <1>1, <1>2, <2>1, <2>2 DEF CallerInv, QueueInv, GoneInv
    <2> QED BY <1>0, <2>3 DEF WorkerInv, RegistryInv, CancelHonoured, FrameOwned
  <1>3. CASE UNCHANGED queue /\ callerPc' = [callerPc EXCEPT ![c] = "refused"]
    <2>1. \A x : Queued(x)' <=> Queued(x)
      BY <1>3 DEF Queued
    <2>2. Distinct' <=> Distinct
      BY <1>3 DEF Distinct
    <2>3. CallerInv' /\ QueueInv' /\ GoneInv'
      BY <1>0, <1>1, <1>3, <2>1, <2>2 DEF CallerInv, QueueInv, GoneInv, AtWorker
    <2> QED BY <1>0, <2>3 DEF WorkerInv, RegistryInv, CancelHonoured, FrameOwned
  <1> QED BY <1>2, <1>3

LEMMA ReceiveKeeps ==
  ASSUME IInv, TypeOK', NEW w \in Workers, Receive(w)
  PROVE  IInv'
  <1> DEFINE c == Head(queue)
  <1> USE CallsAssumption DEF IInv, TypeOK, Receive, WorkerGoes
  <1>1. /\ c \in Calls /\ Queued(c) /\ Distinct'
        /\ \A x : Queued(x)' <=> (Queued(x) /\ x # c)
    BY TailQueue DEF QueueInv
  <1>2. job[w] = NoCall /\ Fresh(c) /\ Present(c) /\ ~AtWorker(c) /\ callerPc[c] \in Published
    BY <1>1 DEF WorkerInv, QueueInv, CallerInv
  <1>3. job' = [job EXCEPT ![w] = c] /\ UNCHANGED <<callerPc, registry, deliveries, dispatched, reply, ack>>
    OBVIOUS
  <1>4. \A x \in Calls : AtWorker(x)' <=> (AtWorker(x) \/ x = c)
    BY <1>2, <1>3 DEF AtWorker
  <1>5. CallerInv' /\ QueueInv' /\ GoneInv'
    BY <1>1, <1>2, <1>3, <1>4 DEF CallerInv, QueueInv, GoneInv
  <1>6. WorkerInv'
    BY <1>1, <1>2, <1>3 DEF WorkerInv, AtWorker
  <1>7. RegistryInv' /\ CancelHonoured' /\ FrameOwned'
    BY <1>3 DEF RegistryInv, CancelHonoured, FrameOwned
  <1> QED BY <1>5, <1>6, <1>7

LEMMA UncountKeeps ==
  ASSUME IInv, TypeOK', NEW w \in Workers, Uncount(w)
  PROVE  IInv'
  <1> DEFINE c == job[w]
  <1> USE CallsAssumption DEF IInv, TypeOK, Uncount, WorkerGoes
  <1>1. /\ c \in Calls /\ \A v \in Workers : job[v] = c => v = w
        /\ callerPc[c] \in Published /\ ~Queued(c) /\ AtWorker(c)
    BY WorkerHasCall, WorkerCallPublished
  <1>2. deliveries[c] = 1 /\ ~Present(c)
    BY DEF WorkerInv
  <1>3. job' = [job EXCEPT ![w] = NoCall]
        /\ UNCHANGED <<callerPc, registry, queue, deliveries, dispatched, reply, ack>>
    OBVIOUS
  <1>4. \A x \in Calls : AtWorker(x)' <=> (AtWorker(x) /\ x # c)
    BY <1>1, <1>3 DEF AtWorker
  <1>5. /\ \A x : Queued(x)' <=> Queued(x)
        /\ Distinct' <=> Distinct
    BY <1>3 DEF Queued, Distinct
  <1>6. CallerInv' /\ QueueInv' /\ GoneInv'
    BY <1>1, <1>2, <1>3, <1>4, <1>5 DEF CallerInv, QueueInv, GoneInv
  <1>7. WorkerInv'
    BY <1>1, <1>3 DEF WorkerInv
  <1>8. RegistryInv' /\ CancelHonoured' /\ FrameOwned'
    BY <1>3 DEF RegistryInv, CancelHonoured, FrameOwned
  <1> QED BY <1>6, <1>7, <1>8

------------------------------------------------------------------------------
LEMMA IInvInit == Init => IInv
  <1> SUFFICES ASSUME Init PROVE IInv
    OBVIOUS
  <1>1. TypeOK
    BY TypeInit
  <1>2. (\A c : ~Queued(c)) /\ Distinct /\ \A c \in Calls : ~AtWorker(c)
    BY CallsAssumption DEF Init, Queued, Distinct, AtWorker
  <1>3. CallerInv /\ QueueInv /\ GoneInv
    BY <1>2 DEF Init, CallerInv, QueueInv, GoneInv
  <1>4. WorkerInv /\ RegistryInv /\ CancelHonoured /\ FrameOwned
    BY DEF Init, WorkerInv, RegistryInv, CancelHonoured, FrameOwned
  <1> QED BY <1>1, <1>3, <1>4 DEF IInv

LEMMA IInvStep == IInv /\ [Next]_vars => IInv'
  <1> SUFFICES ASSUME IInv, [Next]_vars PROVE IInv'
    OBVIOUS
  <1>0. TypeOK'
    BY TypeStep DEF IInv
  <1>1. ASSUME NEW c \in Calls, Entry(c) \/ Cancel(c) \/ HostFree(c) PROVE IInv'
    BY <1>0, <1>1, RegisterKeeps, CheckSizeKeeps, ReserveKeeps, TrySendKeeps, AcceptKeeps,
       RefuseKeeps, FailCompleteKeeps, FailDeliverKeeps, CancelKeeps, HostFreeKeeps DEF Entry
  <1>2. ASSUME NEW w \in Workers, Work(w) \/ HandlerReturns(w) PROVE IInv'
    BY <1>0, <1>2, LockReceiverKeeps, ReceiveKeeps, DisconnectedKeeps, CheckpointKeeps,
       HandlerReturnsKeeps, CompleteKeeps, DeliverKeeps, UncountKeeps, CountKeeps DEF Work
  <1>3. CASE SetMaxPayload \/ DropPool
    BY <1>0, <1>3, SetMaxPayloadKeeps, DropPoolKeeps
  <1>4. CASE UNCHANGED vars
    <2>1. UNCHANGED <<queue, job>>
      BY <1>4, AllUnchanged
    <2> QED BY <1>0, <1>4, <2>1, AllUnchanged, CarriersKept
            DEF IInv, CallerInv, QueueInv, WorkerInv, GoneInv, RegistryInv,
                CancelHonoured, FrameOwned
  <1> QED BY <1>1, <1>2, <1>3, <1>4 DEF Next, Joined

\* The invariant covers every deliveries counter.
LEMMA IInvExactlyOnce == IInv => ExactlyOnce
  <1> SUFFICES ASSUME IInv, NEW c \in Calls
               PROVE  /\ deliveries[c] <= 1
                      /\ (callerPc[c] = "returned" /\ ~Queued(c) /\ ~AtWorker(c))
                           => deliveries[c] = 1
    BY DEF ExactlyOnce
  <1> USE DEF IInv
  <1>1. CASE callerPc[c] \notin Published
    <2>1. deliveries[c] = 0
      BY <1>1 DEF CallerInv, TypeOK, CallerPcs
    <2> QED BY <1>1, <2>1
  <1>2. CASE Queued(c)
    BY <1>2 DEF QueueInv
  <1>3. CASE AtWorker(c)
    <2>1. PICK w \in Workers : job[w] = c
      BY <1>3 DEF AtWorker
    <2>2. workerPc[w] \in Carrying
      BY <2>1, CallsAssumption DEF WorkerInv
    <2> QED BY <1>3, <2>1, <2>2 DEF WorkerInv
  <1>4. CASE callerPc[c] \in Published /\ ~Queued(c) /\ ~AtWorker(c)
    BY <1>4 DEF GoneInv
  <1> QED BY <1>1, <1>2, <1>3, <1>4

LEMMA IInvCompleteBeforeCallback == IInv => CompleteBeforeCallback
  <1> SUFFICES ASSUME IInv PROVE CompleteBeforeCallback
    OBVIOUS
  <1> USE DEF IInv
  <1>1. \A w \in Workers : workerPc[w] = "handling" => registry[job[w]] # "absent"
    BY DEF WorkerInv
  <1>2. ASSUME NEW c \in Calls, deliveries[c] > 0 PROVE registry[c] = "absent"
    <2>1. CASE callerPc[c] \notin Published
      <3>1. callerPc[c] \in Pending \cup {"idle", "completed"}
        BY <2>1 DEF TypeOK, CallerPcs
      <3> QED BY <1>2, <3>1 DEF CallerInv
    <2>2. CASE Queued(c)
      BY <1>2, <2>2 DEF QueueInv
    <2>3. CASE AtWorker(c)
      <3>1. PICK w \in Workers : job[w] = c
        BY <2>3 DEF AtWorker
      <3>2. workerPc[w] \in Carrying
        BY <3>1, CallsAssumption DEF WorkerInv
      <3> QED BY <1>2, <3>1, <3>2 DEF WorkerInv
    <2>4. CASE callerPc[c] \in Published /\ ~Queued(c) /\ ~AtWorker(c)
      BY <2>4 DEF GoneInv
    <2> QED BY <2>1, <2>2, <2>3, <2>4
  <1> QED BY <1>1, <1>2 DEF CompleteBeforeCallback

LEMMA Invariance == Spec => []IInv
  BY IInvInit, IInvStep, PTL DEF Spec

\* No path loses or repeats a completion callback.
THEOREM SettledExactlyOnce == Spec => []ExactlyOnce
  BY Invariance, IInvExactlyOnce, PTL

\* A cancellation acknowledged before the checkpoint is final, and the reply
\* never contradicts whether the handler ran.
THEOREM CancellationSound == Spec => []CancelHonoured
  <1>1. IInv => CancelHonoured
    BY DEF IInv
  <1> QED BY <1>1, Invariance, PTL

\* The registry entry lives through the handler and is gone by the callback.
THEOREM RegistryOrder == Spec => []CompleteBeforeCallback
  BY Invariance, IInvCompleteBeforeCallback, PTL

\* Every response frame has one owner and is freed by it alone.
THEOREM FramesOwned == Spec => []FrameOwned
  <1>1. IInv => FrameOwned
    BY DEF IInv
  <1> QED BY <1>1, Invariance, PTL

------------------------------------------------------------------------------
(***************************************************************************)
(* Refinement: the pool implements the contract of AsyncCall.              *)
(***************************************************************************)
LEMMA ContractInit == Init => Contract!Init
  BY DEF Init, Contract!Init, AbsPhase, AbsResult

\* Steps that neither start, cancel, dispatch nor settle a call are stutters.
LEMMA ContractStutter ==
  ASSUME IInv, UNCHANGED <<dispatched, ack, deliveries>>,
         \A c \in Calls : callerPc'[c] = "idle" <=> callerPc[c] = "idle",
         \A c \in Calls : deliveries[c] > 0 => reply'[c] = reply[c]
  PROVE  UNCHANGED Contract!vars
  <1>1. AbsPhase' = AbsPhase
    BY DEF AbsPhase
  <1>2. AbsResult' = AbsResult
    BY DEF AbsResult
  <1> QED BY <1>1, <1>2 DEF Contract!vars

\* A call that is settled keeps its carrier's reply and is counted once.
LEMMA ContractSettle ==
  ASSUME IInv, NEW c \in Calls, callerPc[c] # "idle", deliveries[c] = 0,
         deliveries' = [deliveries EXCEPT ![c] = 1], reply[c] \in Contract!Allowed(c),
         UNCHANGED <<reply, dispatched, ack>>,
         \A x \in Calls : callerPc'[x] = "idle" <=> callerPc[x] = "idle"
  PROVE  Contract!Settle(c)
  <1> USE DEF IInv, TypeOK
  <1>0. /\ deliveries'[c] = 1 /\ reply'[c] = reply[c] /\ callerPc'[c] # "idle"
        /\ \A x \in Calls \ {c} : deliveries'[x] = deliveries[x] /\ reply'[x] = reply[x]
    OBVIOUS
  <1>1. AbsPhase[c] = "open" /\ AbsPhase' = [AbsPhase EXCEPT ![c] = "settled"]
    <2>1. AbsPhase[c] = "open" /\ AbsPhase'[c] = "settled"
      BY <1>0 DEF AbsPhase
    <2>2. \A x \in Calls \ {c} : AbsPhase'[x] = AbsPhase[x]
      BY <1>0 DEF AbsPhase
    <2>3. AbsPhase = [x \in Calls |-> AbsPhase[x]] /\ AbsPhase' = [x \in Calls |-> AbsPhase'[x]]
      BY DEF AbsPhase
    <2> HIDE DEF TypeOK, IInv
    <2> QED BY <2>1, <2>2, <2>3
  <1>2. AbsResult' = [AbsResult EXCEPT ![c] = reply[c]]
    <2>1. AbsResult'[c] = reply[c] /\ \A x \in Calls \ {c} : AbsResult'[x] = AbsResult[x]
      BY <1>0 DEF AbsResult
    <2> QED BY <2>1 DEF AbsResult
  <1> QED BY <1>1, <1>2 DEF Contract!Settle

LEMMA ContractStep == IInv /\ [Next]_vars => [Contract!Next]_(Contract!vars)
  <1> SUFFICES ASSUME IInv, [Next]_vars PROVE Contract!Next \/ UNCHANGED Contract!vars
    BY DEF Contract!vars
  <1> USE DEF IInv, TypeOK
  <1>1. ASSUME NEW c \in Calls, Register(c) PROVE Contract!Next
    <2>1. deliveries[c] = 0 /\ callerPc[c] = "idle"
      BY <1>1 DEF Register, CallerGoes, CallerInv
    <2>2. AbsPhase[c] = "idle" /\ AbsPhase' = [AbsPhase EXCEPT ![c] = "open"]
      <3>1. callerPc' = [callerPc EXCEPT ![c] = "registered"] /\ UNCHANGED deliveries
        BY <1>1 DEF Register, CallerGoes
      <3>2. AbsPhase[c] = "idle" /\ AbsPhase'[c] = "open"
        BY <2>1, <3>1 DEF AbsPhase
      <3>3. \A x \in Calls \ {c} : AbsPhase'[x] = AbsPhase[x]
        BY <3>1 DEF AbsPhase
      <3>4. /\ AbsPhase = [x \in Calls |-> AbsPhase[x]]
            /\ AbsPhase' = [x \in Calls |-> AbsPhase'[x]]
        BY DEF AbsPhase
      <3> QED BY <3>2, <3>3, <3>4
    <2>3. UNCHANGED <<dispatched, ack, AbsResult>>
      BY <1>1 DEF Register, AbsResult
    <2> QED BY <2>2, <2>3 DEF Contract!Next, Contract!Open
  <1>2. ASSUME NEW c \in Calls, Cancel(c) PROVE Contract!Next
    <2>1. callerPc[c] # "idle" /\ deliveries[c] = 0 /\ ack[c] = "none"
      <3>1. registry[c] = "running"
        BY <1>2 DEF Cancel
      <3>2. deliveries[c] = 0
        <4>1. deliveries[c] \in Nat /\ ~(deliveries[c] > 0)
          BY <3>1, IInvCompleteBeforeCallback DEF CompleteBeforeCallback
        <4> QED BY <4>1
      <3>3. callerPc[c] # "idle" /\ ack[c] = "none"
        BY <3>1 DEF CallerInv, RegistryInv
      <3> QED BY <3>2, <3>3
    <2>2. AbsPhase[c] = "open" /\ UNCHANGED <<AbsPhase, AbsResult, dispatched>>
      BY <1>2, <2>1 DEF Cancel, AbsPhase, AbsResult
    <2>3. ack' = [ack EXCEPT ![c] = IF dispatched[c] THEN "late" ELSE "early"]
      BY <1>2 DEF Cancel
    <2> QED BY <2>1, <2>2, <2>3 DEF Contract!Next, Contract!Cancel
  <1>3. ASSUME NEW w \in Workers, Checkpoint(w)
        PROVE  Contract!Next \/ UNCHANGED Contract!vars
    <2> DEFINE c == job[w]
    <2>0. /\ c \in Calls /\ callerPc[c] # "idle" /\ Fresh(c) /\ Present(c)
      BY <1>3, WorkerHasCall, WorkerCallPublished DEF Checkpoint, WorkerGoes, WorkerInv
    <2>1. CASE registry[c] # "cancelled"
      <3>1. ack[c] = "none"
        BY <2>0, <2>1 DEF RegistryInv
      <3>2. AbsPhase[c] = "open" /\ UNCHANGED <<AbsPhase, AbsResult, ack>>
        BY <1>3, <2>0, <2>1 DEF Checkpoint, AbsPhase, AbsResult
      <3>3. dispatched' = [dispatched EXCEPT ![c] = TRUE]
        BY <1>3, <2>1 DEF Checkpoint
      <3> QED BY <2>0, <3>1, <3>2, <3>3 DEF Contract!Next, Contract!Run
    <2>2. CASE registry[c] = "cancelled"
      BY <1>3, <2>0, <2>2, ContractStutter DEF Checkpoint, Encode
    <2> QED BY <2>1, <2>2
  <1>4. ASSUME NEW c \in Calls, FailDeliver(c) PROVE Contract!Next
    <2>1. callerPc[c] = "completed" /\ deliveries[c] = 0 /\ ~dispatched[c]
          /\ reply[c] \in Refusals
      BY <1>4 DEF FailDeliver, CallerGoes, CallerInv
    <2>2. reply[c] \in Contract!Allowed(c)
      BY <2>1 DEF Contract!Allowed, Contract!RefusalResults
    <2>3. deliveries' = [deliveries EXCEPT ![c] = 1]
      BY <1>4, <2>1 DEF FailDeliver, Settle
    <2>4. UNCHANGED <<reply, dispatched, ack>>
          /\ \A x \in Calls : callerPc'[x] = "idle" <=> callerPc[x] = "idle"
      BY <1>4 DEF FailDeliver, CallerGoes
    <2> QED BY <2>1, <2>2, <2>3, <2>4, ContractSettle DEF Contract!Next
  <1>5. ASSUME NEW w \in Workers, Deliver(w) PROVE Contract!Next
    <2> DEFINE c == job[w]
    <2>1. /\ c \in Calls /\ callerPc[c] # "idle" /\ deliveries[c] = 0
          /\ reply[c] \in WorkerReply
      BY <1>5, WorkerHasCall, WorkerCallPublished DEF Deliver, WorkerGoes, WorkerInv
    <2>2. reply[c] \in Contract!Allowed(c)
      BY <2>1 DEF CancelHonoured, Contract!Allowed, Contract!HandlerResults
    <2>3. deliveries' = [deliveries EXCEPT ![c] = 1]
      BY <1>5, <2>1 DEF Deliver, Settle
    <2>4. UNCHANGED <<reply, dispatched, ack, callerPc>>
      BY <1>5 DEF Deliver
    <2> QED BY <2>1, <2>2, <2>3, <2>4, ContractSettle DEF Contract!Next
  <1>6. ASSUME NEW w \in Workers, HandlerReturns(w) PROVE UNCHANGED Contract!vars
    <2>1. job[w] \in Calls /\ deliveries[job[w]] = 0
      BY <1>6, WorkerHasCall DEF HandlerReturns, WorkerGoes, WorkerInv
    <2> QED BY <1>6, <2>1, ContractStutter DEF HandlerReturns, Encode
  <1>7. ASSUME NEW c \in Calls, FailComplete(c) PROVE UNCHANGED Contract!vars
    <2>1. callerPc[c] # "idle" /\ callerPc'[c] # "idle" /\ deliveries[c] = 0
      BY <1>7 DEF FailComplete, CallerGoes, CallerInv
    <2> QED BY <1>7, <2>1, ContractStutter DEF FailComplete, CallerGoes, Encode
  <1>8. ASSUME NEW c \in Calls,
               CheckSize(c) \/ Reserve(c) \/ TrySend(c) \/ Accept(c) \/ Refuse(c) \/ HostFree(c)
        PROVE  UNCHANGED Contract!vars
    <2>1. /\ UNCHANGED <<dispatched, ack, deliveries, reply>>
          /\ \A x \in Calls : callerPc'[x] = "idle" <=> callerPc[x] = "idle"
      BY <1>8 DEF CheckSize, Reserve, TrySend, Accept, Refuse, HostFree, CallerGoes
    <2> QED BY <2>1, ContractStutter
  <1>9. ASSUME NEW w \in Workers,
               LockReceiver(w) \/ Receive(w) \/ Disconnected(w) \/ Complete(w)
                 \/ Uncount(w) \/ Count(w)
        PROVE  UNCHANGED Contract!vars
    <2>1. UNCHANGED <<dispatched, ack, deliveries, reply, callerPc>>
      BY <1>9 DEF LockReceiver, Receive, Disconnected, Complete, Uncount, Count
    <2> QED BY <2>1, ContractStutter
  <1>10. CASE SetMaxPayload \/ DropPool \/ UNCHANGED vars
    <2>1. UNCHANGED <<dispatched, ack, deliveries, reply, callerPc>>
      BY <1>10, AllUnchanged DEF SetMaxPayload, DropPool
    <2> QED BY <2>1, ContractStutter
  <1> QED BY <1>1, <1>2, <1>3, <1>4, <1>5, <1>6, <1>7, <1>8, <1>9, <1>10
          DEF Next, Entry, Work, Joined

\* The pool, with its threads, locks and counters, is one way of keeping the
\* promise the entries make to a host.
THEOREM Refinement == Spec => ImplementsAsyncCall
  <1>1. Init /\ [][Next]_vars => Contract!Init /\ [][Contract!Next]_(Contract!vars)
    BY ContractInit, ContractStep, Invariance, PTL DEF Spec
  <1> QED BY <1>1 DEF Spec, ImplementsAsyncCall, Contract!Spec

------------------------------------------------------------------------------
(***************************************************************************)
(* The inflight counter.  Its value is the number of calls between the     *)
(* reservation and the end of the run, so no decrement ever meets zero.    *)
(***************************************************************************)
CountInv == IInv /\ InflightExact

\* How the counter follows the set it counts.
LEMMA CardinalityStep ==
  ASSUME NEW c \in Calls
  PROVE  /\ (Inflight' = Inflight /\ inflight' = inflight /\ InflightExact) => InflightExact'
         /\ (Inflight' = Inflight \cup {c} /\ c \notin Inflight /\ inflight' = inflight + 1
              /\ InflightExact) => InflightExact'
         /\ (Inflight' = Inflight \ {c} /\ c \in Inflight /\ inflight' = inflight - 1
              /\ InflightExact) => InflightExact'
  <1>1. IsFiniteSet(Inflight)
    BY FS_Subset, CallsAssumption DEF Inflight
  <1>2. /\ Cardinality(Inflight) \in Nat
        /\ Cardinality(Inflight \cup {c}) =
             IF c \in Inflight THEN Cardinality(Inflight) ELSE Cardinality(Inflight) + 1
        /\ Cardinality(Inflight \ {c}) =
             IF c \in Inflight THEN Cardinality(Inflight) - 1 ELSE Cardinality(Inflight)
    BY <1>1, FS_CardinalityType, FS_AddElement, FS_RemoveElement
  <1> QED BY <1>2 DEF InflightExact

LEMMA CountInit == Init => InflightExact
  <1> SUFFICES ASSUME Init PROVE InflightExact
    OBVIOUS
  <1>1. Inflight = {}
    BY CallsAssumption DEF Init, Inflight, Queued, AtWorker
  <1> QED BY <1>1, FS_EmptySet DEF Init, InflightExact

LEMMA CountStep == CountInv /\ [Next]_vars => InflightExact'
  <1> SUFFICES ASSUME CountInv, [Next]_vars PROVE InflightExact'
    OBVIOUS
  <1> USE DEF CountInv, IInv
  <1>1. ASSUME NEW c \in Calls, Reserve(c) PROVE InflightExact'
    <2>1. c \notin Inflight
      BY <1>1 DEF Reserve, CallerGoes, CallerInv, Inflight
    <2>2. UNCHANGED <<queue, job>> /\ callerPc' = [callerPc EXCEPT ![c] = "reserved"]
      BY <1>1 DEF Reserve, CallerGoes
    <2>3. Inflight' = Inflight \cup {c}
      BY <1>1, <2>2, CarriersKept DEF Reserve, CallerGoes, Inflight, TypeOK
    <2>4. inflight' = inflight + 1
      BY <1>1 DEF Reserve
    <2> QED BY <2>1, <2>3, <2>4, CardinalityStep
  <1>2. ASSUME NEW c \in Calls, Refuse(c) PROVE InflightExact'
    <2>1. c \in Inflight /\ ~Queued(c) /\ ~AtWorker(c)
      BY <1>2 DEF Refuse, CallerGoes, CallerInv, Inflight
    <2>2. UNCHANGED <<queue, job>> /\ callerPc' = [callerPc EXCEPT ![c] = "backpressure"]
      BY <1>2 DEF Refuse, CallerGoes
    <2>3. Inflight' = Inflight \ {c}
      BY <2>1, <2>2, CarriersKept DEF Inflight, TypeOK
    <2>4. inflight' = inflight - 1
      BY <1>2 DEF Refuse
    <2> QED BY <2>1, <2>3, <2>4, CardinalityStep
  <1>3. ASSUME NEW w \in Workers, Uncount(w) PROVE InflightExact'
    <2> DEFINE c == job[w]
    <2>1. /\ c \in Calls /\ callerPc[c] \in Published /\ ~Queued(c) /\ AtWorker(c)
          /\ \A v \in Workers : job[v] = c => v = w
      BY <1>3, WorkerHasCall, WorkerCallPublished DEF Uncount, WorkerGoes
    <2>2. UNCHANGED <<queue, callerPc>> /\ job' = [job EXCEPT ![w] = NoCall]
      BY <1>3 DEF Uncount
    <2>3. \A x \in Calls : AtWorker(x)' <=> (AtWorker(x) /\ x # c)
      BY <2>1, <2>2, CallsAssumption DEF AtWorker, TypeOK
    <2>4. Inflight' = Inflight \ {c}
      BY <2>1, <2>2, <2>3 DEF Inflight, Queued
    <2>5. c \in Inflight /\ inflight' = inflight - 1
      BY <1>3, <2>1 DEF Inflight, Uncount
    <2> QED BY <2>1, <2>4, <2>5, CardinalityStep
  <1>4. ASSUME NEW c \in Calls, TrySend(c) PROVE InflightExact'
    <2>1. UNCHANGED job /\ UNCHANGED inflight /\ callerPc[c] = "reserved"
      BY <1>4 DEF TrySend, CallerGoes, counterVars
    <2>2. CASE queue' = Append(queue, c) /\ callerPc' = [callerPc EXCEPT ![c] = "sent"]
      <3>1. Inflight' = Inflight
        BY <2>1, <2>2, AppendQueue DEF Inflight, AtWorker, TypeOK
      <3> QED BY <2>1, <3>1, CardinalityStep
    <2>3. CASE UNCHANGED queue /\ callerPc' = [callerPc EXCEPT ![c] = "refused"]
      <3>1. Inflight' = Inflight
        BY <2>1, <2>3 DEF Inflight, AtWorker, Queued, TypeOK
      <3> QED BY <2>1, <3>1, CardinalityStep
    <2> QED BY <1>4, <2>2, <2>3 DEF TrySend, CallerGoes
  <1>5. ASSUME NEW w \in Workers, Receive(w) PROVE InflightExact'
    <2> DEFINE c == Head(queue)
    <2>1. /\ c \in Calls /\ Queued(c) /\ \A x : Queued(x)' <=> (Queued(x) /\ x # c)
      BY <1>5, TailQueue DEF Receive, QueueInv
    <2>2. /\ job[w] = NoCall /\ job' = [job EXCEPT ![w] = c]
          /\ UNCHANGED <<callerPc, inflight>>
      BY <1>5 DEF Receive, WorkerGoes, WorkerInv, counterVars
    <2>3. \A x \in Calls : AtWorker(x)' <=> (AtWorker(x) \/ x = c)
      BY <2>1, <2>2, CallsAssumption DEF AtWorker, TypeOK
    <2>4. Inflight' = Inflight
      BY <2>1, <2>2, <2>3 DEF Inflight
    <2> QED BY <2>1, <2>2, <2>4, CardinalityStep
  <1>6. ASSUME UNCHANGED <<queue, job, inflight>>,
               \A x \in Calls : callerPc'[x] \in {"reserved", "refused"}
                                  <=> callerPc[x] \in {"reserved", "refused"}
        PROVE  InflightExact'
    <2>1. Inflight' = Inflight
      BY <1>6, CarriersKept DEF Inflight
    <2> QED BY <1>6, <2>1 DEF InflightExact
  <1>7. ASSUME NEW c \in Calls,
               Register(c) \/ CheckSize(c) \/ Accept(c) \/ FailComplete(c) \/ FailDeliver(c)
                 \/ Cancel(c) \/ HostFree(c)
        PROVE  InflightExact'
    <2>1. UNCHANGED <<queue, job, inflight>>
      BY <1>7 DEF Register, CheckSize, Accept, FailComplete, FailDeliver, Cancel, HostFree,
                  counterVars
    <2>2. \A x \in Calls : callerPc'[x] \in {"reserved", "refused"}
                             <=> callerPc[x] \in {"reserved", "refused"}
      BY <1>7 DEF Register, CheckSize, Accept, FailComplete, FailDeliver, Cancel, HostFree,
                  CallerGoes, TypeOK
    <2> QED BY <1>6, <2>1, <2>2
  <1>8. ASSUME NEW w \in Workers,
               LockReceiver(w) \/ Disconnected(w) \/ Checkpoint(w) \/ HandlerReturns(w)
                 \/ Complete(w) \/ Deliver(w) \/ Count(w)
        PROVE  InflightExact'
    <2>1. UNCHANGED <<queue, job, inflight, callerPc>>
      BY <1>8 DEF LockReceiver, Disconnected, Checkpoint, HandlerReturns, Complete, Deliver,
                  Count, counterVars
    <2> QED BY <1>6, <2>1
  <1>9. CASE SetMaxPayload \/ DropPool \/ UNCHANGED vars
    <2>1. UNCHANGED <<queue, job, inflight, callerPc>>
      BY <1>9, AllUnchanged DEF SetMaxPayload, DropPool, counterVars
    <2> QED BY <1>6, <2>1
  <1> QED BY <1>1, <1>2, <1>3, <1>4, <1>5, <1>7, <1>8, <1>9 DEF Next, Entry, Work, Joined

\* The inflight counter is exact, hence never negative, in every interleaving
\* of reservations, refusals and workers that finish before submit returns.
THEOREM InflightCounts == Spec => []InflightExact
  <1>1. Init => CountInv
    BY IInvInit, CountInit DEF CountInv
  <1>2. CountInv /\ [Next]_vars => CountInv'
    BY IInvStep, CountStep DEF CountInv
  <1>3. CountInv => InflightExact
    BY DEF CountInv
  <1> QED BY <1>1, <1>2, <1>3, PTL DEF Spec

\* Registry, counter and frames account for every call at every moment.
THEOREM BooksKept == Spec => []BooksBalance
  <1>1. CompleteBeforeCallback /\ InflightExact /\ FrameOwned => BooksBalance
    BY DEF BooksBalance
  <1> QED BY <1>1, RegistryOrder, InflightCounts, FramesOwned, PTL
------------------------------------------------------------------------------
(***************************************************************************)
(* The end of a pool.  A worker leaves only a channel that is closed and   *)
(* empty, and a pool is dropped only when no submit is under way, so that  *)
(* nothing follows it into the channel.  The counters of accepted and of   *)
(* completed jobs differ by the jobs that are on their way.                *)
(***************************************************************************)
Publishing == {c \in Calls : callerPc[c] = "sent"}          \* sent, not yet counted
Busy == {w \in Workers : workerPc[w] \in Carrying \cup {"uncounted"}}

OnTheirWay ==
  submitted + Cardinality(Publishing) = completed + Len(queue) + Cardinality(Busy)

EndInv ==
  /\ ~senderOpen => \A c \in Calls : callerPc[c] \in {"idle", "returned"}
  /\ \A w \in Workers : workerPc[w] = "exited" => ~senderOpen /\ queue = << >>

DrainInv == CountInv /\ OnTheirWay /\ EndInv

LEMMA DrainInit == Init => OnTheirWay /\ EndInv
  <1> SUFFICES ASSUME Init PROVE OnTheirWay /\ EndInv
    OBVIOUS
  <1>1. Publishing = {} /\ Busy = {}
    BY DEF Init, Publishing, Busy, Carrying
  <1>2. Cardinality({}) = 0
    BY FS_EmptySet
  <1>3. Len(queue) = 0 /\ submitted = 0 /\ completed = 0
    BY DEF Init
  <1>4. OnTheirWay
    BY <1>1, <1>2, <1>3 DEF OnTheirWay
  <1> QED BY <1>4 DEF Init, EndInv

\* How the two sets are counted when one of their members comes or goes.
LEMMA SetsCounted ==
  /\ Cardinality(Publishing) \in Nat /\ Cardinality(Busy) \in Nat
  /\ \A c \in Calls :
       /\ c \notin Publishing => Cardinality(Publishing \cup {c}) = Cardinality(Publishing) + 1
       /\ c \in Publishing => Cardinality(Publishing \ {c}) = Cardinality(Publishing) - 1
  /\ \A w \in Workers :
       /\ w \notin Busy => Cardinality(Busy \cup {w}) = Cardinality(Busy) + 1
       /\ w \in Busy => Cardinality(Busy \ {w}) = Cardinality(Busy) - 1
  <1>1. IsFiniteSet(Publishing) /\ IsFiniteSet(Busy)
    BY FS_Subset, CallsAssumption, WorkersAssumption DEF Publishing, Busy
  <1> QED BY <1>1, FS_CardinalityType, FS_AddElement, FS_RemoveElement

\* Nobody is published, nobody takes or ends a job.
LEMMA BooksUntouched ==
  ASSUME OnTheirWay, UNCHANGED <<queue, submitted, completed>>,
         \A c \in Calls : callerPc'[c] = "sent" <=> callerPc[c] = "sent",
         \A w \in Workers : workerPc'[w] \in Carrying \cup {"uncounted"}
                              <=> workerPc[w] \in Carrying \cup {"uncounted"}
  PROVE  OnTheirWay'
  <1>1. Publishing' = Publishing /\ Busy' = Busy
    BY DEF Publishing, Busy
  <1> QED BY <1>1 DEF OnTheirWay

LEMMA BooksStep == DrainInv /\ [Next]_vars => OnTheirWay'
  <1> SUFFICES ASSUME DrainInv, [Next]_vars PROVE OnTheirWay'
    OBVIOUS
  <1> USE DEF DrainInv, CountInv, IInv
  <1> DEFINE sent == Cardinality(Publishing)
             busy == Cardinality(Busy)
  <1>0. /\ Len(queue) \in Nat /\ submitted \in Nat /\ completed \in Nat
        /\ sent \in Nat /\ busy \in Nat
        /\ submitted + sent = completed + Len(queue) + busy
    BY SetsCounted DEF TypeOK, OnTheirWay
  <1>1. ASSUME NEW c \in Calls, TrySend(c) PROVE OnTheirWay'
    <2>1. UNCHANGED <<workerPc, submitted, completed>> /\ callerPc[c] = "reserved"
      BY <1>1 DEF TrySend, CallerGoes, workerVars, counterVars
    <2>2. CASE queue' = Append(queue, c) /\ callerPc' = [callerPc EXCEPT ![c] = "sent"]
      <3>1. Publishing' = Publishing \cup {c} /\ c \notin Publishing /\ Busy' = Busy
        BY <2>1, <2>2 DEF Publishing, Busy, TypeOK
      <3>2. Len(queue') = Len(queue) + 1
        BY <2>2, AppendProperties DEF TypeOK
      <3>3. Cardinality(Publishing') = sent + 1 /\ Cardinality(Busy') = busy
        BY <3>1, SetsCounted
      <3> HIDE DEF sent, busy, DrainInv
      <3> QED BY <1>0, <2>1, <3>2, <3>3 DEF OnTheirWay
    <2>3. CASE UNCHANGED queue /\ callerPc' = [callerPc EXCEPT ![c] = "refused"]
      BY <2>1, <2>3, BooksUntouched DEF TypeOK
    <2> QED BY <1>1, <2>2, <2>3 DEF TrySend, CallerGoes
  <1>2. ASSUME NEW c \in Calls, Accept(c) PROVE OnTheirWay'
    <2>1. Publishing' = Publishing \ {c} /\ c \in Publishing
      BY <1>2 DEF Accept, CallerGoes, Publishing, TypeOK
    <2>2. Busy' = Busy /\ UNCHANGED <<queue, completed>> /\ submitted' = submitted + 1
      BY <1>2 DEF Accept, Busy, workerVars
    <2>3. Cardinality(Publishing') = sent - 1 /\ Cardinality(Busy') = busy
      BY <2>1, <2>2, SetsCounted
    <2> HIDE DEF sent, busy, DrainInv
    <2> QED BY <1>0, <2>2, <2>3 DEF OnTheirWay
  <1>3. ASSUME NEW w \in Workers, Receive(w) PROVE OnTheirWay'
    <2>1. Busy' = Busy \cup {w} /\ w \notin Busy
      BY <1>3 DEF Receive, WorkerGoes, Busy, Carrying, TypeOK
    <2>2. Len(queue') = Len(queue) - 1
      BY <1>3, HeadTailProperties DEF Receive, TypeOK
    <2>3. Publishing' = Publishing /\ UNCHANGED <<submitted, completed>>
      BY <1>3 DEF Receive, Publishing, callerVars, counterVars
    <2>4. Cardinality(Publishing') = sent /\ Cardinality(Busy') = busy + 1
      BY <2>1, <2>3, SetsCounted
    <2> HIDE DEF sent, busy, DrainInv
    <2> QED BY <1>0, <2>2, <2>3, <2>4 DEF OnTheirWay
  <1>4. ASSUME NEW w \in Workers, Count(w) PROVE OnTheirWay'
    <2>1. Busy' = Busy \ {w} /\ w \in Busy
      BY <1>4 DEF Count, WorkerGoes, Busy, Carrying, TypeOK
    <2>2. /\ Publishing' = Publishing /\ UNCHANGED <<queue, submitted>>
          /\ completed' = completed + 1
      BY <1>4 DEF Count, Publishing, callerVars
    <2>3. Cardinality(Publishing') = sent /\ Cardinality(Busy') = busy - 1
      BY <2>1, <2>2, SetsCounted
    <2> HIDE DEF sent, busy, DrainInv
    <2> QED BY <1>0, <2>2, <2>3 DEF OnTheirWay
  <1>5. ASSUME NEW c \in Calls,
               Register(c) \/ CheckSize(c) \/ Reserve(c) \/ Refuse(c) \/ FailComplete(c)
                 \/ FailDeliver(c) \/ Cancel(c) \/ HostFree(c)
        PROVE  OnTheirWay'
    <2>1. UNCHANGED <<queue, submitted, completed, workerPc>>
      BY <1>5 DEF Register, CheckSize, Reserve, Refuse, FailComplete, FailDeliver, Cancel,
                  HostFree, workerVars, counterVars
    <2>2. \A x \in Calls : callerPc'[x] = "sent" <=> callerPc[x] = "sent"
      BY <1>5 DEF Register, CheckSize, Reserve, Refuse, FailComplete, FailDeliver, Cancel,
                  HostFree, CallerGoes, callerVars, TypeOK
    <2> QED BY <2>1, <2>2, BooksUntouched
  <1>6. ASSUME NEW w \in Workers,
               LockReceiver(w) \/ Disconnected(w) \/ Checkpoint(w) \/ HandlerReturns(w)
                 \/ Complete(w) \/ Deliver(w) \/ Uncount(w)
        PROVE  OnTheirWay'
    <2>1. UNCHANGED <<queue, submitted, completed, callerPc>>
      BY <1>6 DEF LockReceiver, Disconnected, Checkpoint, HandlerReturns, Complete, Deliver,
                  Uncount, callerVars, counterVars
    <2>2. \A v \in Workers : workerPc'[v] \in Carrying \cup {"uncounted"}
                               <=> workerPc[v] \in Carrying \cup {"uncounted"}
      BY <1>6 DEF LockReceiver, Disconnected, Checkpoint, HandlerReturns, Complete, Deliver,
                  Uncount, WorkerGoes, Carrying, TypeOK
    <2> QED BY <2>1, <2>2, BooksUntouched
  <1>7. CASE SetMaxPayload \/ DropPool \/ UNCHANGED vars
    <2>1. UNCHANGED <<queue, submitted, completed, callerPc, workerPc>>
      BY <1>7, AllUnchanged DEF SetMaxPayload, DropPool, callerVars, workerVars, counterVars
    <2> QED BY <2>1, BooksUntouched
  <1> QED BY <1>1, <1>2, <1>3, <1>4, <1>5, <1>6, <1>7 DEF Next, Entry, Work, Joined

LEMMA EndStep == DrainInv /\ [Next]_vars => EndInv'
  <1> SUFFICES ASSUME DrainInv, [Next]_vars PROVE EndInv'
    OBVIOUS
  <1> USE DEF DrainInv, CountInv, IInv, TypeOK, EndInv, CallerGoes, WorkerGoes, callerVars,
              workerVars
  <1>1. ASSUME NEW c \in Calls, Entry(c) PROVE EndInv'
    <2>1. senderOpen /\ UNCHANGED <<senderOpen, workerPc>>
      BY <1>1 DEF Entry, Register, CheckSize, Reserve, TrySend, Accept, Refuse, FailComplete,
                  FailDeliver
    <2> QED BY <2>1
  <1>2. ASSUME NEW c \in Calls, Cancel(c) \/ HostFree(c) PROVE EndInv'
    BY <1>2 DEF Cancel, HostFree
  <1>3. ASSUME NEW w \in Workers, Receive(w) PROVE EndInv'
    BY <1>3 DEF Receive
  <1>4. ASSUME NEW w \in Workers, Disconnected(w) PROVE EndInv'
    BY <1>4 DEF Disconnected
  <1>5. ASSUME NEW w \in Workers,
               LockReceiver(w) \/ Checkpoint(w) \/ HandlerReturns(w) \/ Complete(w)
                 \/ Deliver(w) \/ Uncount(w) \/ Count(w)
        PROVE  EndInv'
    BY <1>5 DEF LockReceiver, Checkpoint, HandlerReturns, Complete, Deliver, Uncount, Count
  <1>6. CASE SetMaxPayload
    BY <1>6 DEF SetMaxPayload
  <1>7. CASE DropPool
    BY <1>7 DEF DropPool
  <1>8. CASE UNCHANGED vars
    BY <1>8, AllUnchanged
  <1> QED BY <1>1, <1>2, <1>3, <1>4, <1>5, <1>6, <1>7, <1>8 DEF Next, Work, Joined

\* When the last worker of a dropped pool has left, the channel is empty and
\* every job submit accepted was completed.
THEOREM DropsDrain == Spec => []DropDrains
  <1>1. Init => DrainInv
    BY IInvInit, CountInit, DrainInit DEF DrainInv, CountInv
  <1>2. DrainInv /\ [Next]_vars => DrainInv'
    BY IInvStep, CountStep, BooksStep, EndStep DEF DrainInv, CountInv
  <1>3. DrainInv => DropDrains
    <2> SUFFICES ASSUME DrainInv, \A w \in Workers : workerPc[w] = "exited"
                 PROVE  queue = << >> /\ inflight = 0 /\ completed = submitted
      BY DEF DropDrains
    <2>1. queue = << >> /\ \A c \in Calls : callerPc[c] \in {"idle", "returned"}
      BY WorkersAssumption DEF DrainInv, EndInv
    <2>2. Publishing = {} /\ Busy = {}
      BY <2>1 DEF Publishing, Busy, Carrying
    <2>3. \A w \in Workers : job[w] = NoCall
      BY DEF DrainInv, CountInv, IInv, WorkerInv, Carrying
    <2>4. Inflight = {}
      BY <2>1, <2>3, CallsAssumption DEF Inflight, Queued, AtWorker
    <2>5. Cardinality({}) = 0 /\ Len(queue) = 0
      BY <2>1, FS_EmptySet
    <2>6. inflight = 0
      BY <2>4, <2>5 DEF DrainInv, CountInv, InflightExact
    <2>7. completed = submitted
      BY <2>2, <2>5 DEF DrainInv, CountInv, IInv, TypeOK, OnTheirWay
    <2> QED BY <2>1, <2>6, <2>7
  <1> QED BY <1>1, <1>2, <1>3, PTL DEF Spec
==============================================================================
