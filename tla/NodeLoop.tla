------------------------------ MODULE NodeLoop ------------------------------
(***************************************************************************)
(* The Node transport over a loop-stdio process (packages/node/src):       *)
(*   node-loop.ts            spawn, handshake, NDJSON, death and respawn   *)
(*   node-binary-session.ts  binary requests, matched first in, first out  *)
(* and the runtime at the other end of the pipes                           *)
(*   examples/calculator/src/bin/loop-stdio.rs, loop_stdio.rs.             *)
(*                                                                         *)
(* A step of the client is one job of the event loop with the reactions    *)
(* it runs to the end.  A process number is one spawn; what is known of a  *)
(* process and of its pipes stays apart from what the transport believes.  *)
(* A request sits in `queued' while node buffers it, in `stdin' when the   *)
(* operating system has it, and its answer in `stdout' until the 'data'    *)
(* event.                                                                  *)
(***************************************************************************)
EXTENDS Integers, Sequences, FiniteSets

CONSTANTS
  Requests,         \* invoke calls
  ChannelRequests,  \* those of __createChannel, __createChannelBytes, __dropChannel
  Hello,            \* the request of the handshake
  NoRequest,
  MaxProcs          \* bound: how often the command is spawned

Procs  == 1..MaxProcs
NoProc == 0

VARIABLES
  codecs,     \* was the transport created with codecs
  child, disposed,
  mode,       \* "ndjson" or "binary"
  handshake,  \* handshakeSettled: "none", "pending", "ready", "failed"
  waiting,    \* invokes behind the pending handshake
  pending,    \* ids of the NDJSON lines without an answer
  binQueue,   \* waiters of binary requests
  fate,       \* of each request: "idle", "waiting", "answered", "failed"
  answer,     \* whose answer a request was given
  status,     \* of each process, see Statuses
  killed,     \* proc.kill() was called
  speaks,     \* what the runtime reads: "lines", "frames", or it is in between
  queued, stdin,  \* lines and frames on their way to the runtime
  stdout          \* what the runtime has written and the client not seen

clientVars == <<child, mode, handshake, waiting, pending, binQueue, fate, answer>>
pipes == <<queued, stdin, stdout>>
vars == <<codecs, disposed, clientVars, status, killed, speaks, pipes>>

Line(r)  == [request |-> r, format |-> "ndjson"]
Frame(r) == [request |-> r, format |-> "binary"]
Out(kind, r) == [kind |-> kind, request |-> r]

(* unborn; failed: spawn reports an 'error'; running; dead: unknown to node;  *)
(* exited: exitCode is set, the pipes are still open; closed.                 *)
Statuses == {"unborn", "failed", "running", "dead", "exited", "closed"}

Unborn == {p \in Procs : status[p] = "unborn"}
NextBorn  == CHOOSE p \in Unborn : \A q \in Unborn : p <= q

Elements(s) == {s[i] : i \in 1..Len(s)}
Rank(I, i) == Cardinality({j \in I : j <= i})
Picked(s, I) == [k \in 1..Cardinality(I) |-> s[CHOOSE i \in I : Rank(I, i) = k]]
Without(s, S) == Picked(s, {i \in 1..Len(s) : s[i] \notin S})
Answers(s) == Picked(s, {i \in 1..Len(s) : s[i].kind = "answer"})
RequestsOf(s) == [i \in 1..Len(s) |-> s[i].request]
LinesOf(s) == [i \in 1..Len(s) |-> Line(s[i])]
FramesOf(s) == [i \in 1..Len(s) |-> Frame(s[i])]

(* The promises the transport owes an answer. *)
InFlight == (pending \ {Hello}) \cup Elements(binQueue) \cup Elements(waiting)

Init ==
  /\ codecs \in BOOLEAN
  /\ disposed = FALSE
  /\ child = IF codecs THEN 1 ELSE NoProc
  /\ mode = "ndjson"
  /\ handshake = IF codecs THEN "pending" ELSE "none"
  /\ waiting = << >> /\ binQueue = << >>
  /\ pending = IF codecs THEN {Hello} ELSE {}
  /\ fate = [r \in Requests |-> "idle"]
  /\ answer = [r \in Requests |-> NoRequest]
  /\ \E first \in {"running", "failed"} :
       status = [p \in Procs |-> IF codecs /\ p = 1 THEN first ELSE "unborn"]
  /\ killed = [p \in Procs |-> FALSE]
  /\ speaks = [p \in Procs |-> "lines"]
  /\ queued = [p \in Procs |-> IF codecs /\ p = 1 THEN <<Line(Hello)>> ELSE << >>]
  /\ stdin = [p \in Procs |-> << >>]
  /\ stdout = [p \in Procs |-> << >>]

Settle(S, how) == fate' = [r \in Requests |-> IF r \in S THEN how ELSE fate[r]]

-----------------------------------------------------------------------------
(* invoke, drainEvents and ready.                                            *)

Usable == child # NoProc /\ status[child] \notin {"exited", "closed"}

(* ensureProcess throws: disposed, or the old process has yet to close; or    *)
(* the kept handshake is rejected, or a channel meets a line protocol.        *)
Refused(r) ==
  \/ disposed
  \/ child # NoProc /\ ~Usable
  \/ r \in ChannelRequests /\ ~codecs
  \/ Usable /\ handshake = "failed"
  \/ Usable /\ handshake = "ready" /\ mode = "ndjson" /\ r \in ChannelRequests

InvokeRefused(r) ==
  /\ fate[r] = "idle" /\ Refused(r)
  /\ Settle({r}, "failed")
  /\ UNCHANGED <<codecs, disposed, child, mode, handshake, waiting, pending, binQueue, answer,
                 status, killed, speaks, pipes>>

(* An 'exit' event that comes between the commit of the handshake and the     *)
(* write is no different: both happen in one job.                             *)
InvokeLine(r) ==
  /\ fate[r] = "idle" /\ ~Refused(r) /\ Usable
  /\ codecs => handshake = "ready" /\ mode = "ndjson"
  /\ pending' = pending \cup {r}
  /\ queued' = [queued EXCEPT ![child] = Append(@, Line(r))]
  /\ Settle({r}, "waiting")
  /\ UNCHANGED <<codecs, disposed, child, mode, handshake, waiting, binQueue, answer,
                 status, killed, speaks, stdin, stdout>>

(* Mutant: waiters are queued last in, first out. *)
MutInvokeFrame(r) ==
  /\ fate[r] = "idle" /\ ~Refused(r) /\ Usable
  /\ codecs /\ handshake = "ready" /\ mode = "binary"
  /\ binQueue' = <<r>> \o binQueue
  /\ queued' = [queued EXCEPT ![child] = Append(@, Frame(r))]
  /\ Settle({r}, "waiting")
  /\ UNCHANGED <<codecs, disposed, child, mode, handshake, waiting, pending, answer,
                 status, killed, speaks, stdin, stdout>>

InvokeFrame(r) ==
  /\ fate[r] = "idle" /\ ~Refused(r) /\ Usable
  /\ codecs /\ handshake = "ready" /\ mode = "binary"
  /\ binQueue' = Append(binQueue, r)
  /\ queued' = [queued EXCEPT ![child] = Append(@, Frame(r))]
  /\ Settle({r}, "waiting")
  /\ UNCHANGED <<codecs, disposed, child, mode, handshake, waiting, pending, answer,
                 status, killed, speaks, stdin, stdout>>

(* Mutant: an invoke does not await the handshake. *)
MutInvokeWaits(r) ==
  /\ fate[r] = "idle" /\ ~Refused(r) /\ Usable /\ handshake = "pending"
  /\ pending' = pending \cup {r}
  /\ queued' = [queued EXCEPT ![child] = Append(@, Line(r))]
  /\ Settle({r}, "waiting")
  /\ UNCHANGED <<codecs, disposed, child, mode, handshake, waiting, binQueue, answer,
                 status, killed, speaks, stdin, stdout>>

InvokeWaits(r) ==
  /\ fate[r] = "idle" /\ ~Refused(r) /\ Usable /\ handshake = "pending"
  /\ waiting' = Append(waiting, r)
  /\ Settle({r}, "waiting")
  /\ UNCHANGED <<codecs, disposed, child, mode, handshake, pending, binQueue, answer,
                 status, killed, speaks, pipes>>

(* ensureProcess and the first line to the new process: the handshake, with   *)
(* the invokes that await it, or the line of an invoke.                       *)
Spawn(first, after) ==
  /\ child = NoProc /\ ~disposed /\ Unborn # {}
  /\ child' = NextBorn
  /\ \E outcome \in {"running", "failed"} : status' = [status EXCEPT ![NextBorn] = outcome]
  /\ mode' = "ndjson"
  /\ handshake' = IF first = Hello THEN "pending" ELSE "none"
  /\ pending' = pending \cup {first}
  /\ waiting' = after
  /\ queued' = [queued EXCEPT ![NextBorn] = <<Line(first)>>]
  /\ UNCHANGED <<codecs, disposed, binQueue, answer, killed, speaks, stdin, stdout>>

InvokeSpawns(r) ==
  /\ fate[r] = "idle" /\ ~Refused(r)
  /\ IF codecs THEN Spawn(Hello, <<r>>) ELSE Spawn(r, << >>)
  /\ Settle({r}, "waiting")

Ready == codecs /\ Spawn(Hello, << >>) /\ UNCHANGED fate

(* spawn without stdio: the process is forgotten and the invoke rejected. *)
InvokeWithoutStdio(r) ==
  /\ fate[r] = "idle" /\ ~Refused(r) /\ child = NoProc
  /\ mode' = "ndjson" /\ handshake' = "none"
  /\ Settle({r}, "failed")
  /\ UNCHANGED <<codecs, disposed, child, waiting, pending, binQueue, answer,
                 status, killed, speaks, pipes>>

-----------------------------------------------------------------------------
(* Losing a process: fail() of the closures of process p.                    *)

(* Mutant: invokes behind the handshake are kept for the next process. *)
MutLose ==
  /\ child' = NoProc /\ mode' = "ndjson" /\ handshake' = "none"
  /\ pending' = {} /\ binQueue' = << >>
  /\ Settle(InFlight \ Elements(waiting), "failed")
  /\ UNCHANGED <<waiting, answer>>

Lose ==
  /\ child' = NoProc /\ mode' = "ndjson" /\ handshake' = "none"
  /\ pending' = {} /\ binQueue' = << >> /\ waiting' = << >>
  /\ Settle(InFlight, "failed")
  /\ UNCHANGED answer

(* Mutant: the events of a former process end the present one. *)
MutFail(p) == IF child # NoProc THEN Lose ELSE UNCHANGED clientVars

Fail(p) == IF child = p THEN Lose ELSE UNCHANGED clientVars

Dispose ==
  /\ ~disposed
  /\ disposed' = TRUE
  /\ child' = NoProc
  /\ handshake' = IF handshake = "pending" THEN "failed" ELSE handshake
  /\ pending' = {} /\ binQueue' = << >> /\ waiting' = << >>
  /\ Settle(InFlight, "failed")
  /\ killed' = IF Usable THEN [killed EXCEPT ![child] = TRUE] ELSE killed
  /\ UNCHANGED <<codecs, mode, answer, status, speaks, pipes>>

SpawnError(p) ==
  /\ status[p] = "failed"
  /\ status' = [status EXCEPT ![p] = "closed"]
  /\ Fail(p)
  /\ UNCHANGED <<codecs, disposed, killed, speaks, pipes>>

(* stdin 'error': node learns from a write that nobody reads. *)
WriteError(p) ==
  /\ status[p] = "dead" /\ queued[p] # << >>
  /\ queued' = [queued EXCEPT ![p] = << >>]
  /\ killed' = [killed EXCEPT ![p] = TRUE]
  /\ Fail(p)
  /\ UNCHANGED <<codecs, disposed, status, speaks, stdin, stdout>>

(* The callbacks of writes that were never flushed: each takes its waiter     *)
(* out of the table or queue; that of the handshake rejects those behind it.  *)
Unwritten(lost) ==
  LET rejected == lost \cup IF Hello \in lost THEN Elements(waiting) ELSE {}
  IN /\ pending' = pending \ lost
     /\ binQueue' = Without(binQueue, lost)
     /\ handshake' = IF Hello \in lost THEN "failed" ELSE handshake
     /\ waiting' = IF Hello \in lost THEN << >> ELSE waiting
     /\ Settle(rejected \cap InFlight, "failed")

(* 'exit': exitCode is set and stdin destroyed; stdout is still read. *)
Exit(p) ==
  /\ status[p] = "dead"
  /\ status' = [status EXCEPT ![p] = "exited"]
  /\ queued' = [queued EXCEPT ![p] = << >>]
  /\ stdin' = [stdin EXCEPT ![p] = << >>]
  /\ IF child = p
     THEN /\ Unwritten({queued[p][i].request : i \in 1..Len(queued[p])})
          /\ UNCHANGED <<child, mode, answer>>
     ELSE UNCHANGED clientVars
  /\ UNCHANGED <<codecs, disposed, killed, speaks, stdout>>

(* Mutant: the end of a process is not reported to the requests sent to it. *)
MutClose(p) ==
  /\ status[p] = "exited" /\ stdout[p] = << >>
  /\ status' = [status EXCEPT ![p] = "closed"]
  /\ UNCHANGED <<codecs, disposed, clientVars, killed, speaks, pipes>>

Close(p) ==
  /\ status[p] = "exited" /\ stdout[p] = << >>
  /\ status' = [status EXCEPT ![p] = "closed"]
  /\ Fail(p)
  /\ UNCHANGED <<codecs, disposed, killed, speaks, pipes>>

-----------------------------------------------------------------------------
(* 'data' on the stdout of process p, one line or frame at a time.           *)

Take(p) ==
  /\ status[p] \notin {"unborn", "closed"} /\ stdout[p] # << >>
  /\ stdout' = [stdout EXCEPT ![p] = Tail(@)]

(* Data of a process the transport has given up. *)
DataIgnored(p) ==
  /\ child # p /\ Take(p)
  /\ UNCHANGED <<codecs, disposed, clientVars, status, killed, speaks, queued, stdin>>

AnswerLine(p) ==
  /\ child = p /\ mode = "ndjson" /\ Take(p)
  /\ Head(stdout[p]).kind = "answer"
  /\ LET r == Head(stdout[p]).request
     IN /\ pending' = pending \ {r}
        /\ Settle({r} \cap pending, "answered")
        /\ answer' = IF r \in pending THEN [answer EXCEPT ![r] = r] ELSE answer
  /\ UNCHANGED <<codecs, disposed, child, mode, handshake, waiting, binQueue,
                 status, killed, speaks, queued, stdin>>

(* Mutant: every frame takes a waiter, as before frames were told apart. *)
MutDataFrame(p) ==
  /\ child = p /\ mode = "binary" /\ Take(p)
  /\ LET frame == Head(stdout[p])
     IN IF binQueue # << >>
        THEN /\ binQueue' = Tail(binQueue)
             /\ Settle({Head(binQueue)}, "answered")
             /\ answer' = [answer EXCEPT ![Head(binQueue)] = frame.request]
        ELSE UNCHANGED <<binQueue, fate, answer>>
  /\ UNCHANGED <<codecs, disposed, child, mode, handshake, waiting, pending,
                 status, killed, speaks, queued, stdin>>

(* A response settles the first waiter; a push frame goes to the listeners. *)
DataFrame(p) ==
  /\ child = p /\ mode = "binary" /\ Take(p)
  /\ LET frame == Head(stdout[p])
     IN IF frame.kind = "answer" /\ binQueue # << >>
        THEN /\ binQueue' = Tail(binQueue)
             /\ Settle({Head(binQueue)}, "answered")
             /\ answer' = [answer EXCEPT ![Head(binQueue)] = frame.request]
        ELSE UNCHANGED <<binQueue, fate, answer>>
  /\ UNCHANGED <<codecs, disposed, child, mode, handshake, waiting, pending,
                 status, killed, speaks, queued, stdin>>

(* A JSON value that is no object: the stream can no longer be trusted. *)
MalformedLine(p) ==
  /\ child = p /\ mode = "ndjson" /\ Take(p)
  /\ Head(stdout[p]).kind = "junk"
  /\ Lose
  /\ killed' = [killed EXCEPT ![p] = TRUE]
  /\ UNCHANGED <<codecs, disposed, status, speaks, queued, stdin>>

(* A push frame that comes before the answer of the handshake is read as the  *)
(* beginning of that line, which then does not parse: both are dropped.       *)
PushBeforeHello(p) ==
  /\ child = p /\ mode = "ndjson"
  /\ stdout[p] # << >> /\ Head(stdout[p]).kind = "push"
  /\ Len(stdout[p]) > 1 \/ status[p] # "running"
  /\ stdout' = [stdout EXCEPT ![p] = IF Len(@) = 1 \/ @[2].kind = "push" THEN Tail(@)
                                                                       ELSE Tail(Tail(@))]
  /\ UNCHANGED <<codecs, disposed, clientVars, status, killed, speaks, queued, stdin>>

(* The answer of the handshake, and the invokes that awaited it: they write,  *)
(* unless the process has exited meanwhile.                                   *)
HelloAnswer(p, kind) ==
  /\ child = p /\ mode = "ndjson" /\ Take(p)
  /\ Head(stdout[p]) = Out(kind, Hello) /\ Hello \in pending
  /\ waiting' = << >>

HelloBinary(p) ==
  /\ HelloAnswer(p, "binary")
  /\ mode' = "binary" /\ handshake' = "ready"
  /\ pending' = pending \ {Hello}
  /\ IF Usable
     THEN /\ binQueue' = binQueue \o waiting
          /\ queued' = [queued EXCEPT ![p] = @ \o FramesOf(waiting)]
          /\ UNCHANGED fate
     ELSE Settle(Elements(waiting), "failed") /\ UNCHANGED <<binQueue, queued>>
  /\ UNCHANGED <<codecs, disposed, child, answer, status, killed, speaks, stdin>>

(* A runtime that knows __hello and has no binary mode. *)
HelloPlain(p) ==
  LET lines == Without(waiting, ChannelRequests)
  IN /\ HelloAnswer(p, "plain")
     /\ handshake' = "ready"
     /\ IF Usable
        THEN /\ pending' = (pending \ {Hello}) \cup Elements(lines)
             /\ queued' = [queued EXCEPT ![p] = @ \o LinesOf(lines)]
             /\ Settle(Elements(waiting) \cap ChannelRequests, "failed")
        ELSE /\ pending' = pending \ {Hello}
             /\ Settle(Elements(waiting), "failed")
             /\ UNCHANGED queued
     /\ UNCHANGED <<codecs, disposed, child, mode, binQueue, answer, status, killed, speaks, stdin>>

(* ok: false. The rejected handshake is kept for the life of the process. *)
HelloRefused(p) ==
  /\ HelloAnswer(p, "refused")
  /\ handshake' = "failed"
  /\ pending' = pending \ {Hello}
  /\ Settle(Elements(waiting), "failed")
  /\ UNCHANGED <<codecs, disposed, child, mode, binQueue, answer, status, killed, speaks,
                 queued, stdin>>

-----------------------------------------------------------------------------
(* The runtime and the operating system.                                     *)

Flush(p) ==
  /\ status[p] = "running" /\ queued[p] # << >>
  /\ stdin' = [stdin EXCEPT ![p] = Append(@, Head(queued[p]))]
  /\ queued' = [queued EXCEPT ![p] = Tail(@)]
  /\ UNCHANGED <<codecs, disposed, clientVars, status, killed, speaks, stdout>>

Reads(p, format) ==
  /\ status[p] = "running" /\ stdin[p] # << >>
  /\ Head(stdin[p]).format = format
  /\ stdin' = [stdin EXCEPT ![p] = Tail(@)]

Writes(p, kind, r) == stdout' = [stdout EXCEPT ![p] = Append(@, Out(kind, r))]

(* One request at a time, in order: handle_line, or a pass of run_binary. *)
Answer(p) ==
  /\ \/ speaks[p] = "lines" /\ Reads(p, "ndjson")
     \/ speaks[p] = "frames" /\ Reads(p, "binary")
  /\ LET r == Head(stdin[p]).request
     IN /\ r # Hello
        /\ Writes(p, "answer", r)
  /\ UNCHANGED <<codecs, disposed, clientVars, status, killed, speaks, queued>>

(* __hello installs the push sink first and answers then. *)
BeginHello(p) ==
  /\ status[p] = "running" /\ speaks[p] = "lines"
  /\ stdin[p] # << >> /\ Head(stdin[p]) = Line(Hello)
  /\ speaks' = [speaks EXCEPT ![p] = "switching"]
  /\ UNCHANGED <<codecs, disposed, clientVars, status, killed, pipes>>

AnswerHello(p) ==
  /\ speaks[p] = "switching" /\ Reads(p, "ndjson")
  /\ Writes(p, "binary", Hello)
  /\ speaks' = [speaks EXCEPT ![p] = "frames"]
  /\ UNCHANGED <<codecs, disposed, clientVars, status, killed, queued>>

(* Older runtimes: no binary mode, or no __hello at all. *)
AnswerHelloOld(p) ==
  /\ speaks[p] = "lines" /\ Reads(p, "ndjson")
  /\ Head(stdin[p]).request = Hello
  /\ \E kind \in {"plain", "refused"} : Writes(p, kind, Hello)
  /\ UNCHANGED <<codecs, disposed, clientVars, status, killed, speaks, queued>>

(* An emit on any thread of the runtime (a push or channel frame), or text    *)
(* of the program on stdout. Bound: one of either at a time in the pipe.      *)
Noise(p) ==
  /\ status[p] = "running"
  /\ \A i \in 1..Len(stdout[p]) : stdout[p][i].kind \notin {"push", "junk"}
  /\ Writes(p, IF speaks[p] = "lines" THEN "junk" ELSE "push", NoRequest)
  /\ UNCHANGED <<codecs, disposed, clientVars, status, killed, speaks, queued, stdin>>

(* A crash, or the end that follows a kill. *)
Die(p) ==
  /\ status[p] = "running"
  /\ status' = [status EXCEPT ![p] = "dead"]
  /\ UNCHANGED <<codecs, disposed, clientVars, killed, speaks, pipes>>

-----------------------------------------------------------------------------
Invoke(r) ==
  \/ InvokeRefused(r) \/ InvokeLine(r) \/ InvokeFrame(r) \/ InvokeWaits(r)
  \/ InvokeSpawns(r) \/ InvokeWithoutStdio(r)

Data(p) ==
  \/ DataIgnored(p) \/ AnswerLine(p) \/ DataFrame(p) \/ MalformedLine(p) \/ PushBeforeHello(p)
  \/ HelloBinary(p) \/ HelloPlain(p) \/ HelloRefused(p)

Events(p) == SpawnError(p) \/ WriteError(p) \/ Exit(p) \/ Close(p)

Runtime(p) == Answer(p) \/ BeginHello(p) \/ AnswerHello(p) \/ AnswerHelloOld(p)

Next ==
  \/ \E r \in Requests : Invoke(r)
  \/ Ready \/ Dispose
  \/ \E p \in Procs : Data(p) \/ Events(p) \/ Runtime(p) \/ Flush(p) \/ Noise(p) \/ Die(p)

Spec == Init /\ [][Next]_vars

-----------------------------------------------------------------------------
Messages == [request : Requests \cup {Hello}, format : {"ndjson", "binary"}]
Outputs  == [kind : {"answer", "binary", "plain", "refused", "push", "junk"},
             request : Requests \cup {Hello, NoRequest}]

(* Type invariant. *)
TypeOK ==
  /\ codecs \in BOOLEAN /\ disposed \in BOOLEAN
  /\ child \in Procs \cup {NoProc}
  /\ mode \in {"ndjson", "binary"}
  /\ handshake \in {"none", "pending", "ready", "failed"}
  /\ waiting \in Seq(Requests) /\ binQueue \in Seq(Requests)
  /\ pending \subseteq Requests \cup {Hello}
  /\ fate \in [Requests -> {"idle", "waiting", "answered", "failed"}]
  /\ answer \in [Requests -> Requests \cup {Hello, NoRequest}]
  /\ status \in [Procs -> Statuses]
  /\ killed \in [Procs -> BOOLEAN]
  /\ speaks \in [Procs -> {"lines", "switching", "frames"}]
  /\ queued \in [Procs -> Seq(Messages)] /\ stdin \in [Procs -> Seq(Messages)]
  /\ stdout \in [Procs -> Seq(Outputs)]

(* No request is forgotten: a caller waits exactly when the transport still   *)
(* holds its promise, in one place only, and only while it has a process      *)
(* whose end would settle it; whoever awaits a handshake has one under way.   *)
(* It is also what drain() relies on when it counts the two tables            *)
(* (node-loop.ts ensureProcess, fail, dispose).                               *)
NoneForgotten ==
  /\ \A r \in Requests : fate[r] = "waiting" <=> r \in InFlight
  /\ pending \cap Elements(binQueue) = {}
  /\ Elements(waiting) \cap (pending \cup Elements(binQueue)) = {}
  /\ child = NoProc => pending = {} /\ binQueue = << >> /\ waiting = << >>
  /\ waiting # << >> => Hello \in pending

(* Binary responses carry no id: the waiters are, in order, those whose       *)
(* answers lie in stdout, whose frames the runtime has yet to read, and whose *)
(* frames are not written, unless the process has died and lost the middle    *)
(* (node-binary-session.ts dispatchFrame, binaryWrite).                       *)
Aligned ==
  child # NoProc /\ mode = "binary" =>
    LET answers == RequestsOf(Answers(stdout[child]))
        coming == answers \o RequestsOf(stdin[child]) \o RequestsOf(queued[child])
    IN IF status[child] = "exited"
       THEN Len(answers) <= Len(binQueue) /\ SubSeq(binQueue, 1, Len(answers)) = answers
       ELSE binQueue = coming

(* A running runtime never reads a line while it expects frames, or a frame   *)
(* while it expects lines (node-loop.ts prepare, invoke).                     *)
NeverGarbled ==
  \A p \in Procs : status[p] = "running" /\ stdin[p] # << >> =>
    Head(stdin[p]).format = IF speaks[p] = "frames" THEN "binary" ELSE "ndjson"

(* Both ends agree on what lies between them, through the handshake that       *)
(* changes the format and the deaths that lose frames; and every variable      *)
(* keeps its type.                                                            *)
StreamsAgree == TypeOK /\ Aligned /\ NeverGarbled

(* A process the transport has given up, and might share a device or a port   *)
(* with its successor, has been told to end (node-loop.ts kill sites).        *)
OrphansAreKilled ==
  \A p \in Procs : status[p] = "running" /\ child # p => killed[p]

(* Through every death, whichever of its events comes first: no invoke is     *)
(* left without somebody to settle it, no process without an end.             *)
NothingForgotten == NoneForgotten /\ OrphansAreKilled

(* Both: the ends agree, and everybody is remembered. *)
TransportSound == NothingForgotten /\ StreamsAgree

(* The transport keeps the promise of RequestReply, whatever dies. *)
Reply == INSTANCE RequestReply WITH
  NoReply <- NoRequest,
  state <- [r \in Requests |-> IF fate[r] \in {"answered", "failed"} THEN "settled" ELSE fate[r]],
  reply <- answer

ImplementsRequestReply == Reply!Spec

(* The one way to wait for ever: a push frame has destroyed the answer of     *)
(* the handshake.                                                             *)
HelloDestroyed ==
  /\ child # NoProc /\ Hello \in pending /\ speaks[child] # "lines"
  /\ \A i \in 1..Len(stdin[child]) : stdin[child][i].request # Hello
  /\ \A i \in 1..Len(stdout[child]) : stdout[child][i].kind # "binary"

(* Every invoke settles, through crashes, respawns and disposal, as long as   *)
(* runtimes answer, but for a destroyed handshake.                            *)
RequestsSettle ==
  \A r \in Requests : []<>(fate[r] # "waiting" \/ HelloDestroyed)
==============================================================================
