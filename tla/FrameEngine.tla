------------------------------ MODULE FrameEngine ------------------------------
(***************************************************************************)
(* The frame engine of a TypeScript client                                 *)
(* (packages/types/src/frame-engine-dispatch.ts, -schema.ts,               *)
(* -dynamic-codec.ts, -async.ts).  A command of the generated client is    *)
(* encoded into a buffer that is kept and lent from call to call; any      *)
(* other is looked up in a cache of the live schema, which a counter of    *)
(* the native side, its generation, declares stale, and encoded by a codec *)
(* compiled from its entry, which is cached too.                           *)
(*                                                                         *)
(* A call is one job of the event loop, but getters of its arguments and   *)
(* callbacks of the native side may make calls from within it, and other   *)
(* threads register and replace commands between any two of the times it   *)
(* enters the native side.  The registry is here what CommandRegistry      *)
(* shows of it: a change and its generation are one step, and no id is     *)
(* given to a second command.                                              *)
(***************************************************************************)
EXTENDS Integers

CONSTANTS
  MaxDepth,       \* bound: calls within calls
  Statics,        \* commands with a generated codec that encodes into a buffer
  Dynamics,       \* names that only the registry knows
  Wires,          \* contracts, each with its codec
  None,
  MaxGeneration   \* bound: changes of the registry

Paths == {"dispatch", "propagate"}   \* without a signal and with one: each has a codec cache

Depths == 1..MaxDepth                 \* a call is the depth at which it runs

VARIABLES
  exposes,        \* the native module has getSchemaGeneration
  commands, generation,          \* the registry: [id, wire] or None of each name
  cached, cachedGeneration,      \* liveSchemaCache
  codecs,         \* of each path: the codec by name, of the entries of `cached'
  current,        \* builtAtEpoch = resyncEpoch, of each path
  buffer, busy,   \* encodeIntoBuffers: whose frame is in it; lent
  depth,          \* of the innermost call
  pc, target, path,
  lent,           \* the calls that use the buffer of their command
  entry, codec,   \* what a call found
  seen, failed    \* history: its command since it began; getSchema threw

registryVars == <<exposes, commands, generation>>
schemaVars == <<cached, cachedGeneration, codecs, current>>
bufferVars == <<buffer, busy, lent>>
callVars == <<depth, pc, target, path, entry, codec, failed>>
vars == <<registryVars, schemaVars, bufferVars, callVars, seen>>

Init ==
  /\ exposes \in BOOLEAN
  /\ commands = [n \in Dynamics |-> None] /\ generation = 0
  /\ cached = None /\ cachedGeneration = None
  /\ codecs = [p \in Paths |-> [n \in Dynamics |-> None]]
  /\ current = [p \in Paths |-> TRUE]
  /\ buffer = [s \in Statics |-> None] /\ busy = {} /\ lent = {}
  /\ depth = 0
  /\ pc = [c \in Depths |-> "idle"] /\ target = [c \in Depths |-> None]
  /\ path = [c \in Depths |-> "dispatch"]
  /\ entry = [c \in Depths |-> None] /\ codec = [c \in Depths |-> None]
  /\ seen = [c \in Depths |-> {}] /\ failed = {}

Running(c) == c = depth

-----------------------------------------------------------------------------
(* Other threads: register or replace, and unregister.  A generation is the   *)
(* id of what it registers.                                                   *)
Change(n, row) ==
  /\ generation < MaxGeneration
  /\ commands' = [commands EXCEPT ![n] = row]
  /\ generation' = generation + 1
  /\ seen' = [c \in Depths |-> IF target[c] = n THEN seen[c] \cup {row} ELSE seen[c]]
  /\ UNCHANGED <<exposes, schemaVars, bufferVars, callVars>>

Register(n, w) ==
  Change(n, [id |-> IF commands[n] = None THEN generation + 1 ELSE commands[n].id, wire |-> w])

Unregister(n) == commands[n] # None /\ Change(n, None)

-----------------------------------------------------------------------------
(* A call begins: from the event loop, or from within one that encodes or is  *)
(* in the native side.                                                        *)
MayBegin(c) ==
  c = depth + 1 /\ (depth > 0 => pc[depth] \in {"encoding", "native"})

Begin(c, name, where) ==
  /\ depth' = c
  /\ target' = [target EXCEPT ![c] = name]
  /\ pc' = [pc EXCEPT ![c] = where]

(* dispatch of a generated command: the buffer is lent before the encoder     *)
(* runs; an inner call that finds it lent has one of its own.                 *)
MutInvokeStatic(c, s) ==   \* the buffer is marked only while it is encoded into
  /\ MayBegin(c)
  /\ Begin(c, s, "encoding")
  /\ lent' = IF s \in busy THEN lent ELSE lent \cup {c}
  /\ buffer' = IF s \in busy THEN buffer ELSE [buffer EXCEPT ![s] = c]
  /\ busy' = busy
  /\ UNCHANGED <<registryVars, schemaVars, path, entry, codec, failed, seen>>
InvokeStatic(c, s) ==
  /\ MayBegin(c)
  /\ Begin(c, s, "encoding")
  /\ lent' = IF s \in busy THEN lent ELSE lent \cup {c}
  /\ buffer' = IF s \in busy THEN buffer ELSE [buffer EXCEPT ![s] = c]
  /\ busy' = busy \cup {s}
  /\ UNCHANGED <<registryVars, schemaVars, path, entry, codec, failed, seen>>

InvokeDynamic(c, n, p) ==
  /\ MayBegin(c)
  /\ Begin(c, n, "polling")
  /\ path' = [path EXCEPT ![c] = p]
  /\ seen' = [seen EXCEPT ![c] = {commands[n]}]
  /\ UNCHANGED <<registryVars, schemaVars, bufferVars, entry, codec, failed>>

(* resyncIfStale: the counter is asked, the schema read when it has moved.    *)
(* Where the counter is missing or fails, the cache stays.                    *)
MutPoll(c) ==   \* only a cache that is empty is filled
  /\ Running(c) /\ pc[c] = "polling"
  /\ pc' = [pc EXCEPT ![c] =
              IF exposes /\ cached = None THEN "resyncing" ELSE "looking"]
  /\ UNCHANGED <<registryVars, schemaVars, bufferVars, depth, target, path, entry, codec,
                 failed, seen>>
Poll(c) ==
  /\ Running(c) /\ pc[c] = "polling"
  /\ pc' = [pc EXCEPT ![c] =
              IF exposes /\ cachedGeneration # generation THEN "resyncing" ELSE "looking"]
  /\ UNCHANGED <<registryVars, schemaVars, bufferVars, depth, target, path, entry, codec,
                 failed, seen>>

PollFails(c) ==
  /\ Running(c) /\ pc[c] = "polling" /\ exposes
  /\ pc' = [pc EXCEPT ![c] = "looking"] /\ failed' = failed \cup {c}
  /\ UNCHANGED <<registryVars, schemaVars, bufferVars, depth, target, path, entry, codec, seen>>

(* readLiveSchemaDocument: the document carries its generation; the codecs of *)
(* older entries are of other objects.                                        *)
ReadSchema ==
  /\ cached' = commands /\ cachedGeneration' = generation
  /\ current' = [p \in Paths |-> FALSE]

(* refreshLiveSchema of the engine, called by whoever likes; the check of     *)
(* schemaVersion at its construction reads the schema as well.                *)
Refresh ==
  /\ MayBegin(depth + 1) /\ ReadSchema
  /\ UNCHANGED <<registryVars, codecs, bufferVars, callVars, seen>>

Resync(c) ==
  /\ Running(c) /\ pc[c] = "resyncing"
  /\ pc' = [pc EXCEPT ![c] = "looking"]
  /\ \/ ReadSchema /\ UNCHANGED failed
     \/ failed' = failed \cup {c} /\ UNCHANGED <<cached, cachedGeneration, current>>
  /\ UNCHANGED <<registryVars, codecs, bufferVars, depth, target, path, entry, codec, seen>>

(* lookupBinaryCodec, of the entry that was found in `cached'. *)
MutCompile(c, row) ==   \* codecs are kept by name, and for good
  LET p == path[c]
      known == codecs[p]
      found == IF known[target[c]] # None THEN known[target[c]] ELSE row.wire
  IN  /\ codecs' = [codecs EXCEPT ![p] = [known EXCEPT ![target[c]] = found]]
      /\ current' = [current EXCEPT ![p] = TRUE]
      /\ entry' = [entry EXCEPT ![c] = row] /\ codec' = [codec EXCEPT ![c] = found]
Compile(c, row) ==
  LET p == path[c]
      known == IF current[p] THEN codecs[p] ELSE [n \in Dynamics |-> None]
      found == IF known[target[c]] # None THEN known[target[c]] ELSE row.wire
  IN  /\ codecs' = [codecs EXCEPT ![p] = [known EXCEPT ![target[c]] = found]]
      /\ current' = [current EXCEPT ![p] = TRUE]
      /\ entry' = [entry EXCEPT ![c] = row] /\ codec' = [codec EXCEPT ![c] = found]

Hit(c) == cached # None /\ cached[target[c]] # None

Lookup(c) ==
  /\ Running(c) /\ pc[c] = "looking" /\ Hit(c)
  /\ Compile(c, cached[target[c]])
  /\ pc' = [pc EXCEPT ![c] = "encoding"]
  /\ UNCHANGED <<registryVars, cached, cachedGeneration, bufferVars, depth, target, path,
                 failed, seen>>

(* No entry: a propagated call is tried again as a plain one, which polls.    *)
GivesUp(c) ==
  /\ pc' = [pc EXCEPT ![c] = IF path[c] = "propagate" THEN "polling" ELSE "unknown"]
  /\ path' = [path EXCEPT ![c] = "dispatch"]

(* A name the cache does not have is looked for once more.  A call with a     *)
(* signal that finds none goes on as one without.                             *)
MutLookupAgain(c) ==   \* the cache is believed
  /\ Running(c) /\ pc[c] = "looking" /\ ~Hit(c)
  /\ pc' = [pc EXCEPT ![c] = "unknown"]
  /\ UNCHANGED <<registryVars, schemaVars, bufferVars, depth, target, path, entry, codec,
                 failed, seen>>
LookupAgain(c) ==
  /\ Running(c) /\ pc[c] = "looking" /\ ~Hit(c)
  /\ \/ /\ ReadSchema /\ UNCHANGED failed
        /\ IF commands[target[c]] # None
             THEN pc' = [pc EXCEPT ![c] = "found"] /\ UNCHANGED path
             ELSE GivesUp(c)
     \/ /\ failed' = failed \cup {c} /\ UNCHANGED <<cached, cachedGeneration, current>>
        /\ GivesUp(c)
  /\ UNCHANGED <<registryVars, codecs, bufferVars, depth, target, entry, codec, seen>>

Found(c) ==
  /\ Running(c) /\ pc[c] = "found"
  /\ Compile(c, cached[target[c]])
  /\ pc' = [pc EXCEPT ![c] = "encoding"]
  /\ UNCHANGED <<registryVars, cached, cachedGeneration, bufferVars, depth, target, path,
                 failed, seen>>

(* invokeFrame, or invokeAsync, whose answer is decoded by the codec of the   *)
(* closure.                                                                   *)
Send(c) ==
  /\ Running(c) /\ pc[c] = "encoding"
  /\ pc' = [pc EXCEPT ![c] = "native"]
  /\ UNCHANGED <<registryVars, schemaVars, bufferVars, depth, target, path, entry, codec,
                 failed, seen>>

(* The call returns or throws: no such command, a value that cannot be        *)
(* encoded, a frame over the limit, an answer that cannot be decoded.         *)
MutEnd(c) ==   \* what throws keeps the buffer
  /\ Running(c) /\ pc[c] \in {"encoding", "native", "unknown"}
  /\ depth' = c - 1
  /\ busy' = IF c \in lent /\ pc[c] = "native" THEN busy \ {target[c]} ELSE busy
  /\ lent' = lent \ {c}
  /\ pc' = [pc EXCEPT ![c] = "idle"] /\ target' = [target EXCEPT ![c] = None]
  /\ path' = [path EXCEPT ![c] = "dispatch"]
  /\ entry' = [entry EXCEPT ![c] = None] /\ codec' = [codec EXCEPT ![c] = None]
  /\ seen' = [seen EXCEPT ![c] = {}] /\ failed' = failed \ {c}
  /\ UNCHANGED <<registryVars, schemaVars, buffer>>
End(c) ==
  /\ Running(c) /\ pc[c] \in {"encoding", "native", "unknown"}
  /\ depth' = c - 1
  /\ busy' = IF c \in lent THEN busy \ {target[c]} ELSE busy
  /\ lent' = lent \ {c}
  /\ pc' = [pc EXCEPT ![c] = "idle"] /\ target' = [target EXCEPT ![c] = None]
  /\ path' = [path EXCEPT ![c] = "dispatch"]
  /\ entry' = [entry EXCEPT ![c] = None] /\ codec' = [codec EXCEPT ![c] = None]
  /\ seen' = [seen EXCEPT ![c] = {}] /\ failed' = failed \ {c}
  /\ UNCHANGED <<registryVars, schemaVars, buffer>>

-----------------------------------------------------------------------------
Next ==
  \/ Refresh
  \/ \E n \in Dynamics : Unregister(n) \/ \E w \in Wires : Register(n, w)
  \/ \E c \in Depths :
       \/ \E s \in Statics : InvokeStatic(c, s)
       \/ \E n \in Dynamics, p \in Paths : InvokeDynamic(c, n, p)
       \/ Poll(c) \/ PollFails(c) \/ Resync(c)
       \/ Lookup(c) \/ LookupAgain(c) \/ Found(c) \/ Send(c) \/ End(c)

-----------------------------------------------------------------------------
TypeOK ==
  LET Rows == [id : 1..MaxGeneration, wire : Wires] \cup {None}
  IN  /\ exposes \in BOOLEAN
      /\ commands \in [Dynamics -> Rows] /\ generation \in 0..MaxGeneration
      /\ cached \in {None} \cup [Dynamics -> Rows]
      /\ cachedGeneration \in {None} \cup 0..MaxGeneration
      /\ codecs \in [Paths -> [Dynamics -> Wires \cup {None}]]
      /\ current \in [Paths -> BOOLEAN]
      /\ buffer \in [Statics -> Depths \cup {None}] /\ busy \subseteq Statics
      /\ depth \in 0..MaxDepth
      /\ pc \in [Depths -> {"idle", "polling", "resyncing", "looking", "found", "unknown",
                           "encoding", "native"}]
      /\ entry \in [Depths -> Rows] /\ lent \cup failed \subseteq Depths

(* A frame is in its buffer from when it is encoded to when the call returns, *)
(* whatever calls are made from within; and a buffer is lent only to a call   *)
(* that runs (frame-engine-dispatch.ts:26-28).                                *)
FramesIntact ==
  /\ \A c \in lent : buffer[target[c]] = c
  /\ busy \subseteq {target[c] : c \in lent}

(* What goes to the native side is the id and the codec the command had at    *)
(* some moment since the call began: never those of before, though the entry, *)
(* the generation and the codec are each taken from a cache                   *)
(* (frame-engine-schema.ts:40-45, frame-engine-dynamic-codec.ts:20-26).       *)
SentAsLive ==
  \A c \in Depths :
    pc[c] \in {"encoding", "native"} /\ target[c] \in Dynamics /\ exposes /\ c \notin failed =>
      [id |-> entry[c].id, wire |-> codec[c]] \in seen[c]

(* A command is reported missing only if it was, also by a host that does not *)
(* have the counter.                                                          *)
MissingIsMissing ==
  \A c \in Depths : pc[c] = "unknown" /\ c \notin failed => None \in seen[c]

FramesSound == TypeOK /\ FramesIntact /\ SentAsLive /\ MissingIsMissing
===============================================================================
