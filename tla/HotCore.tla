-------------------------------- MODULE HotCore --------------------------------
(***************************************************************************)
(* The watcher of a hot core (crates/rustra/src/hot_core_watch.rs,         *)
(* hot_core_dylib.rs): a thread of the host polls the artifact of the core *)
(* by its stat fingerprint, hashes it when the fingerprint has moved,      *)
(* copies it to a new path, opens the copy and swaps it into the handle    *)
(* calls go through.  The file is read anew in each of these steps, and    *)
(* whoever builds may publish at any time, a half-written file included.   *)
(*                                                                         *)
(* A fingerprint is only compared with that of the file of the moment, and *)
(* every publication makes a new one: what matters of it is whether it is  *)
(* still that of the file.                                                 *)
(***************************************************************************)
EXTENDS Integers

CONSTANTS
  Bytes,        \* what the artifact may contain
  Loadable,     \* those that open: cores with every symbol
  Callers,      \* threads that invoke commands
  MaxFailures,  \* MAX_SWAP_FAILURES_PER_BYTES
  None

ASSUME BytesAssumption == None \notin Bytes /\ Loadable \subseteq Bytes /\ Loadable # {}
ASSUME MaxFailuresAssumption == MaxFailures \in Nat \ {0}

VARIABLES
  artifact,             \* the bytes at the path, or None
  core, inside,         \* HotCoreHandle: its core, the callers with the read lock
  watch,                \* where the watcher is
  lastStat, lastHash,   \* its baseline; lastStat: it is the fingerprint of the file
  fingerprint, hash,    \* of this tick
  copy,                 \* the bytes at the path of the copy
  streak, streakHash, poisoned,   \* FailureTracker
  tries,                \* history: failed swaps of the file as it is
  changed,              \* history: published between two reads that should agree
  torn                  \* history: so it was when the baseline was set

fileVars == <<artifact, changed, tries>>
handleVars == <<core, inside>>
baselineVars == <<lastStat, lastHash, torn>>
tickVars == <<watch, fingerprint, hash, copy>>
failureVars == <<streak, streakHash, poisoned>>
vars == <<fileVars, handleVars, baselineVars, tickVars, failureVars>>

(* The host has opened the artifact and starts the watcher. *)
Init ==
  /\ core \in Loadable /\ artifact = core /\ inside = {}
  /\ watch = "starting"
  /\ lastStat = FALSE /\ lastHash = None
  /\ fingerprint = FALSE /\ hash = None /\ copy = None
  /\ streak = 0 /\ streakHash = None /\ poisoned = None
  /\ tries = 0 /\ changed = FALSE /\ torn = FALSE

-----------------------------------------------------------------------------
(* Whoever builds renames or writes a file into place, or removes it. *)
Publish(b) ==
  /\ artifact' = b
  /\ lastStat' = FALSE /\ fingerprint' = FALSE
  /\ tries' = 0
  /\ changed' = (changed \/ watch \in {"starting", "baseline", "preparing"})
  /\ UNCHANGED <<handleVars, lastHash, torn, watch, hash, copy, failureVars>>

(* A call holds the read lock of the handle; a waiting swap goes first. *)
Call(c) ==
  /\ c \notin inside /\ watch # "swapping"
  /\ inside' = inside \cup {c}
  /\ UNCHANGED <<fileVars, core, baselineVars, tickVars, failureVars>>

Return(c) ==
  /\ c \in inside
  /\ inside' = inside \ {c}
  /\ UNCHANGED <<fileVars, core, baselineVars, tickVars, failureVars>>

-----------------------------------------------------------------------------
(* run_watch_loop: the baseline is read in two steps. *)
BaselineStat ==
  /\ watch = "starting"
  /\ lastStat' = (artifact # None)
  /\ watch' = "baseline"
  /\ UNCHANGED <<fileVars, handleVars, lastHash, torn, fingerprint, hash, copy, failureVars>>

BaselineHash ==
  /\ watch = "baseline"
  /\ lastHash' = artifact
  /\ torn' = changed
  /\ watch' = "sleeping"
  /\ UNCHANGED <<fileVars, handleVars, lastStat, fingerprint, hash, copy, failureVars>>

(* A tick that finds another fingerprint. *)
Look ==
  /\ watch = "sleeping" /\ artifact # None /\ ~lastStat
  /\ fingerprint' = TRUE
  /\ watch' = "hashing"
  /\ UNCHANGED <<fileVars, handleVars, baselineVars, hash, copy, failureVars>>

(* The end of a tick. *)
Sleep == watch' = "sleeping" /\ fingerprint' = FALSE /\ hash' = None /\ copy' = None

(* The bytes decide: gone, those of the baseline, poisoned, or new. *)
MutSettled == {None, lastHash} \cup IF poisoned = None THEN {} ELSE Bytes   \* whatever they are
Settled == {None, lastHash, poisoned}

MutHash ==   \* the baseline moves before the swap
  /\ watch = "hashing"
  /\ IF artifact \in Settled
     THEN /\ lastStat' = IF artifact = lastHash /\ artifact # None THEN fingerprint ELSE lastStat
          /\ Sleep
          /\ UNCHANGED <<changed, lastHash>>
     ELSE /\ hash' = artifact /\ lastHash' = artifact /\ changed' = FALSE
          /\ watch' = "preparing"
          /\ UNCHANGED <<lastStat, fingerprint, copy>>
  /\ UNCHANGED <<artifact, tries, handleVars, torn, failureVars>>
Hash ==
  /\ watch = "hashing"
  /\ IF artifact \in Settled
     THEN /\ lastStat' = IF artifact = lastHash /\ artifact # None THEN fingerprint ELSE lastStat
          /\ Sleep
          /\ UNCHANGED changed
     ELSE /\ hash' = artifact /\ changed' = FALSE
          /\ watch' = "preparing"
          /\ UNCHANGED <<lastStat, fingerprint, copy>>
  /\ UNCHANGED <<artifact, tries, handleVars, lastHash, torn, failureVars>>

(* note_failure: failures in a row of the same bytes are counted. *)
MutNoteFailure ==   \* the window is one attempt longer
  LET n == IF streakHash = hash THEN streak + 1 ELSE 1
  IN  /\ streakHash' = hash
      /\ streak' = IF n > MaxFailures THEN 0 ELSE n
      /\ poisoned' = IF n > MaxFailures THEN hash ELSE poisoned
NoteFailure ==
  LET n == IF streakHash = hash THEN streak + 1 ELSE 1
  IN  /\ streakHash' = hash
      /\ streak' = IF n >= MaxFailures THEN 0 ELSE n
      /\ poisoned' = IF n >= MaxFailures THEN hash ELSE poisoned

(* An attempt that failed leaves the baseline where it was. *)
Fail ==
  /\ NoteFailure
  /\ tries' = IF fingerprint THEN tries + 1 ELSE tries
  /\ Sleep
  /\ UNCHANGED <<artifact, changed, handleVars, baselineVars>>

(* prepare_swap_copy: the file is read again, or is gone by now. *)
PrepareSwapCopy ==
  /\ watch = "preparing" /\ artifact # None
  /\ copy' = artifact
  /\ watch' = "opening"
  /\ UNCHANGED <<fileVars, handleVars, baselineVars, fingerprint, hash, failureVars>>

(* A copy or its signature may fail whatever the bytes are. *)
PrepareFails == watch = "preparing" /\ Fail

Open ==
  /\ watch = "opening" /\ copy \in Loadable
  /\ watch' = "swapping"
  /\ UNCHANGED <<fileVars, handleVars, baselineVars, fingerprint, hash, copy, failureVars>>

OpenFails == watch = "opening" /\ copy \notin Loadable /\ Fail

(* The swap takes the write lock; the baseline is what this tick has read.   *)
MutSwap ==   \* the fingerprint is taken after the swap
  /\ watch = "swapping" /\ inside = {}
  /\ core' = copy
  /\ lastHash' = hash /\ lastStat' = (artifact # None) /\ torn' = changed
  /\ streak' = 0 /\ streakHash' = None /\ poisoned' = None
  /\ Sleep
  /\ UNCHANGED <<fileVars, inside>>
Swap ==
  /\ watch = "swapping" /\ inside = {}
  /\ core' = copy
  /\ lastHash' = hash /\ lastStat' = fingerprint /\ torn' = changed
  /\ streak' = 0 /\ streakHash' = None /\ poisoned' = None
  /\ Sleep
  /\ UNCHANGED <<fileVars, inside>>

-----------------------------------------------------------------------------
Watch ==
  \/ BaselineStat \/ BaselineHash \/ Look \/ Hash
  \/ PrepareSwapCopy \/ PrepareFails \/ Open \/ OpenFails \/ Swap

Next ==
  \/ \E b \in Bytes \cup {None} : Publish(b)
  \/ \E c \in Callers : Call(c) \/ Return(c)
  \/ Watch

Spec == Init /\ [][Next]_vars

-----------------------------------------------------------------------------
TypeOK ==
  /\ artifact \in Bytes \cup {None} /\ core \in Loadable /\ inside \subseteq Callers
  /\ watch \in {"starting", "baseline", "sleeping", "hashing", "preparing", "opening", "swapping"}
  /\ {lastStat, fingerprint, changed, torn} \subseteq BOOLEAN
  /\ {lastHash, hash, copy, streakHash, poisoned} \subseteq Bytes \cup {None}
  /\ {streak, tries} \subseteq Nat

(* The filter misses no change: a tick that passes over the file because of   *)
(* its fingerprint passes over bytes that are the baseline                    *)
(* (hot_core_watch.rs:115-117).                                               *)
FilterSound == watch = "sleeping" /\ lastStat => artifact = lastHash

(* And the baseline is what the handle serves, unless a publication fell      *)
(* between the host's opening of the file and the first hash, or between the  *)
(* hash and the copy of the swap that set it (hot_core_watch.rs:154-163).     *)
BaselineServed == lastHash # None /\ ~torn => core = lastHash

(* A file that does not open is tried MaxFailures times and no more until it  *)
(* is published anew, whatever was published and failed before                *)
(* (hot_core_watch.rs:60-65).                                                 *)
GivesUp == tries <= MaxFailures

(* The watcher never takes an old core for the present one, nor tries a broken *)
(* one for ever (and types).                                                   *)
BaselineSound == TypeOK /\ FilterSound /\ BaselineServed /\ GivesUp

(* What is published last is served in the end, through failures of builds    *)
(* before it and calls under way: unless it was given up, or the baseline was *)
(* torn and takes these very bytes for those it has loaded.                   *)
ServesLatest ==
  \A b \in Loadable :
    <>[](artifact = b) => <>[](core = b \/ poisoned = b \/ (torn /\ lastHash = b))
================================================================================
