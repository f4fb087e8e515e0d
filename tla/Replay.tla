------------------------------- MODULE Replay -------------------------------
(***************************************************************************)
(* Replay protection: a key is claimed before its plan is executed, and    *)
(* stays claimed whatever becomes of the execution.  The store is the set  *)
(* of a MemoryReplayStore or of a ReplayGuard, which lives as long as its  *)
(* process, or the directory of a FileReplayStore, shared by processes and *)
(* meant to outlive them.  A key's file name is its SHA-256 digest; two    *)
(* keys are taken to have two names.                                       *)
(*                                                                         *)
(* The file system is the environment: it creates names atomically, fails  *)
(* when it likes, and after a power loss has every name that was made      *)
(* durable and perhaps others.  claim syncs the new file and not the       *)
(* directory, and whether the name becomes durable with the file is up to  *)
(* the file system.                                                        *)
(***************************************************************************)
EXTENDS Integers

CONSTANTS
    Procs,          \* processes, each with one store over the same directory
    Keys,           \* execution keys
    MaxCrashes      \* bound on crashes and power losses

ASSUME ReplayAssumption == MaxCrashes \in Nat

VARIABLES
    kind,       \* "memory" or "file": the store in use
    memory,     \* attempted, of each process
    entries,    \* names in the directory
    synced,     \* names whose file was written and synced
    durable,    \* names that survive a power loss
    at,         \* where each process is in execute_once
    key,        \* the key it was called with
    lifetime,   \* executions begun in the process's present life, by key
    total,      \* executions begun ever, by key
    lost,       \* history: how often a power loss took the name of a key away
    crashes

replay == <<kind, memory, entries, synced, durable, at, key, lifetime, total, lost, crashes>>

None == [k \in Keys |-> 0]

ReplayInit ==
    /\ kind \in {"memory", "file"}
    /\ memory = [p \in Procs |-> {}]
    /\ entries = {} /\ synced = {} /\ durable = {}
    /\ at = [p \in Procs |-> "idle"]
    /\ key \in [Procs -> Keys]
    /\ lifetime = [p \in Procs |-> None]
    /\ total = None /\ lost = None
    /\ crashes = 0

Goto(p, where) == at' = [at EXCEPT ![p] = where]

-----------------------------------------------------------------------------
(* claim *)

\* Mutant of ClaimInMemory: the answer of the set is not looked at.
ClaimInMemoryAlways(p, k) ==
    /\ kind = "memory"
    /\ at[p] = "idle"
    /\ key' = [key EXCEPT ![p] = k]
    /\ Goto(p, "claimed")
    /\ memory' = [memory EXCEPT ![p] = @ \union {k}]
    /\ UNCHANGED <<kind, entries, synced, durable, lifetime, total, lost, crashes>>

\* MemoryReplayStore::claim and ReplayGuard::execute_once: a key that is in the set
\* is refused, and nothing is executed.
ClaimInMemory(p, k) ==
    /\ kind = "memory"
    /\ at[p] = "idle"
    /\ key' = [key EXCEPT ![p] = k]
    /\ Goto(p, IF k \in memory[p] THEN "idle" ELSE "claimed")
    /\ memory' = [memory EXCEPT ![p] = @ \union {k}]
    /\ UNCHANGED <<kind, entries, synced, durable, lifetime, total, lost, crashes>>

\* Mutant of CreateFile: an existing file is opened like a new one.
CreateFileShared(p, k) ==
    /\ kind = "file"
    /\ at[p] = "idle"
    /\ entries' = entries \union {k}
    /\ key' = [key EXCEPT ![p] = k]
    /\ Goto(p, "created")
    /\ UNCHANGED <<kind, memory, synced, durable, lifetime, total, lost, crashes>>

\* FileReplayStore::claim: the file is created if its name is new; the caller gets
\* an error, and executes nothing, if it exists or cannot be created.
CreateFile(p, k) ==
    /\ kind = "file"
    /\ at[p] = "idle"
    /\ \/ /\ k \notin entries
          /\ entries' = entries \union {k}
          /\ key' = [key EXCEPT ![p] = k]
          /\ Goto(p, "created")
       \/ UNCHANGED <<entries, key, at>>
    /\ UNCHANGED <<kind, memory, synced, durable, lifetime, total, lost, crashes>>

\* Mutant of SyncFile: an error is not passed on.
SyncFileUnchecked(p) ==
    /\ at[p] = "created"
    /\ synced' \in {synced, synced \union {key[p]}}
    /\ durable' \in {durable, durable \union {key[p]}}
    /\ Goto(p, "claimed")
    /\ UNCHANGED <<kind, memory, entries, key, lifetime, total, lost, crashes>>

\* The key is written and synced; on an error the file stays and claim returns it.
SyncFile(p) ==
    /\ at[p] = "created"
    /\ \/ synced' = synced \union {key[p]} /\ Goto(p, "claimed")
       \/ UNCHANGED synced /\ Goto(p, "idle")
    /\ durable' \in {durable, durable \union {key[p]}}
    /\ UNCHANGED <<kind, memory, entries, key, lifetime, total, lost, crashes>>

-----------------------------------------------------------------------------
(* execute *)

Begin(p) ==
    /\ at[p] = "claimed"
    /\ Goto(p, "executing")
    /\ lifetime' = [lifetime EXCEPT ![p][key[p]] = @ + 1]
    /\ total' = [total EXCEPT ![key[p]] = @ + 1]
    /\ UNCHANGED <<kind, memory, entries, synced, durable, key, lost, crashes>>

\* The execution succeeds, fails or is dropped; the claim remains consumed.
End(p) ==
    /\ at[p] \in {"claimed", "executing"}
    /\ Goto(p, "idle")
    /\ UNCHANGED <<kind, memory, entries, synced, durable, key, lifetime, total, lost, crashes>>

-----------------------------------------------------------------------------
(* The environment. *)

\* A process dies and is started again: the directory is there, its memory is not.
Crash(p) ==
    /\ crashes < MaxCrashes
    /\ crashes' = crashes + 1
    /\ Goto(p, "idle")
    /\ memory' = [memory EXCEPT ![p] = {}]
    /\ lifetime' = [lifetime EXCEPT ![p] = None]
    /\ UNCHANGED <<kind, entries, synced, durable, key, total, lost>>

\* A file that has lost its name is not there any more.
PowerLoss ==
    /\ crashes < MaxCrashes
    /\ crashes' = crashes + 1
    /\ at' = [p \in Procs |-> "idle"]
    /\ memory' = [p \in Procs |-> {}]
    /\ lifetime' = [p \in Procs |-> None]
    /\ \E survivors \in SUBSET (entries \ durable) : entries' = durable \union survivors
    /\ durable' = entries' /\ synced' = synced \intersect entries'
    /\ lost' = [k \in Keys |-> IF k \in entries \ entries' THEN lost[k] + 1 ELSE lost[k]]
    /\ UNCHANGED <<kind, key, total>>

ReplayNext ==
    \/ \E p \in Procs :
           \/ \E k \in Keys : ClaimInMemory(p, k) \/ CreateFile(p, k)
           \/ SyncFile(p) \/ Begin(p) \/ End(p) \/ Crash(p)
    \/ PowerLoss

ReplaySpec == ReplayInit /\ [][ReplayNext]_replay

-----------------------------------------------------------------------------

ReplayTypeOK ==
    /\ kind \in {"memory", "file"}
    /\ memory \in [Procs -> SUBSET Keys]
    /\ entries \in SUBSET Keys /\ synced \in SUBSET Keys /\ durable \in SUBSET entries
    /\ at \in [Procs -> {"idle", "created", "claimed", "executing"}]
    /\ key \in [Procs -> Keys]
    /\ lifetime \in [Procs -> [Keys -> Nat]]
    /\ total \in [Keys -> Nat]
    /\ lost \in [Keys -> Nat]
    /\ crashes \in Nat

\* A ReplayGuard or a MemoryReplayStore executes a key at most once in the life of
\* its process, after failures and dropped executions too.
OncePerProcess == kind = "memory" => \A p \in Procs, k \in Keys : lifetime[p][k] <= 1

\* A FileReplayStore executes a key at most once, whatever the number of processes and
\* of their crashes, and once more only after a power loss that took the name of the
\* key's file away: claim does not sync the directory.
OnceUnlessLost == kind = "file" => \A k \in Keys : total[k] <= 1 + lost[k]

\* Each kind of store keeps its promise, in whatever order processes claim, execute and die.
ExecutesOnce == OncePerProcess /\ OnceUnlessLost

\* When the first byte can be sent, the claim is a file of the directory that was written and
\* synced without an error, so that no other process, and no process after a crash, gets it.
ClaimBeforeEffect ==
    kind = "file" => \A p \in Procs : at[p] = "executing" => key[p] \in entries \intersect synced

\* What "durable, cross-process replay claims" says of a FileReplayStore: a key that was
\* executed stays claimed, over power losses too.
ClaimsAreDurable == kind = "file" => \A k \in Keys : total[k] > 0 => k \in entries

\* A process past create_new has the only claim on its key, and the key has not
\* been executed since its name was lost.
ClaimIsExclusive ==
    \A p \in Procs : kind = "file" /\ at[p] \in {"created", "claimed"} =>
        /\ key[p] \in entries
        /\ total[key[p]] <= lost[key[p]]
        /\ \A q \in Procs : at[q] \in {"created", "claimed"} /\ key[q] = key[p] => q = p

\* What makes the two promises inductive: a key that was executed and not lost is in the
\* store, the execution of a claimed key is still to come, and a claim in a directory is
\* synced before it is used.
ReplayInv ==
    /\ ReplayTypeOK
    /\ OncePerProcess
    /\ \A p \in Procs : kind = "memory" =>
           /\ \A k \in Keys : lifetime[p][k] > 0 => k \in memory[p]
           /\ at[p] # "created"
           /\ at[p] = "claimed" => key[p] \in memory[p] /\ lifetime[p][key[p]] = 0
    /\ OnceUnlessLost
    /\ ClaimIsExclusive
    /\ kind = "file" => \A k \in Keys : k \notin entries => total[k] <= lost[k]
    /\ \A p \in Procs : kind = "file" /\ at[p] \in {"claimed", "executing"} =>
           key[p] \in entries \intersect synced
=============================================================================
