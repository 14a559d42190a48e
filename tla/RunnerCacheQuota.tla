-------------------------- MODULE RunnerCacheQuota --------------------------
(***************************************************************************)
(* The quota controller of the R2 cache (runner-cache-quota.ts), one       *)
(* Durable Object per account, and the bucket it manages.                  *)
(*                                                                         *)
(* R2 has no size limit, so the object keeps an index of what is stored    *)
(* and evicts the oldest entries.  Every operation awaits R2, so operations *)
(* are serialized by a promise chain (tail), and each await is a step of   *)
(* its own here: Workers write archives at any of them, and Interrupt ends *)
(* the operation there (a restart, or an R2 call that throws).  Calls wait *)
(* in no order of their own: the chain is first come, first served, but    *)
(* the order in which RPCs arrive is free.                                 *)
(***************************************************************************)
EXTENDS Integers, FiniteSets, FiniteSetsExt, Functions

CONSTANTS
    Archives,    \* object keys of action archives, one per upload (a fresh UUID each)
    LegacyKeys,  \* object keys of the legacy npm cache, overwritten in place
    Keys,        \* manifest keys: repository, scope, version and cache key, digested
    MaxBytes,    \* runnerCacheMaxBytes
    Sizes,       \* bound: object key -> the sizes uploads to it may have
    Attempts,    \* bound: object key -> number of calls for it, retries included
    MaxInterrupts, \* bound: operations that end at an await
    None

Objects == Archives \cup LegacyKeys

ASSUME QuotaAssumption ==
    /\ MaxBytes \in Nat \ {0}
    /\ IsFiniteSet(Objects) /\ IsFiniteSet(Keys)
    /\ \A o \in Objects : Sizes[o] \subseteq Nat \ {0}
    /\ Attempts \in [Objects -> Nat] /\ MaxInterrupts \in Nat
    /\ Archives \cap LegacyKeys = {} /\ Keys \cap Objects = {}
    /\ None \notin Objects \cup Keys

VARIABLES
    objects,     \* R2: object key -> size and time of the upload; size 0: absent
    manifests,   \* R2: manifest key -> the archive it names and its creation time
    index,       \* SQLite: the set of rows of runner_cache_entries
    indexReady,  \* SQLite: metadata index_ready
    calls,       \* RPC -> where it is and what it carries
    clock,       \* the current time
    interrupts   \* operations interrupted so far

quotaVars == <<objects, manifests, index, indexReady, calls, clock, interrupts>>

\* One call per finalization of an archive or recording of a legacy object.
Calls == UNION {{o} \X (1 .. Attempts[o]) : o \in Objects}

Object == [size : Nat, at : Nat]
Manifest == [archive : Archives \cup {None}, created : Nat]
Row == [object : Objects, manifest : Keys \cup {None}, size : Nat, created : Nat]

Operating == {"index", "put", "record", "compare", "discard", "forget", "evict", "evicted"}
Answers == {"stored", "already-exists", "too-large", "retained", "dropped", "failed"}
Call == [pc : {"idle", "waiting"} \cup Operating \cup Answers, key : Keys \cup {None},
         size : Nat, created : Nat, victim : Row \cup {None}]

Absent == [size |-> 0, at |-> 0]
NoManifest == [archive |-> None, created |-> 0]
NoCall == [pc |-> "idle", key |-> None, size |-> 0, created |-> 0, victim |-> None]

Present(o) == objects[o].size > 0
Operation(c) == calls[c].pc \in Operating
\* Mutant: the chain is released after a success only.
FreeAfterSuccess == \A c \in Calls : ~Operation(c) /\ calls[c].pc # "failed"
Free == \A c \in Calls : ~Operation(c)

\* The primary key: action:<manifest>, legacy:<object> or pending:<archive>.
EntryKey(row) == IF row.manifest # None THEN row.manifest ELSE row.object
WithoutEntry(rows, entry) == {row \in rows : EntryKey(row) # entry}
\* Mutant: INSERT OR IGNORE.
WithNewRow(rows, row) ==
    IF \E other \in rows : EntryKey(other) = EntryKey(row) THEN rows ELSE rows \cup {row}
WithRow(rows, row) == WithoutEntry(rows, EntryKey(row)) \cup {row}
TotalBytes(rows) == SumFunctionOnSet([row \in rows |-> row.size], rows)
OldestEntries(rows) == {row \in rows : \A other \in rows : row.created <= other.created}

QuotaInit ==
    /\ index = {}
    /\ indexReady = FALSE
    /\ calls = [c \in Calls |-> NoCall]
    /\ interrupts = 0

-----------------------------------------------------------------------------
(* The index. *)

\* What ensureIndex reads from R2.  Only this object writes manifests and
\* deletes archives, and it is not doing so now, so the listing and the reads
\* that follow it are one step; what Workers upload meanwhile comes after it.
RowsOfManifests ==
    {[object |-> manifests[k].archive, manifest |-> k,
      size |-> objects[manifests[k].archive].size, created |-> manifests[k].created] :
        k \in {k \in Keys : manifests[k].archive # None /\ Present(manifests[k].archive)}}

RowsOfOtherObjects ==
    {[object |-> o, manifest |-> None, size |-> objects[o].size, created |-> objects[o].at] :
        o \in {o \in Objects : Present(o) /\ \A row \in RowsOfManifests : row.object # o}}

\* Rows of an interrupted rebuild are replaced by the next one.
RebuiltIndex == RowsOfManifests \cup RowsOfOtherObjects

-----------------------------------------------------------------------------
(* Operations. *)

Moved(c, pc) == [calls EXCEPT ![c].pc = pc]

\* What recordLegacyCache and commitActionCache answer once the quota is enforced.
Answer(c, rows) ==
    IF c[1] \in Archives THEN "stored"
    ELSE IF \E row \in rows : EntryKey(row) = c[1] THEN "retained" ELSE "dropped"

\* enforceQuota, from the moment it looks for the next victim.
EnforceQuota(c, rows) ==
    /\ index' = rows
    /\ \/ /\ TotalBytes(rows) <= MaxBytes
          /\ calls' = [calls EXCEPT ![c].pc = Answer(c, rows), ![c].victim = None]
       \/ /\ TotalBytes(rows) > MaxBytes
          /\ \E row \in OldestEntries(rows) :
                calls' = [calls EXCEPT ![c].pc = "evict", ![c].victim = row]

\* The synchronous part of an operation once the index is there.
Perform(c, rows) ==
    \/ /\ c[1] \in LegacyKeys
       /\ EnforceQuota(c, WithRow(rows, [object |-> c[1], manifest |-> None,
                                         size |-> calls[c].size, created |-> calls[c].created]))
    \/ /\ c[1] \in Archives
       /\ index' = rows
       /\ calls' = Moved(c, IF calls[c].size > MaxBytes THEN "discard" ELSE "put")

\* Mutant: an operation does not wait for the one before.
BeginAtOnce(c) ==
    /\ calls[c].pc = "waiting"
    /\ IF indexReady THEN Perform(c, index)
                     ELSE calls' = Moved(c, "index") /\ index' = index
    /\ UNCHANGED <<objects, manifests, indexReady, clock, interrupts>>

\* serialize: the operation before has ended.
Begin(c) ==
    /\ calls[c].pc = "waiting"
    /\ Free
    /\ IF indexReady THEN Perform(c, index)
                     ELSE calls' = Moved(c, "index") /\ index' = index
    /\ UNCHANGED <<objects, manifests, indexReady, clock, interrupts>>

EnsureIndex(c) ==
    /\ calls[c].pc = "index"
    /\ indexReady' = TRUE
    /\ Perform(c, RebuiltIndex)
    /\ UNCHANGED <<objects, manifests, clock, interrupts>>

\* Mutant: the put has no condition.
OverwriteManifest(c) ==
    /\ calls[c].pc = "put"
    /\ manifests' = [manifests EXCEPT ![calls[c].key] =
                        [archive |-> c[1], created |-> calls[c].created]]
    /\ calls' = Moved(c, "record")
    /\ UNCHANGED <<objects, index, indexReady, clock, interrupts>>

\* The conditional put of the manifest: only if there is none.
PutManifest(c) ==
    /\ calls[c].pc = "put"
    /\ IF manifests[calls[c].key] = NoManifest
       THEN /\ manifests' = [manifests EXCEPT ![calls[c].key] =
                                [archive |-> c[1], created |-> calls[c].created]]
            /\ calls' = Moved(c, "record")
       ELSE /\ calls' = Moved(c, "compare")
            /\ UNCHANGED manifests
    /\ UNCHANGED <<objects, index, indexReady, clock, interrupts>>

\* The commit's two statements, then the quota.
RecordEntry(c) ==
    /\ calls[c].pc = "record"
    /\ EnforceQuota(c, WithRow(WithoutEntry(index, c[1]),
                               [object |-> c[1], manifest |-> calls[c].key,
                                size |-> calls[c].size, created |-> calls[c].created]))
    /\ UNCHANGED <<objects, manifests, indexReady, clock, interrupts>>

\* Mutant: a refused put always discards the archive.
DiscardAnyway(c) ==
    /\ calls[c].pc = "compare"
    /\ calls' = Moved(c, "discard")
    /\ UNCHANGED <<objects, manifests, index, indexReady, clock, interrupts>>

\* The put was refused: a retry finds its own archive, a rival's archive goes.
CompareManifest(c) ==
    /\ calls[c].pc = "compare"
    /\ calls' = Moved(c, IF manifests[calls[c].key].archive = c[1] THEN "stored" ELSE "discard")
    /\ UNCHANGED <<objects, manifests, index, indexReady, clock, interrupts>>

DiscardArchive(c) ==
    /\ calls[c].pc = "discard"
    /\ objects' = [objects EXCEPT ![c[1]] = Absent]
    /\ calls' = Moved(c, "forget")
    /\ UNCHANGED <<manifests, index, indexReady, clock, interrupts>>

ForgetPending(c) ==
    /\ calls[c].pc = "forget"
    /\ index' = WithoutEntry(index, c[1])
    /\ calls' = Moved(c, IF calls[c].size > MaxBytes THEN "too-large" ELSE "already-exists")
    /\ UNCHANGED <<objects, manifests, indexReady, clock, interrupts>>

\* R2 deletes the archive and its manifest in one request.
Evict(c) ==
    /\ calls[c].pc = "evict"
    /\ objects' = [objects EXCEPT ![calls[c].victim.object] = Absent]
    /\ manifests' = [k \in Keys |-> IF k = calls[c].victim.manifest THEN NoManifest ELSE manifests[k]]
    /\ calls' = Moved(c, "evicted")
    /\ UNCHANGED <<index, indexReady, clock, interrupts>>

\* Mutant: one victim is enough.
DropEvictedOnce(c) ==
    /\ calls[c].pc = "evicted"
    /\ index' = WithoutEntry(index, EntryKey(calls[c].victim))
    /\ calls' = [calls EXCEPT ![c].pc = Answer(c, index'), ![c].victim = None]
    /\ UNCHANGED <<objects, manifests, indexReady, clock, interrupts>>

DropEvicted(c) ==
    /\ calls[c].pc = "evicted"
    /\ EnforceQuota(c, WithoutEntry(index, EntryKey(calls[c].victim)))
    /\ UNCHANGED <<objects, manifests, indexReady, clock, interrupts>>

\* The object restarts, or R2 throws; the finally of serialize releases the
\* chain, and the caller gets an exception.  What R2 did is done.
Interrupt(c) ==
    /\ Operation(c)
    /\ interrupts < MaxInterrupts
    /\ interrupts' = interrupts + 1
    /\ calls' = [calls EXCEPT ![c].pc = "failed", ![c].victim = None]
    /\ UNCHANGED <<objects, manifests, index, indexReady, clock>>

Operate(c) ==
    \/ EnsureIndex(c) \/ PutManifest(c) \/ RecordEntry(c) \/ CompareManifest(c)
    \/ DiscardArchive(c) \/ ForgetPending(c) \/ Evict(c) \/ DropEvicted(c)
=============================================================================
