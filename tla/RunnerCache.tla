---------------------------- MODULE RunnerCache ----------------------------
(***************************************************************************)
(* The cache protocol: the runner's proxy (runner-results-proxy.mjs) and   *)
(* the Worker's handlers (runner-cache.ts) around the quota controller.    *)
(*                                                                         *)
(* A runner carries a capability for the job it was created for; GitHub    *)
(* may give it another job, so each request is resolved to the job the     *)
(* scheduler knows the runner executes.  Saving takes three requests:      *)
(* create (a session and a multipart upload), upload and complete,         *)
(* finalize.  Sessions are signed, so the server keeps none; what is       *)
(* recorded here is what the signed token says.                            *)
(***************************************************************************)
EXTENDS RunnerCacheQuota, Sequences

CONSTANTS
    Runners, Jobs,
    Uploader,   \* archive -> the runner that uploads it
    ClaimJob,   \* runner -> the job its capability was signed for
    Executes,   \* runner -> the job GitHub gives it
    Scopes, Names,
    ScopeOf,    \* job -> its cache scope
    FallbackOf, \* job -> the scope it may restore from besides, or None
    MayWrite,   \* jobs that may write to their scope
    Inherited   \* objects that may be in the bucket before the controller first runs

ASSUME CacheAssumption ==
    /\ Keys = [scope : Scopes, name : Names]
    /\ Uploader \in [Archives -> Runners]
    /\ ClaimJob \in [Runners -> Jobs] /\ Executes \in [Runners -> Jobs]
    /\ ScopeOf \in [Jobs -> Scopes] /\ FallbackOf \in [Jobs -> Scopes \cup {None}]
    /\ MayWrite \subseteq Jobs /\ Inherited \subseteq Objects
    /\ None \notin Jobs \cup Scopes \cup Archives

VARIABLES
    sessions,  \* archive -> its upload session and how far the upload is
    uploads,   \* proxy: runner -> name -> the archive of the session it holds
    returned,  \* proxy: calls of which it knows that they have succeeded
    assigned   \* runner -> the job the scheduler has observed it execute

vars == <<quotaVars, sessions, uploads, returned, assigned>>

Session == [stage : {"none", "open", "complete"}, parts : Nat, job : Jobs \cup {None}, key : Keys \cup {None}]
NoSession == [stage |-> "none", parts |-> 0, job |-> None, key |-> None]

\* Types, and one operation at a time.
TypeOK ==
    /\ objects \in [Objects -> Object]
    /\ manifests \in [Keys -> Manifest]
    /\ index \subseteq Row
    /\ indexReady \in BOOLEAN
    /\ calls \in [Calls -> Call]
    /\ clock \in Nat
    /\ interrupts \in 0 .. MaxInterrupts
    /\ sessions \in [Archives -> Session]
    /\ uploads \in [Runners -> [Names -> Archives \cup {None}]]
    /\ returned \subseteq Calls
    /\ assigned \in [Runners -> Jobs \cup {None}]
    /\ \A c, d \in Calls : Operation(c) /\ Operation(d) => c = d

\* Mutant: an unknown assignment falls back to the signed claim.
ResolveFromClaim(r) == IF assigned[r] # None THEN assigned[r] ELSE ClaimJob[r]

\* resolveRunnerCacheClaim: the assigned job, not the one in the capability.
Resolve(r) == assigned[r]

Authorized(a) ==
    /\ sessions[a].job = Resolve(Uploader[a])
    /\ sessions[a].job \in MayWrite

\* A bucket that was in use before it had a quota controller: legacy objects,
\* archives that were uploaded, and keys that were saved with some of them.
InheritedSession == [stage |-> "complete", parts |-> 0, job |-> None, key |-> None]

Init ==
    /\ QuotaInit
    /\ clock = 1
    /\ assigned = [r \in Runners |-> None]
    /\ uploads = [r \in Runners |-> [n \in Names |-> None]]
    /\ returned = {}
    /\ sessions = [a \in Archives |-> IF a \in Inherited THEN InheritedSession ELSE NoSession]
    /\ \E size \in [Inherited -> UNION {Sizes[o] \cup {0} : o \in Inherited}] :
          /\ \A o \in Inherited : size[o] \in Sizes[o] \cup {0}
          /\ objects = [o \in Objects |-> IF o \in Inherited THEN [size |-> size[o], at |-> 0] ELSE Absent]
    /\ manifests \in [Keys -> {NoManifest} \cup [archive : Inherited \cap Archives, created : {0}]]
    /\ \A k \in Keys : manifests[k] # NoManifest =>
          /\ Present(manifests[k].archive)
          /\ \A other \in Keys \ {k} : manifests[other].archive # manifests[k].archive

-----------------------------------------------------------------------------
(* Requests. *)

\* cacheAssignment has an answer: the hook stops polling.
Assign(r) ==
    /\ assigned[r] = None
    /\ assigned' = [assigned EXCEPT ![r] = Executes[r]]
    /\ UNCHANGED <<quotaVars, sessions, uploads, returned>>

\* The proxy keeps one session per key and version: the last one created.
CreateUpload(a) ==
    /\ sessions[a].stage = "none"
    /\ Resolve(Uploader[a]) \in MayWrite
    /\ \E n \in Names :
          /\ sessions' = [sessions EXCEPT ![a] =
                [stage |-> "open", parts |-> 0, job |-> Resolve(Uploader[a]),
                 key |-> [scope |-> ScopeOf[Resolve(Uploader[a])], name |-> n]]]
          /\ uploads' = [uploads EXCEPT ![Uploader[a]][n] = a]
    /\ UNCHANGED <<quotaVars, returned, assigned>>

\* The proxy splits the archive, of any size it may have, into parts; each is
\* checked like a request of its own.  A part that fails ends the upload.
SendsPart(a) ==
    /\ sessions[a].stage = "open"
    /\ \E size \in Sizes[a] : sessions[a].parts < size

UploadPart(a) ==
    /\ SendsPart(a) /\ Authorized(a)
    /\ sessions' = [sessions EXCEPT ![a].parts = @ + 1]
    /\ UNCHANGED <<quotaVars, uploads, returned, assigned>>

\* The completion of the multipart upload (an upload in one request is its only
\* part and its completion); R2 refuses a second one.
CompleteUpload(a) ==
    /\ sessions[a].stage = "open" /\ sessions[a].parts \in Sizes[a]
    /\ Authorized(a)
    /\ sessions' = [sessions EXCEPT ![a].stage = "complete"]
    /\ objects' = [objects EXCEPT ![a] = [size |-> sessions[a].parts, at |-> clock]]
    /\ UNCHANGED <<manifests, index, indexReady, calls, clock, interrupts, uploads, returned, assigned>>

Issued(c) == calls[c].pc # "idle"
NextCall(c) == ~Issued(c) /\ \A n \in 1 .. c[2] - 1 : Issued(<<c[1], n>>)
Holds(c) == \E n \in Names : uploads[Uploader[c[1]]][n] = c[1]

\* The proxy sends the session that it holds for the key; the archive is looked
\* up (head), then the quota controller is called.  The runner retries when it
\* gets no answer, also while the first call is going on.
Finalize(c) ==
    /\ c[1] \in Archives /\ NextCall(c) /\ Holds(c)
    /\ Authorized(c[1])
    /\ Present(c[1])
    /\ calls' = [calls EXCEPT ![c] = [NoCall EXCEPT
          !.pc = "waiting", !.key = sessions[c[1]].key,
          !.size = objects[c[1]].size, !.created = clock]]
    /\ clock' = clock + 1
    /\ UNCHANGED <<objects, manifests, index, indexReady, interrupts, sessions, uploads, returned, assigned>>

\* A success makes the proxy forget the session that it holds for the key, be it
\* another one by now; after any other answer it keeps the session.
Return(c) ==
    /\ c[1] \in Archives /\ calls[c].pc = "stored" /\ c \notin returned
    /\ returned' = returned \cup {c}
    /\ uploads' = [uploads EXCEPT ![Uploader[c[1]]][calls[c].key.name] = None]
    /\ UNCHANGED <<quotaVars, sessions, assigned>>

\* The legacy endpoint overwrites the object and then has it recorded.
LegacyPut(c) ==
    /\ c[1] \in LegacyKeys /\ NextCall(c)
    /\ \E r \in Runners : Resolve(r) \in MayWrite
    /\ \E size \in Sizes[c[1]] :
          /\ objects' = [objects EXCEPT ![c[1]] = [size |-> size, at |-> clock]]
          /\ calls' = [calls EXCEPT ![c] = [NoCall EXCEPT
                !.pc = "waiting", !.size = size, !.created = clock]]
    /\ clock' = clock + 1
    /\ UNCHANGED <<manifests, index, indexReady, interrupts, sessions, uploads, returned, assigned>>

-----------------------------------------------------------------------------
(* Restores. *)

\* actionCacheManifestForScope: the exact key, or the newest one that matches
\* the first restore key with a match.  A restore key is the set of the names
\* that start with it.
Newest(keys) == {k \in keys : \A other \in keys : manifests[other].created <= manifests[k].created}

ManifestForScope(scope, name, restoreKeys) ==
    LET saved == {k \in Keys : k.scope = scope /\ manifests[k] # NoManifest}
        matching(i) == {k \in saved : k.name \in restoreKeys[i]}
        first == {i \in DOMAIN restoreKeys :
                    matching(i) # {} /\ \A n \in 1 .. i - 1 : matching(n) = {}}
    IN  IF [scope |-> scope, name |-> name] \in saved
        THEN {[scope |-> scope, name |-> name]}
        ELSE UNION {Newest(matching(i)) : i \in first}

\* actionCacheLookup: the keys a restore by r may find; the fallback scope only
\* when its own scope has no manifest, and a hit only if the archive is there.
Lookup(r, name, restoreKeys) ==
    LET own == ManifestForScope(ScopeOf[Resolve(r)], name, restoreKeys)
        found == IF own = {} /\ FallbackOf[Resolve(r)] # None
                 THEN ManifestForScope(FallbackOf[Resolve(r)], name, restoreKeys) ELSE own
    IN  IF Resolve(r) = None THEN {} ELSE {k \in found : Present(manifests[k].archive)}

-----------------------------------------------------------------------------

protocolVars == <<sessions, uploads, returned, assigned>>

Next ==
    \/ \E r \in Runners : Assign(r)
    \/ \E a \in Archives : CreateUpload(a)
    \/ \E a \in Archives : UploadPart(a)
    \/ \E a \in Archives : CompleteUpload(a)
    \/ \E c \in Calls : Finalize(c)
    \/ \E c \in Calls : Return(c)
    \/ \E c \in Calls : LegacyPut(c)
    \/ \E c \in Calls : Begin(c) /\ UNCHANGED protocolVars
    \/ \E c \in Calls : EnsureIndex(c) /\ UNCHANGED protocolVars
    \/ \E c \in Calls : PutManifest(c) /\ UNCHANGED protocolVars
    \/ \E c \in Calls : RecordEntry(c) /\ UNCHANGED protocolVars
    \/ \E c \in Calls : CompareManifest(c) /\ UNCHANGED protocolVars
    \/ \E c \in Calls : DiscardArchive(c) /\ UNCHANGED protocolVars
    \/ \E c \in Calls : ForgetPending(c) /\ UNCHANGED protocolVars
    \/ \E c \in Calls : Evict(c) /\ UNCHANGED protocolVars
    \/ \E c \in Calls : DropEvicted(c) /\ UNCHANGED protocolVars
    \/ \E c \in Calls : Interrupt(c) /\ UNCHANGED protocolVars

\* R2 answers or throws, so an operation goes on, and the chain lets the next
\* one begin.
CacheFairness == WF_vars(\E c \in Calls : (Begin(c) \/ Operate(c)) /\ UNCHANGED protocolVars)

Spec == Init /\ [][Next]_vars
FairSpec == Spec /\ CacheFairness

-----------------------------------------------------------------------------
(* Properties. *)

\* What a restore of k finds.
EntryOf(k) == IF manifests[k].archive # None /\ Present(manifests[k].archive)
              THEN manifests[k].archive ELSE None

Interrupted(o) == \E c \in Calls : c[1] = o /\ calls[c].pc = "failed"
Recording(a) == \E c \in Calls : c[1] = a /\ calls[c].pc = "record"

\* The cache implements ActionCache: entries are what restores find, and an
\* archive is gone once it was uploaded and deleted.
Promise == INSTANCE ActionCache WITH
    entries <- [k \in Keys |-> EntryOf(k)],
    gone <- {a \in Archives : sessions[a].stage = "complete" /\ ~Present(a)}

Implementation == Promise!Spec

\* Once there is an index, an archive that restores find is counted with its
\* size, except while its commit is between the manifest and the row, or if a
\* restart came there: nothing evicts bytes that the index does not know.
StoredBytesAreCounted ==
    indexReady => \A k \in Keys :
        LET a == EntryOf(k) IN
        a # None /\ ~Recording(a) /\ ~Interrupted(a) =>
            \E row \in index : row.manifest = k /\ row.object = a /\ row.size = objects[a].size

\* When an operation has enforced the quota, what the cache holds is within it:
\* the archives that restores find, those of interrupted commits apart, and the
\* legacy objects.  A legacy object put twice at once is apart too: the puts may
\* be recorded in the other order, and the row then has the wrong size.
PutOnce(l) == \E c \in Calls : c[1] = l /\ calls[c].pc \notin {"waiting", "failed"}
                             /\ \A d \in Calls \ {c} : d[1] = l => ~Issued(d)
CountedObjects ==
    ({EntryOf(k) : k \in Keys} \ ({None} \cup {a \in Archives : Interrupted(a)}))
    \cup {l \in LegacyKeys : PutOnce(l)}

BytesHeld == SumFunctionOnSet([o \in CountedObjects |-> objects[o].size], CountedObjects)

CommitsKeepTheQuota ==
    [][\A c \in Calls :
          calls[c].pc \in {"record", "evicted"} /\ calls'[c].pc \in {"stored", "retained", "dropped"} =>
             BytesHeld' <= MaxBytes]_vars

\* An archive that restores find is only deleted together with its manifest:
\* no rival, retry or eviction of an old row leaves a key that can neither be
\* restored nor saved.
CommittedArchivesStay ==
    [][\A k \in Keys : EntryOf(k) # None /\ ~Interrupted(EntryOf(k)) =>
          EntryOf(k)' = EntryOf(k) \/ manifests'[k] = NoManifest]_vars

\* A restore finds only what a job wrote to its own scope: the scope of the job
\* GitHub gave the runner, whatever its capability says, or that job's fallback.
LookupsStayInScope ==
    \A r \in Runners, name \in Names :
        \A k \in Lookup(r, name, <<Names>>) :
            LET a == manifests[k].archive
                writer == Executes[Uploader[a]]
            IN  /\ k.scope \in {ScopeOf[Executes[r]], FallbackOf[Executes[r]]}
                /\ a \notin Inherited => k.scope = ScopeOf[writer] /\ writer \in MayWrite

\* Every call that reaches the controller is answered.
CallsAreAnswered ==
    \A c \in Calls : calls[c].pc = "waiting" ~> calls[c].pc \in Answers
=============================================================================
