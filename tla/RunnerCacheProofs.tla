-------------------------- MODULE RunnerCacheProofs --------------------------
(***************************************************************************)
(* Proofs about RunnerCache, for any runners, jobs, keys and sizes, any    *)
(* number of calls and any interruptions: types and one operation at a     *)
(* time, the refinement of ActionCache, that committed archives stay, that *)
(* restores keep to their scopes, and that the quota holds.                *)
(*                                                                         *)
(* None of them is inductive.  What is needed besides: which archive a     *)
(* manifest and a row may name (Named, Counted), what a call knows of its  *)
(* archive while it waits (Requested), and that the row of a victim is     *)
(* still the one in the index (Victims).                                   *)
(***************************************************************************)
EXTENDS RunnerCache, SumTheorems

\* Archives appear when their upload is completed, and the proxy holds sessions
\* that were created.
Uploaded ==
    /\ \A a \in Archives : Present(a) =>
          /\ sessions[a].stage = "complete"
          /\ sessions[a].key # None => objects[a].size = sessions[a].parts
    /\ \A r \in Runners, n \in Names :
          uploads[r][n] # None => sessions[uploads[r][n]].key # None

\* Archives are named by one manifest at most: the one of their session's key,
\* or one that was there from the start.
Named ==
    \A k \in Keys : manifests[k].archive # None =>
        LET session == sessions[manifests[k].archive]
        IN  /\ session.stage = "complete"
            /\ session.key # None => k = session.key /\ session.parts <= MaxBytes
            /\ \A j \in Keys : manifests[j].archive = manifests[k].archive => j = k

\* What a call carries is what its session says; only calls for archives commit.
Requested ==
    \A c \in Calls :
        /\ Issued(c) /\ c[1] \in Archives =>
              /\ sessions[c[1]].stage = "complete"
              /\ calls[c].key = sessions[c[1]].key /\ calls[c].key # None
              /\ calls[c].size = sessions[c[1]].parts
        /\ calls[c].pc \in {"put", "record", "compare", "discard", "forget"} => c[1] \in Archives
        /\ calls[c].pc \in {"put", "record", "compare"} => calls[c].size <= MaxBytes
        /\ calls[c].pc = "record" => manifests[calls[c].key].archive = c[1]
        /\ calls[c].pc = "discard" =>
              calls[c].size > MaxBytes \/ manifests[calls[c].key].archive # c[1]

\* A row with a manifest is that manifest's only row; if the manifest names
\* another archive by now, the row's archive is gone.
CountedIn(rows) ==
    \A row \in rows :
        /\ row.object \in LegacyKeys => row.manifest = None
        /\ row.object \in Archives => sessions[row.object].stage = "complete"
        /\ row.manifest # None =>
              /\ sessions[row.object].key # None => row.manifest = sessions[row.object].key
              /\ \A j \in Keys : manifests[j].archive = row.object => j = row.manifest
              /\ manifests[row.manifest].archive # row.object => ~Present(row.object)
              /\ \A other \in rows : other.manifest = row.manifest => other = row

Counted == CountedIn(index)

\* Only a commit that was interrupted leaves an archive that restores find in a
\* row without its manifest.
Pending(row) ==
    row.manifest = None /\ row.object \in Archives /\ \E k \in Keys : EntryOf(k) = row.object

Unlisted == \A row \in index : Pending(row) => Recording(row.object) \/ Interrupted(row.object)

Victims == \A c \in Calls : calls[c].pc \in {"evict", "evicted"} => calls[c].victim \in index

IInv == TypeOK /\ Uploaded /\ Named /\ Requested /\ Counted /\ Unlisted /\ Victims

-----------------------------------------------------------------------------
(* Calls and rows. *)

LEMMA CallNames ==
    \A c \in Calls : c[1] \in Objects /\ (c[1] \in LegacyKeys <=> c[1] \notin Archives)
BY QuotaAssumption DEF Calls, Objects

LEMMA Moving ==
    ASSUME calls \in [Calls -> Call], NEW c \in Calls,
           NEW pc \in {"idle", "waiting"} \cup Operating \cup Answers
    PROVE  /\ Moved(c, pc) \in [Calls -> Call]
           /\ Moved(c, pc)[c].pc = pc /\ Moved(c, pc)[c].key = calls[c].key
           /\ Moved(c, pc)[c].size = calls[c].size /\ Moved(c, pc)[c].victim = calls[c].victim
           /\ \A d \in Calls : d # c => Moved(c, pc)[d] = calls[d]
BY DEF Moved, Call

LEMMA Rows ==
    ASSUME NEW rows \in SUBSET Row, NEW row \in Row
    PROVE  /\ WithRow(rows, row) \in SUBSET Row
           /\ row \in WithRow(rows, row)
           /\ \A other \in WithRow(rows, row) :
                other = row \/ (other \in rows /\ EntryKey(other) # EntryKey(row))
BY DEF WithRow, WithoutEntry

LEMMA Fields ==
    ASSUME TypeOK
    PROVE  /\ \A k \in Keys : manifests[k].archive \in Archives \cup {None}
           /\ \A row \in index : row.object \in Archives \cup LegacyKeys /\ row.manifest \in Keys \cup {None}
           /\ \A r \in Runners, n \in Names : uploads[r][n] \in Archives \cup {None}
           /\ \A a \in Archives : a \in Objects /\ a # None /\ a \notin LegacyKeys
           /\ None \notin Keys
<1>1. \A k \in Keys : manifests[k].archive \in Archives \cup {None}
  BY DEF TypeOK, Manifest
<1>2. \A row \in index : row.object \in Archives \cup LegacyKeys /\ row.manifest \in Keys \cup {None}
  BY DEF TypeOK, Row, Objects
<1>3. \A r \in Runners, n \in Names : uploads[r][n] \in Archives \cup {None}
  BY DEF TypeOK
<1>4. \A a \in Archives : a \in Objects /\ a # None /\ a \notin LegacyKeys
  BY QuotaAssumption DEF Objects
<1>5. None \notin Keys
  BY QuotaAssumption
<1> QED BY <1>1, <1>2, <1>3, <1>4, <1>5

LEMMA InitIsConsistent == Init => IInv
<1> SUFFICES ASSUME Init PROVE IInv
  OBVIOUS
<1> USE QuotaAssumption, CacheAssumption DEF Init, QuotaInit
<1>1. \A c \in Calls : calls[c].pc = "idle"
  BY DEF NoCall
<1>2. TypeOK
  <2>1. objects \in [Objects -> Object]
    BY DEF Object, Absent, Objects
  <2>2. manifests \in [Keys -> Manifest]
    BY DEF Manifest, NoManifest
  <2>3. calls \in [Calls -> Call]
    BY DEF NoCall, Call
  <2>4. sessions \in [Archives -> Session]
    BY DEF NoSession, InheritedSession, Session
  <2>5. \A c \in Calls : ~Operation(c)
    BY <1>1 DEF Operation, Operating
  <2>6. index \subseteq Row /\ indexReady \in BOOLEAN
    OBVIOUS
  <2>7. clock \in Nat /\ interrupts \in 0 .. MaxInterrupts
    OBVIOUS
  <2>8. uploads \in [Runners -> [Names -> Archives \cup {None}]]
    OBVIOUS
  <2>9. returned \subseteq Calls /\ assigned \in [Runners -> Jobs \cup {None}]
    OBVIOUS
  <2> QED BY <2>1, <2>2, <2>3, <2>4, <2>5, <2>6, <2>7, <2>8, <2>9 DEF TypeOK
<1>3. Uploaded
  BY DEF Uploaded, Present, Absent, InheritedSession, Objects
<1>4. Named
  <2>1. ASSUME NEW k \in Keys, manifests[k].archive # None
        PROVE  /\ manifests[k] # NoManifest /\ manifests[k].archive \in Inherited \cap Archives
               /\ \A j \in Keys : manifests[j].archive = manifests[k].archive => j = k
    <3>1. manifests[k] # NoManifest
      BY <2>1 DEF NoManifest
    <3>2. manifests[k] \in [archive : Inherited \cap Archives, created : {0}]
      BY <3>1
    <3>3. \A j \in Keys \ {k} : manifests[j].archive # manifests[k].archive
      BY <3>1
    <3> QED BY <3>1, <3>2, <3>3
  <2>2. \A a \in Inherited \cap Archives : sessions[a].stage = "complete" /\ sessions[a].key = None
    BY DEF InheritedSession
  <2> QED BY <2>1, <2>2 DEF Named
<1>5. Requested
  BY <1>1 DEF Requested, Issued
<1>6. Counted /\ Unlisted /\ Victims
  BY <1>1 DEF Counted, CountedIn, Unlisted, Victims
<1> QED BY <1>2, <1>3, <1>4, <1>5, <1>6 DEF IInv

-----------------------------------------------------------------------------
(* One operation at a time. *)

LEMMA Alone ==
    ASSUME TypeOK, NEW c \in Calls, Operation(c)
    PROVE  \A d \in Calls : d # c => ~Operation(d)
BY DEF TypeOK

\* Enforcing the quota over rows that are counted right, and end the wait of the
\* call: the rest of the state stays.
LEMMA EnforcingKeepsConsistency ==
    ASSUME IInv, NEW c \in Calls, \A d \in Calls : d # c => ~Operation(d),
           Issued(c), calls[c].pc # "failed",
           NEW rows \in SUBSET Row, CountedIn(rows),
           \A row \in rows : Pending(row) => Interrupted(row.object),
           EnforceQuota(c, rows), indexReady' \in BOOLEAN,
           UNCHANGED <<objects, manifests, clock, interrupts, sessions, uploads, returned, assigned>>
    PROVE  IInv'
<1>1. /\ calls \in [Calls -> Call] /\ index' = rows
      /\ calls' \in [Calls -> Call]
      /\ calls'[c].pc \in {"stored", "retained", "dropped", "evict"}
      /\ calls'[c].key = calls[c].key /\ calls'[c].size = calls[c].size
      /\ calls'[c].pc = "evict" => calls'[c].victim \in rows
      /\ \A d \in Calls : d # c => calls'[d] = calls[d]
  <2>1. calls \in [Calls -> Call] /\ index' = rows
    BY DEF IInv, TypeOK, EnforceQuota
  <2>2. CASE TotalBytes(rows) <= MaxBytes /\ calls' = [calls EXCEPT ![c].pc = Answer(c, rows), ![c].victim = None]
    <3>1. Answer(c, rows) \in {"stored", "retained", "dropped"}
      BY DEF Answer
    <3> QED BY <2>1, <2>2, <3>1 DEF Call, Answers
  <2>3. CASE \E row \in OldestEntries(rows) : calls' = [calls EXCEPT ![c].pc = "evict", ![c].victim = row]
    <3>1. PICK row \in rows : calls' = [calls EXCEPT ![c].pc = "evict", ![c].victim = row]
      BY <2>3 DEF OldestEntries
    <3> QED BY <2>1, <3>1 DEF Call, Operating
  <2> QED BY <2>2, <2>3 DEF EnforceQuota
<1>2. TypeOK'
  <2>1. \A d \in Calls : d # c => ~Operation(d)'
    BY <1>1 DEF Operation
  <2> QED BY <1>1, <2>1 DEF IInv, TypeOK
<1>3. Uploaded' /\ Named'
  BY DEF IInv, Uploaded, Named, Present
<1>4. Requested'
  BY <1>1 DEF IInv, Requested, Issued
<1>5. Counted'
  BY <1>1 DEF Counted, CountedIn, Present
<1>6. Unlisted'
  <2>1. \A row \in rows : Pending(row)' => Pending(row)
    BY DEF Pending, EntryOf, Present
  <2>2. \A row \in rows : Interrupted(row.object) => Interrupted(row.object)'
    BY <1>1 DEF Interrupted
  <2> QED BY <1>1, <2>1, <2>2 DEF Unlisted
<1>7. Victims'
  BY <1>1 DEF Victims, Operation, Operating
<1> QED BY <1>2, <1>3, <1>4, <1>5, <1>6, <1>7 DEF IInv

\* The same of what an operation does when the index is there.
LEMMA PerformingKeepsConsistency ==
    ASSUME IInv, NEW c \in Calls, \A d \in Calls : d # c => ~Operation(d),
           calls[c].pc \in {"waiting", "index"},
           NEW rows \in SUBSET Row, CountedIn(rows),
           \A row \in rows : Pending(row) => Interrupted(row.object),
           Perform(c, rows), indexReady' \in BOOLEAN,
           UNCHANGED <<objects, manifests, clock, interrupts, sessions, uploads, returned, assigned>>
    PROVE  IInv'
<1>1. calls \in [Calls -> Call] /\ Issued(c)
  BY DEF IInv, TypeOK, Issued
<1>2. CASE c[1] \in LegacyKeys
  <2> DEFINE new == [object |-> c[1], manifest |-> None, size |-> calls[c].size, created |-> calls[c].created]
  <2>1. new \in Row
    BY <1>1, <1>2, CallNames DEF Row, Call
  <2>2. c[1] \notin Archives
    BY <1>2, CallNames
  <2>3. EnforceQuota(c, WithRow(rows, new))
    BY <1>2, <2>2 DEF Perform
  <2>4. /\ WithRow(rows, new) \in SUBSET Row
        /\ \A row \in WithRow(rows, new) : row = new \/ row \in rows
    BY <2>1, Rows
  <2> HIDE DEF new
  <2>5. new.manifest = None /\ new.object \notin Archives
    BY <2>2 DEF new
  <2>6. CountedIn(WithRow(rows, new))
    BY <2>4, <2>5 DEF CountedIn
  <2>7. \A row \in WithRow(rows, new) : Pending(row) => Interrupted(row.object)
    BY <2>4, <2>5 DEF Pending
  <2> QED BY <1>1, <2>3, <2>4, <2>6, <2>7, EnforcingKeepsConsistency
<1>3. CASE c[1] \in Archives
  <2> DEFINE pc == IF calls[c].size > MaxBytes THEN "discard" ELSE "put"
  <2>1. index' = rows /\ calls' = Moved(c, pc)
    BY <1>3, CallNames DEF Perform
  <2>2. pc \in Operating
    BY DEF Operating
  <2>3. /\ calls' \in [Calls -> Call]
        /\ calls'[c].pc = pc
        /\ calls'[c].key = calls[c].key /\ calls'[c].size = calls[c].size
        /\ \A d \in Calls : d # c => calls'[d] = calls[d]
    BY <1>1, <2>1, <2>2, Moving
  <2>4. TypeOK'
    <3>1. \A d \in Calls : d # c => ~Operation(d)'
      BY <2>3 DEF Operation
    <3> QED BY <2>1, <2>3, <3>1 DEF IInv, TypeOK
  <2>5. Uploaded' /\ Named'
    BY DEF IInv, Uploaded, Named, Present
  <2>6. Requested'
    <3>1. calls'[c].pc = "put" => calls'[c].size <= MaxBytes
      BY <1>1, <2>3, QuotaAssumption DEF Call
    <3>2. calls'[c].pc = "discard" => calls'[c].size > MaxBytes
      BY <2>3
    <3> QED BY <1>1, <1>3, <2>3, <3>1, <3>2 DEF IInv, Requested, Issued
  <2>7. Counted'
    BY <2>1 DEF Counted, CountedIn, Present
  <2>8. Unlisted'
    <3>1. \A row \in rows : Pending(row)' => Pending(row)
      BY DEF Pending, EntryOf, Present
    <3>2. \A row \in rows : Interrupted(row.object) => Interrupted(row.object)'
      BY <2>3 DEF Interrupted
    <3> QED BY <2>1, <3>1, <3>2 DEF Unlisted
  <2>9. Victims'
    BY <2>3 DEF Victims, Operation, Operating
  <2> QED BY <2>4, <2>5, <2>6, <2>7, <2>8, <2>9 DEF IInv
<1> QED BY <1>2, <1>3 DEF Perform

\* A move that changes nothing but where the operation is.
LEMMA MovingKeepsConsistency ==
    ASSUME IInv, NEW c \in Calls, \A d \in Calls : d # c => ~Operation(d),
           Issued(c), calls[c].pc \notin {"record", "failed"},
           NEW pc \in {"index", "compare", "discard", "stored"}, calls' = Moved(c, pc),
           pc \in {"compare", "discard"} => c[1] \in Archives,
           pc = "compare" => calls[c].size <= MaxBytes,
           pc = "discard" => manifests[calls[c].key].archive # c[1],
           UNCHANGED <<objects, manifests, index, indexReady, clock, interrupts,
                       sessions, uploads, returned, assigned>>
    PROVE  IInv'
<1>1. /\ calls' \in [Calls -> Call]
      /\ calls'[c].pc = pc
      /\ calls'[c].key = calls[c].key /\ calls'[c].size = calls[c].size
      /\ \A d \in Calls : d # c => calls'[d] = calls[d]
  BY Moving DEF IInv, TypeOK, Operating, Answers
<1>2. TypeOK'
  <2>1. \A d \in Calls : d # c => ~Operation(d)'
    BY <1>1 DEF Operation
  <2> QED BY <1>1, <2>1 DEF IInv, TypeOK
<1>3. Uploaded' /\ Named'
  BY DEF IInv, Uploaded, Named, Present
<1>4. Requested'
  BY <1>1 DEF IInv, Requested, Issued
<1>5. Counted'
  BY DEF IInv, Counted, CountedIn, Present
<1>6. Unlisted'
  <2>1. \A a \in Archives : Recording(a) \/ Interrupted(a) => Recording(a)' \/ Interrupted(a)'
    BY <1>1 DEF Recording, Interrupted
  <2> QED BY <2>1 DEF IInv, Unlisted, Pending, EntryOf, Present
<1>7. Victims'
  BY <1>1 DEF IInv, Victims
<1> QED BY <1>2, <1>3, <1>4, <1>5, <1>6, <1>7 DEF IInv

\* The rows of a rebuild are counted right, and list every archive with its
\* manifest.
LEMMA RebuiltRows ==
    ASSUME IInv
    PROVE  /\ RebuiltIndex \in SUBSET Row
           /\ CountedIn(RebuiltIndex)
           /\ \A row \in RebuiltIndex : ~Pending(row)
<1> USE QuotaAssumption DEF IInv, TypeOK
<1>1. ASSUME NEW row \in RowsOfManifests
      PROVE  /\ row \in Row /\ row.manifest \in Keys
             /\ row.object \in Archives /\ row.object = manifests[row.manifest].archive
  BY DEF RowsOfManifests, Row, Manifest, Object, Objects
<1>2. ASSUME NEW row \in RowsOfOtherObjects
      PROVE  /\ row \in Row /\ row.manifest = None /\ Present(row.object)
             /\ \A other \in RowsOfManifests : other.object # row.object
  BY DEF RowsOfOtherObjects, Row, Object, Objects
<1>3. \A one, other \in RowsOfManifests : one.manifest = other.manifest => one = other
  BY DEF RowsOfManifests
<1>4. RebuiltIndex \in SUBSET Row
  BY <1>1, <1>2 DEF RebuiltIndex
<1>5. ASSUME NEW row \in RowsOfManifests
      PROVE  /\ row.object \notin LegacyKeys /\ sessions[row.object].stage = "complete"
             /\ row.manifest # None
             /\ sessions[row.object].key # None => row.manifest = sessions[row.object].key
             /\ \A j \in Keys : manifests[j].archive = row.object => j = row.manifest
             /\ manifests[row.manifest].archive = row.object
             /\ \A other \in RebuiltIndex : other.manifest = row.manifest => other = row
  <2>1. manifests[row.manifest].archive # None
    BY <1>1 DEF Objects
  <2> QED BY <1>1, <1>2, <1>3, <2>1 DEF Named, RebuiltIndex
<1>6. CountedIn(RebuiltIndex)
  BY <1>2, <1>5 DEF CountedIn, RebuiltIndex, Uploaded
<1>7. ASSUME NEW row \in RowsOfOtherObjects PROVE ~Pending(row)
  <2>1. SUFFICES ASSUME NEW k \in Keys, row.object \in Archives, EntryOf(k) = row.object PROVE FALSE
    BY DEF Pending
  <2>2. manifests[k].archive = row.object /\ manifests[k].archive # None /\ Present(manifests[k].archive)
    BY <2>1 DEF EntryOf, Objects
  <2>3. \E other \in RowsOfManifests : other.object = row.object
    <3> DEFINE other == [object |-> manifests[k].archive, manifest |-> k,
                         size |-> objects[manifests[k].archive].size, created |-> manifests[k].created]
    <3>1. other \in RowsOfManifests
      BY <2>2 DEF RowsOfManifests
    <3>2. other.object = row.object
      BY <2>2
    <3> QED BY <3>1, <3>2
  <2> QED BY <1>2, <2>3
<1>8. ASSUME NEW row \in RowsOfManifests PROVE ~Pending(row)
  BY <1>1, <1>5 DEF Pending
<1> QED BY <1>4, <1>6, <1>7, <1>8 DEF RebuiltIndex

-----------------------------------------------------------------------------
(* Every step keeps the invariant. *)

LEMMA StepsKeepConsistency == IInv /\ [Next]_vars => IInv'
<1> SUFFICES ASSUME IInv, [Next]_vars PROVE IInv'
  OBVIOUS
<1> USE QuotaAssumption, CacheAssumption DEF IInv
<1>a. /\ \A k \in Keys : manifests[k].archive \in Archives \cup {None}
      /\ \A row \in index : row.object \in Archives \cup LegacyKeys /\ row.manifest \in Keys \cup {None}
      /\ \A r \in Runners, n \in Names : uploads[r][n] \in Archives \cup {None}
      /\ \A a \in Archives : a \in Objects /\ a # None /\ a \notin LegacyKeys
      /\ None \notin Keys
  BY Fields
<1>1. ASSUME NEW r \in Runners, Assign(r) PROVE IInv'
  <2>1. TypeOK'
    BY <1>1 DEF Assign, TypeOK, quotaVars, Operation
  <2>2. Uploaded' /\ Named'
    BY <1>1 DEF Assign, quotaVars, Uploaded, Named, Present
  <2>3. Requested'
    BY <1>1 DEF Assign, quotaVars, Requested, Issued
  <2>4. Counted'
    BY <1>1 DEF Assign, quotaVars, Counted, CountedIn, Present
  <2>5. Unlisted'
    BY <1>1 DEF Assign, quotaVars, Unlisted, Pending, EntryOf, Present, Recording, Interrupted
  <2>6. Victims'
    BY <1>1 DEF Assign, quotaVars, Victims
  <2> QED BY <2>1, <2>2, <2>3, <2>4, <2>5, <2>6 DEF IInv
<1>2. ASSUME NEW a \in Archives, CreateUpload(a) PROVE IInv'
  <2>1. PICK n \in Names :
        LET key == [scope |-> ScopeOf[Resolve(Uploader[a])], name |-> n] IN
        /\ sessions' = [sessions EXCEPT ![a] =
              [stage |-> "open", parts |-> 0, job |-> Resolve(Uploader[a]), key |-> key]]
        /\ uploads' = [uploads EXCEPT ![Uploader[a]][n] = a]
    BY <1>2 DEF CreateUpload
  <2>2. /\ Resolve(Uploader[a]) \in Jobs /\ sessions[a].stage = "none"
        /\ UNCHANGED <<quotaVars, returned, assigned>>
    BY <1>2 DEF CreateUpload
  <2>3. PICK key \in Keys : sessions' = [sessions EXCEPT ![a] =
              [stage |-> "open", parts |-> 0, job |-> Resolve(Uploader[a]), key |-> key]]
    BY <2>1, <2>2
  <2>4. /\ sessions' \in [Archives -> Session]
        /\ sessions'[a].stage = "open" /\ sessions'[a].key # None
        /\ \A b \in Archives : b # a => sessions'[b] = sessions[b]
    BY <2>2, <2>3 DEF TypeOK, Session
  <2>5. TypeOK'
    BY <2>1, <2>2, <2>4 DEF TypeOK, quotaVars, Operation
  <2>6. Uploaded'
    <3>1. \A b \in Archives : Present(b)' => b # a /\ Present(b)
      BY <2>2 DEF quotaVars, Uploaded, Present
    <3>2. ASSUME NEW r \in Runners, NEW m \in Names, uploads'[r][m] # None
          PROVE  sessions'[uploads'[r][m]].key # None
      BY <2>1, <2>4, <3>2 DEF TypeOK, Uploaded
    <3> QED BY <2>2, <2>4, <3>1, <3>2 DEF quotaVars, Uploaded
  <2>7. Named'
    BY <1>a, <2>2, <2>4 DEF quotaVars, Named
  <2>8. Requested'
    BY <2>2, <2>4 DEF quotaVars, Requested, Issued
  <2>9. Counted'
    BY <1>a, <2>2, <2>4 DEF quotaVars, Counted, CountedIn, Present
  <2>10. Unlisted' /\ Victims'
    BY <2>2 DEF quotaVars, Unlisted, Pending, EntryOf, Present, Recording, Interrupted, Victims
  <2> QED BY <2>1, <2>2, <2>3, <2>4, <2>5, <2>6, <2>7, <2>8, <2>9, <2>10 DEF IInv
<1>3. ASSUME NEW a \in Archives, UploadPart(a) PROVE IInv'
  <2>1. /\ sessions' \in [Archives -> Session]
        /\ sessions[a].stage = "open" /\ sessions'[a].key = sessions[a].key
        /\ \A b \in Archives : b # a => sessions'[b] = sessions[b]
        /\ UNCHANGED <<quotaVars, uploads, returned, assigned>>
    <3>1. /\ sessions' = [sessions EXCEPT ![a].parts = @ + 1] /\ sessions[a].stage = "open"
          /\ UNCHANGED <<quotaVars, uploads, returned, assigned>>
      BY <1>3 DEF UploadPart, SendsPart
    <3>2. sessions \in [Archives -> Session] /\ sessions[a] \in Session
      BY DEF TypeOK
    <3>3. sessions' = [sessions EXCEPT ![a] = [sessions[a] EXCEPT !.parts = @ + 1]]
      BY <3>1
    <3>4. /\ [sessions[a] EXCEPT !.parts = @ + 1] \in Session
          /\ [sessions[a] EXCEPT !.parts = @ + 1].key = sessions[a].key
      BY <3>2 DEF Session
    <3> QED BY <3>1, <3>2, <3>3, <3>4
  <2>2. TypeOK'
    BY <2>1 DEF TypeOK, quotaVars, Operation
  <2>3. Uploaded'
    BY <1>a, <2>1 DEF quotaVars, Uploaded, Present
  <2>4. Named'
    BY <1>a, <2>1 DEF quotaVars, Named
  <2>5. Requested'
    BY <2>1 DEF quotaVars, Requested, Issued
  <2>6. Counted'
    BY <1>a, <2>1 DEF quotaVars, Counted, CountedIn, Present
  <2>7. Unlisted' /\ Victims'
    BY <2>1 DEF quotaVars, Unlisted, Pending, EntryOf, Present, Recording, Interrupted, Victims
  <2> QED BY <2>1, <2>2, <2>3, <2>4, <2>5, <2>6, <2>7 DEF IInv
<1>4. ASSUME NEW a \in Archives, CompleteUpload(a) PROVE IInv'
  <2>1. /\ sessions' \in [Archives -> Session]
        /\ sessions[a].stage = "open" /\ sessions'[a].stage = "complete"
        /\ sessions'[a].key = sessions[a].key /\ sessions'[a].parts = sessions[a].parts
        /\ \A b \in Archives : b # a => sessions'[b] = sessions[b]
    <3>1. sessions' = [sessions EXCEPT ![a].stage = "complete"] /\ sessions[a].stage = "open"
      BY <1>4 DEF CompleteUpload
    <3>2. sessions \in [Archives -> Session] /\ sessions[a] \in Session
      BY DEF TypeOK
    <3>3. sessions' = [sessions EXCEPT ![a] = [sessions[a] EXCEPT !.stage = "complete"]]
      BY <3>1
    <3>4. /\ [sessions[a] EXCEPT !.stage = "complete"] \in Session
          /\ [sessions[a] EXCEPT !.stage = "complete"].stage = "complete"
          /\ [sessions[a] EXCEPT !.stage = "complete"].key = sessions[a].key
          /\ [sessions[a] EXCEPT !.stage = "complete"].parts = sessions[a].parts
      BY <3>2 DEF Session
    <3> QED BY <3>1, <3>2, <3>3, <3>4
  <2>2. /\ objects' \in [Objects -> Object]
        /\ objects'[a].size = sessions[a].parts
        /\ \A o \in Objects : o # a => objects'[o] = objects[o]
    BY <1>4 DEF CompleteUpload, TypeOK, Session, Object, Objects
  <2>3. UNCHANGED <<manifests, index, indexReady, calls, clock, interrupts, uploads, returned, assigned>>
    BY <1>4 DEF CompleteUpload
  <2>4. TypeOK'
    BY <2>1, <2>2, <2>3 DEF TypeOK, Operation
  <2>5. Uploaded'
    BY <1>a, <2>1, <2>2, <2>3 DEF Uploaded, Present
  <2>6. Named'
    BY <1>a, <2>1, <2>3 DEF Named
  <2>7. Requested'
    BY <2>1, <2>3 DEF Requested, Issued
  <2>8. Counted'
    BY <1>a, <2>1, <2>2, <2>3 DEF Counted, CountedIn, Present
  <2>9. Unlisted'
    <3>1. \A k \in Keys : EntryOf(k)' = EntryOf(k)
      BY <1>a, <2>1, <2>2, <2>3 DEF Named, EntryOf, Present
    <3> QED BY <2>3, <3>1 DEF Unlisted, Pending, Recording, Interrupted
  <2>10. Victims'
    BY <2>3 DEF Victims
  <2> QED BY <2>1, <2>2, <2>3, <2>4, <2>5, <2>6, <2>7, <2>8, <2>9, <2>10 DEF IInv
<1>5. ASSUME NEW c \in Calls, Finalize(c) PROVE IInv'
  <2>1. /\ c[1] \in Archives /\ sessions[c[1]].stage = "complete"
        /\ sessions[c[1]].key \in Keys /\ objects[c[1]].size = sessions[c[1]].parts
        /\ objects[c[1]].size \in Nat
    <3>1. c[1] \in Archives /\ Present(c[1]) /\ Holds(c)
      BY <1>5 DEF Finalize
    <3>2. PICK n \in Names : uploads[Uploader[c[1]]][n] = c[1]
      BY <3>1 DEF Holds
    <3>3. sessions[c[1]].key # None
      BY <3>1, <3>2 DEF Uploaded
    <3> QED BY <3>1, <3>3 DEF TypeOK, Session, Object, Objects, Uploaded
  <2>2. /\ calls' \in [Calls -> Call]
        /\ calls'[c].pc = "waiting" /\ calls'[c].key = sessions[c[1]].key
        /\ calls'[c].size = objects[c[1]].size
        /\ \A d \in Calls : d # c => calls'[d] = calls[d]
    BY <1>5, <2>1 DEF Finalize, TypeOK, NoCall, Call
  <2>3. /\ UNCHANGED <<objects, manifests, index, indexReady, interrupts, sessions, uploads, returned, assigned>>
        /\ calls[c].pc = "idle" /\ clock' = clock + 1
    BY <1>5 DEF Finalize, NextCall, Issued
  <2>4. TypeOK'
    BY <2>2, <2>3 DEF TypeOK, Operation, Operating
  <2>5. Uploaded' /\ Named'
    BY <2>3 DEF Uploaded, Named, Present
  <2>6. Requested'
    BY <2>1, <2>2, <2>3 DEF Requested, Issued
  <2>7. Counted'
    BY <2>3 DEF Counted, CountedIn, Present
  <2>8. Unlisted'
    <3>1. \A a \in Archives : Recording(a) \/ Interrupted(a) => Recording(a)' \/ Interrupted(a)'
      BY <2>2, <2>3 DEF Recording, Interrupted
    <3> QED BY <2>3, <3>1 DEF Unlisted, Pending, EntryOf, Present
  <2>9. Victims'
    BY <2>2, <2>3 DEF Victims
  <2> QED BY <2>1, <2>2, <2>3, <2>4, <2>5, <2>6, <2>7, <2>8, <2>9 DEF IInv
<1>6. ASSUME NEW c \in Calls, Return(c) PROVE IInv'
  <2>1. TypeOK'
    BY <1>6 DEF Return, TypeOK, quotaVars, Operation
  <2>2. Uploaded'
    BY <1>6 DEF Return, quotaVars, TypeOK, Uploaded, Present
  <2>3. Named'
    BY <1>6 DEF Return, quotaVars, Named, Present
  <2>4. Requested'
    BY <1>6 DEF Return, quotaVars, Requested, Issued
  <2>5. Counted'
    BY <1>6 DEF Return, quotaVars, Counted, CountedIn, Present
  <2>6. Unlisted'
    BY <1>6 DEF Return, quotaVars, Unlisted, Pending, EntryOf, Present, Recording, Interrupted
  <2>7. Victims'
    BY <1>6 DEF Return, quotaVars, Victims
  <2> QED BY <2>1, <2>2, <2>3, <2>4, <2>5, <2>6, <2>7 DEF IInv
<1>7. ASSUME NEW c \in Calls, LegacyPut(c) PROVE IInv'
  <2>1. PICK size \in Nat :
        /\ objects' = [objects EXCEPT ![c[1]] = [size |-> size, at |-> clock]]
        /\ calls' = [calls EXCEPT ![c] = [NoCall EXCEPT !.pc = "waiting", !.size = size, !.created = clock]]
    <3>1. Sizes[c[1]] \subseteq Nat
      BY CallNames
    <3> QED BY <1>7, <3>1 DEF LegacyPut
  <2>2. /\ calls' \in [Calls -> Call] /\ calls'[c].pc = "waiting"
        /\ \A d \in Calls : d # c => calls'[d] = calls[d]
    BY <2>1 DEF TypeOK, NoCall, Call
  <2>3. /\ objects' \in [Objects -> Object]
        /\ c[1] \notin Archives /\ \A a \in Archives : objects'[a] = objects[a]
    <3>1. c[1] \notin Archives
      BY <1>7, CallNames DEF LegacyPut
    <3> QED BY <2>1, <3>1 DEF TypeOK, Object, Objects
  <2>4. /\ UNCHANGED <<manifests, index, indexReady, interrupts, sessions, uploads, returned, assigned>>
        /\ calls[c].pc = "idle" /\ clock' = clock + 1
    BY <1>7 DEF LegacyPut, NextCall, Issued
  <2>5. TypeOK'
    BY <2>2, <2>3, <2>4 DEF TypeOK, Operation, Operating
  <2>6. Uploaded' /\ Named'
    BY <2>3, <2>4 DEF Uploaded, Named, Present
  <2>7. Requested'
    BY <2>2, <2>3, <2>4 DEF Requested, Issued
  <2>8. Counted'
    <3>1. \A row \in index : row.manifest # None => row.object \in Archives
      BY DEF TypeOK, Row, Objects, Counted, CountedIn
    <3> QED BY <2>3, <2>4, <3>1 DEF Counted, CountedIn, Present
  <2>9. Unlisted'
    <3>1. \A a \in Archives : Recording(a) \/ Interrupted(a) => Recording(a)' \/ Interrupted(a)'
      BY <2>2, <2>4 DEF Recording, Interrupted
    <3>2. \A k \in Keys : EntryOf(k)' = EntryOf(k)
      BY <2>3, <2>4 DEF TypeOK, Manifest, EntryOf, Present
    <3> QED BY <2>4, <3>1, <3>2 DEF Unlisted, Pending
  <2>10. Victims'
    BY <2>2, <2>4 DEF Victims
  <2> QED BY <2>1, <2>2, <2>3, <2>4, <2>5, <2>6, <2>7, <2>8, <2>9, <2>10 DEF IInv
<1>8. ASSUME NEW c \in Calls, Begin(c), UNCHANGED protocolVars PROVE IInv'
  <2>1. /\ \A d \in Calls : d # c => ~Operation(d)
        /\ calls[c].pc = "waiting" /\ Issued(c)
        /\ UNCHANGED <<objects, manifests, indexReady, clock, interrupts, sessions, uploads, returned, assigned>>
        /\ indexReady' \in BOOLEAN
    BY <1>8 DEF Begin, Free, Issued, protocolVars, TypeOK
  <2>2. CASE indexReady
    <3>1. \A row \in index : Pending(row) => Interrupted(row.object)
      BY <1>8 DEF Begin, Free, Unlisted, Recording, Operation, Operating
    <3>2. index \in SUBSET Row /\ CountedIn(index) /\ Perform(c, index)
      BY <1>8, <2>2 DEF TypeOK, Counted, Begin
    <3> QED BY <2>1, <3>1, <3>2, PerformingKeepsConsistency
  <2>3. CASE ~indexReady
    <3>1. calls' = Moved(c, "index") /\ index' = index
      BY <1>8, <2>3 DEF Begin
    <3> QED BY <2>1, <3>1, MovingKeepsConsistency
  <2> QED BY <2>2, <2>3
<1>9. ASSUME NEW c \in Calls, EnsureIndex(c), UNCHANGED protocolVars PROVE IInv'
  <2>1. Operation(c) /\ calls[c].pc = "index"
    BY <1>9 DEF EnsureIndex, Operation, Operating
  <2>2. \A d \in Calls : d # c => ~Operation(d)
    BY <2>1, Alone
  <2>3. /\ Perform(c, RebuiltIndex) /\ indexReady' \in BOOLEAN
        /\ UNCHANGED <<objects, manifests, clock, interrupts, sessions, uploads, returned, assigned>>
    BY <1>9 DEF EnsureIndex, protocolVars
  <2> QED BY <2>1, <2>2, <2>3, RebuiltRows, PerformingKeepsConsistency
<1>10. ASSUME NEW c \in Calls, PutManifest(c), UNCHANGED protocolVars PROVE IInv'
  <2>1. /\ calls[c].pc = "put" /\ Operation(c) /\ Issued(c)
        /\ UNCHANGED <<objects, index, indexReady, clock, interrupts, sessions, uploads, returned, assigned>>
    BY <1>10 DEF PutManifest, Operation, Operating, Issued, protocolVars
  <2>2. \A d \in Calls : d # c => ~Operation(d)
    BY <2>1, Alone
  <2>3. /\ c[1] \in Archives /\ calls[c].size <= MaxBytes /\ sessions[c[1]].stage = "complete"
        /\ calls[c].key \in Keys /\ calls[c].key = sessions[c[1]].key
        /\ calls[c].size = sessions[c[1]].parts
    BY <2>1 DEF Requested, TypeOK, Call
  <2>4. CASE manifests[calls[c].key] = NoManifest
    <3>1. /\ calls' \in [Calls -> Call]
          /\ calls'[c].pc = "record"
          /\ calls'[c].key = calls[c].key /\ calls'[c].size = calls[c].size
          /\ \A d \in Calls : d # c => calls'[d] = calls[d]
      BY <1>10, <2>4, Moving DEF PutManifest, TypeOK, Operating
    <3>2. /\ manifests' \in [Keys -> Manifest]
          /\ manifests'[calls[c].key].archive = c[1]
          /\ \A k \in Keys : k # calls[c].key => manifests'[k] = manifests[k]
      <4> DEFINE new == [archive |-> c[1], created |-> calls[c].created]
      <4>1. new \in Manifest /\ new.archive = c[1]
        BY <2>3 DEF TypeOK, Manifest, Call
      <4>2. manifests' = [manifests EXCEPT ![calls[c].key] = new]
        BY <1>10, <2>4 DEF PutManifest
      <4> HIDE DEF new
      <4> QED BY <2>3, <4>1, <4>2 DEF TypeOK
    <3>3. manifests[calls[c].key].archive = None /\ c[1] # None
      BY <2>3, <2>4 DEF NoManifest, Objects
    <3>4. TypeOK'
      <4>1. \A d \in Calls : d # c => ~Operation(d)'
        BY <2>2, <3>1 DEF Operation
      <4> QED BY <2>1, <3>1, <3>2, <4>1 DEF TypeOK
    <3>5. Uploaded'
      BY <2>1 DEF Uploaded, Present
    <3>6. Named'
      <4>1. \A k \in Keys : manifests[k].archive = c[1] => k = calls[c].key
        BY <2>3, <3>3 DEF Named
      <4> QED BY <2>1, <2>3, <3>2, <3>3, <4>1 DEF Named
    <3>7. Requested'
      BY <2>1, <2>2, <2>3, <3>1, <3>2 DEF Requested, Issued, Operation, Operating
    <3>8. Counted'
      <4>1. ASSUME NEW row \in index, row.manifest # None, manifests'[row.manifest].archive # row.object
            PROVE  ~Present(row.object)
        <5>1. row.object # None /\ row.manifest \in Keys
          BY <4>1, Fields DEF Objects
        <5>2. manifests[row.manifest].archive # row.object
          BY <3>2, <3>3, <4>1, <5>1
        <5> QED BY <4>1, <5>2 DEF Counted, CountedIn
      <4>2. ASSUME NEW row \in index, row.manifest # None, NEW j \in Keys, manifests'[j].archive = row.object
            PROVE  j = row.manifest
        BY <2>3, <3>2, <4>2 DEF Counted, CountedIn
      <4> QED BY <2>1, <4>1, <4>2 DEF Counted, CountedIn, Present
    <3>9. Unlisted'
      <4>1. \A a \in Archives : Recording(a) \/ Interrupted(a) => Recording(a)' \/ Interrupted(a)'
        BY <2>1, <3>1 DEF Recording, Interrupted
      <4>2. Recording(c[1])'
        BY <3>1 DEF Recording
      <4>3. ASSUME NEW k \in Keys, k # calls[c].key PROVE EntryOf(k)' = EntryOf(k)
        <5>1. manifests'[k].archive = manifests[k].archive
          BY <3>2, <4>3
        <5> QED BY <2>1, <5>1 DEF EntryOf, Present
      <4>4. \A k \in Keys : k = calls[c].key => EntryOf(k)' \in {c[1], None}
        BY <2>1, <3>2 DEF EntryOf, Present
      <4> QED BY <2>1, <2>3, <4>1, <4>2, <4>3, <4>4 DEF Unlisted, Pending, Objects
    <3>10. Victims'
      BY <2>1, <3>1 DEF Victims
    <3> QED BY <3>4, <3>5, <3>6, <3>7, <3>8, <3>9, <3>10 DEF IInv
  <2>5. CASE manifests[calls[c].key] # NoManifest
    <3>1. calls' = Moved(c, "compare") /\ UNCHANGED manifests
      BY <1>10, <2>5 DEF PutManifest
    <3> QED BY <2>1, <2>2, <2>3, <3>1, MovingKeepsConsistency
  <2> QED BY <2>4, <2>5
<1>11. ASSUME NEW c \in Calls, RecordEntry(c), UNCHANGED protocolVars PROVE IInv'
  <2> DEFINE kept == WithoutEntry(index, c[1])
             new == [object |-> c[1], manifest |-> calls[c].key,
                     size |-> calls[c].size, created |-> calls[c].created]
  <2>1. /\ calls[c].pc = "record" /\ Operation(c) /\ Issued(c) /\ indexReady' \in BOOLEAN
        /\ EnforceQuota(c, WithRow(kept, new))
        /\ UNCHANGED <<objects, manifests, clock, interrupts, sessions, uploads, returned, assigned>>
    BY <1>11 DEF RecordEntry, Operation, Operating, Issued, protocolVars, TypeOK
  <2>2. \A d \in Calls : d # c => ~Operation(d)
    BY <2>1, Alone
  <2>3. /\ c[1] \in Archives /\ sessions[c[1]].stage = "complete"
        /\ calls[c].key \in Keys /\ calls[c].key = sessions[c[1]].key
        /\ manifests[calls[c].key].archive = c[1]
    BY <2>1 DEF Requested, TypeOK, Call
  <2>4. new \in Row /\ new.object = c[1] /\ new.manifest = calls[c].key /\ new.manifest # None
    BY <2>3 DEF TypeOK, Call, Row, Objects
  <2>5. kept \in SUBSET Row /\ \A row \in kept : row \in index /\ EntryKey(row) # c[1]
    BY DEF WithoutEntry, TypeOK
  <2>6. /\ WithRow(kept, new) \in SUBSET Row
        /\ \A row \in WithRow(kept, new) : row = new \/ (row \in kept /\ EntryKey(row) # calls[c].key)
    <3>1. EntryKey(new) = calls[c].key
      BY <2>4 DEF EntryKey
    <3> QED BY <2>4, <2>5, <3>1, Rows
  <2> HIDE DEF kept, new
  <2>7. CountedIn(WithRow(kept, new))
    <3>1. \A row \in kept : row.manifest # None => EntryKey(row) = row.manifest
      BY DEF EntryKey
    <3>2. \A j \in Keys : manifests[j].archive = c[1] => j = calls[c].key
      BY <2>3 DEF Named, Objects
    <3>3. c[1] \notin LegacyKeys
      BY <2>3
    <3> QED BY <2>3, <2>4, <2>5, <2>6, <3>1, <3>2, <3>3 DEF Counted, CountedIn
  <2>8. ASSUME NEW row \in WithRow(kept, new), Pending(row) PROVE Interrupted(row.object)
    <3>1. row \in index /\ row.object # c[1]
      BY <2>4, <2>5, <2>6, <2>8 DEF Pending, EntryKey
    <3>2. ~Recording(row.object)
      BY <2>2, <3>1 DEF Recording, Operation, Operating
    <3> QED BY <2>8, <3>1, <3>2 DEF Unlisted
  <2> QED BY <2>1, <2>2, <2>6, <2>7, <2>8, EnforcingKeepsConsistency
<1>12. ASSUME NEW c \in Calls, CompareManifest(c), UNCHANGED protocolVars PROVE IInv'
  <2>1. /\ calls[c].pc = "compare" /\ Operation(c) /\ Issued(c) /\ c[1] \in Archives
        /\ UNCHANGED <<objects, manifests, index, indexReady, clock, interrupts, sessions, uploads, returned, assigned>>
    BY <1>12 DEF CompareManifest, Operation, Operating, Issued, protocolVars, Requested
  <2>2. \A d \in Calls : d # c => ~Operation(d)
    BY <2>1, Alone
  <2>3. CASE manifests[calls[c].key].archive = c[1]
    <3>1. calls' = Moved(c, "stored")
      BY <1>12, <2>3 DEF CompareManifest
    <3> QED BY <2>1, <2>2, <3>1, MovingKeepsConsistency
  <2>4. CASE manifests[calls[c].key].archive # c[1]
    <3>1. calls' = Moved(c, "discard")
      BY <1>12, <2>4 DEF CompareManifest
    <3> QED BY <2>1, <2>2, <2>4, <3>1, MovingKeepsConsistency
  <2> QED BY <2>3, <2>4
<1>13. ASSUME NEW c \in Calls, DiscardArchive(c), UNCHANGED protocolVars PROVE IInv'
  <2>1. /\ calls[c].pc = "discard" /\ Operation(c) /\ Issued(c) /\ c[1] \in Archives
        /\ UNCHANGED <<manifests, index, indexReady, clock, interrupts, sessions, uploads, returned, assigned>>
    BY <1>13 DEF DiscardArchive, Operation, Operating, Issued, protocolVars, Requested
  <2>2. \A d \in Calls : d # c => ~Operation(d)
    BY <2>1, Alone
  <2>3. /\ objects' \in [Objects -> Object] /\ objects'[c[1]].size = 0
        /\ \A o \in Objects : o # c[1] => objects'[o] = objects[o]
    BY <1>13, <2>1 DEF DiscardArchive, TypeOK, Object, Objects, Absent
  <2>4. \A o \in Objects : Present(o)' => Present(o) /\ objects'[o] = objects[o]
    BY <2>3 DEF Present
  <2>5. /\ calls' \in [Calls -> Call]
        /\ calls'[c].pc = "forget"
        /\ calls'[c].key = calls[c].key /\ calls'[c].size = calls[c].size
        /\ \A d \in Calls : d # c => calls'[d] = calls[d]
    BY <1>13, Moving DEF DiscardArchive, TypeOK, Operating
  <2>6. TypeOK'
    <3>1. \A d \in Calls : d # c => ~Operation(d)'
      BY <2>2, <2>5 DEF Operation
    <3> QED BY <2>1, <2>3, <2>5, <3>1 DEF TypeOK
  <2>7. Uploaded'
    BY <2>1, <2>4 DEF Uploaded, Objects
  <2>8. Named'
    BY <2>1 DEF Named
  <2>9. Requested'
    BY <2>1, <2>5 DEF Requested, Issued
  <2>10. Counted'
    BY <2>1, <2>4 DEF Counted, CountedIn, TypeOK, Row
  <2>11. Unlisted'
    <3>1. \A a \in Archives : Recording(a) \/ Interrupted(a) => Recording(a)' \/ Interrupted(a)'
      BY <2>1, <2>5 DEF Recording, Interrupted
    <3>2. \A k \in Keys : EntryOf(k)' # None => EntryOf(k)' = EntryOf(k)
      BY <2>1, <2>4 DEF EntryOf, TypeOK, Manifest, Objects
    <3> QED BY <2>1, <3>1, <3>2 DEF Unlisted, Pending, Objects
  <2>12. Victims'
    BY <2>1, <2>5 DEF Victims
  <2> QED BY <2>6, <2>7, <2>8, <2>9, <2>10, <2>11, <2>12 DEF IInv
<1>14. ASSUME NEW c \in Calls, ForgetPending(c), UNCHANGED protocolVars PROVE IInv'
  <2>1. /\ calls[c].pc = "forget" /\ Operation(c) /\ Issued(c)
        /\ UNCHANGED <<objects, manifests, indexReady, clock, interrupts, sessions, uploads, returned, assigned>>
        /\ index' \subseteq index
    BY <1>14 DEF ForgetPending, Operation, Operating, Issued, protocolVars, WithoutEntry
  <2>2. \A d \in Calls : d # c => ~Operation(d)
    BY <2>1, Alone
  <2>3. /\ calls' \in [Calls -> Call]
        /\ calls'[c].pc \in {"too-large", "already-exists"}
        /\ calls'[c].key = calls[c].key /\ calls'[c].size = calls[c].size
        /\ \A d \in Calls : d # c => calls'[d] = calls[d]
    BY <1>14, Moving DEF ForgetPending, TypeOK, Answers
  <2>4. TypeOK'
    <3>1. \A d \in Calls : d # c => ~Operation(d)'
      BY <2>2, <2>3 DEF Operation
    <3> QED BY <2>1, <2>3, <3>1 DEF TypeOK
  <2>5. Uploaded' /\ Named'
    BY <2>1 DEF Uploaded, Named, Present
  <2>6. Requested'
    BY <2>1, <2>3 DEF Requested, Issued
  <2>7. Counted'
    BY <2>1 DEF Counted, CountedIn, Present
  <2>8. Unlisted'
    <3>1. \A a \in Archives : Recording(a) \/ Interrupted(a) => Recording(a)' \/ Interrupted(a)'
      BY <2>1, <2>3 DEF Recording, Interrupted
    <3> QED BY <2>1, <3>1 DEF Unlisted, Pending, EntryOf, Present
  <2>9. Victims'
    BY <2>2, <2>3 DEF Victims, Operation, Operating
  <2> QED BY <2>4, <2>5, <2>6, <2>7, <2>8, <2>9 DEF IInv
<1>15. ASSUME NEW c \in Calls, Evict(c), UNCHANGED protocolVars PROVE IInv'
  <2>1. /\ calls[c].pc = "evict" /\ Operation(c) /\ Issued(c)
        /\ UNCHANGED <<index, indexReady, clock, interrupts, sessions, uploads, returned, assigned>>
    BY <1>15 DEF Evict, Operation, Operating, Issued, protocolVars
  <2>2. \A d \in Calls : d # c => ~Operation(d)
    BY <2>1, Alone
  <2>3. PICK victim \in index : victim = calls[c].victim /\ victim \in Row /\ victim.object \in Objects
    BY <2>1 DEF Victims, TypeOK, Row
  <2>4. /\ objects' \in [Objects -> Object] /\ ~Present(victim.object)'
        /\ \A o \in Objects : Present(o)' => Present(o) /\ objects'[o] = objects[o]
    <3>1. Absent \in Object /\ Absent.size = 0
      BY DEF Absent, Object
    <3>2. objects \in [Objects -> Object] /\ objects' = [objects EXCEPT ![victim.object] = Absent]
      BY <1>15, <2>3 DEF Evict, TypeOK
    <3>3. /\ objects' \in [Objects -> Object] /\ objects'[victim.object].size = 0
          /\ \A o \in Objects : o # victim.object => objects'[o] = objects[o]
      BY <2>3, <3>1, <3>2
    <3> QED BY <3>3 DEF Present
  <2>5. /\ manifests' \in [Keys -> Manifest]
        /\ \A k \in Keys : k = victim.manifest => manifests'[k].archive = None
        /\ \A k \in Keys : k # victim.manifest => manifests'[k] = manifests[k]
    BY <1>15, <2>3 DEF Evict, TypeOK, Manifest, NoManifest
  <2>6. /\ calls' \in [Calls -> Call]
        /\ calls'[c].pc = "evicted" /\ calls'[c].victim = victim
        /\ calls'[c].key = calls[c].key /\ calls'[c].size = calls[c].size
        /\ \A d \in Calls : d # c => calls'[d] = calls[d]
    BY <1>15, <2>3, Moving DEF Evict, TypeOK, Operating
  <2>7. TypeOK'
    <3>1. \A d \in Calls : d # c => ~Operation(d)'
      BY <2>2, <2>6 DEF Operation
    <3> QED BY <2>1, <2>4, <2>5, <2>6, <3>1 DEF TypeOK
  <2>8. Uploaded'
    BY <2>1, <2>4 DEF Uploaded, Objects
  <2>9. Named'
    BY <2>1, <2>5 DEF Named
  <2>10. Requested'
    BY <2>1, <2>2, <2>6 DEF Requested, Issued, Operation, Operating
  <2>11. Counted'
    <3>1. ASSUME NEW row \in index, row.manifest # None, manifests'[row.manifest].archive # row.object
          PROVE  ~Present(row.object)'
      <4>1. CASE row.manifest = victim.manifest
        <5>1. row = victim
          BY <2>3, <3>1, <4>1 DEF Counted, CountedIn
        <5> QED BY <2>4, <5>1
      <4>2. CASE row.manifest # victim.manifest
        BY <2>4, <2>5, <3>1, <4>2 DEF Counted, CountedIn, TypeOK, Row
      <4> QED BY <4>1, <4>2
    <3>2. ASSUME NEW row \in index, row.manifest # None, NEW j \in Keys, manifests'[j].archive = row.object
          PROVE  j = row.manifest
      BY <2>5, <3>2 DEF Counted, CountedIn, TypeOK, Row
    <3> QED BY <2>1, <3>1, <3>2 DEF Counted, CountedIn
  <2>12. Unlisted'
    <3>1. \A a \in Archives : Recording(a) \/ Interrupted(a) => Recording(a)' \/ Interrupted(a)'
      BY <2>1, <2>6 DEF Recording, Interrupted
    <3>2. \A k \in Keys : EntryOf(k)' # None => EntryOf(k)' = EntryOf(k)
      <4>1. ASSUME NEW k \in Keys, EntryOf(k)' # None
            PROVE  manifests'[k] = manifests[k] /\ manifests[k].archive \in Objects /\ Present(manifests[k].archive)'
        BY <1>a, <2>5, <4>1 DEF EntryOf
      <4> QED BY <2>4, <4>1 DEF EntryOf
    <3> QED BY <2>1, <3>1, <3>2 DEF Unlisted, Pending, Objects
  <2>13. Victims'
    BY <2>1, <2>3, <2>6 DEF Victims
  <2> QED BY <2>7, <2>8, <2>9, <2>10, <2>11, <2>12, <2>13 DEF IInv
<1>16. ASSUME NEW c \in Calls, DropEvicted(c), UNCHANGED protocolVars PROVE IInv'
  <2> DEFINE kept == WithoutEntry(index, EntryKey(calls[c].victim))
  <2>1. /\ calls[c].pc = "evicted" /\ Operation(c) /\ Issued(c) /\ indexReady' \in BOOLEAN
        /\ EnforceQuota(c, kept)
        /\ UNCHANGED <<objects, manifests, clock, interrupts, sessions, uploads, returned, assigned>>
    BY <1>16 DEF DropEvicted, Operation, Operating, Issued, protocolVars, TypeOK
  <2>2. \A d \in Calls : d # c => ~Operation(d)
    BY <2>1, Alone
  <2>3. kept \subseteq index /\ kept \in SUBSET Row
    BY DEF WithoutEntry, TypeOK
  <2> HIDE DEF kept
  <2>4. CountedIn(kept)
    BY <2>3 DEF Counted, CountedIn
  <2>5. \A row \in kept : Pending(row) => Interrupted(row.object)
    BY <2>1, <2>2, <2>3 DEF Unlisted, Recording, Operation, Operating
  <2> QED BY <2>1, <2>2, <2>3, <2>4, <2>5, EnforcingKeepsConsistency
<1>17. ASSUME NEW c \in Calls, Interrupt(c), UNCHANGED protocolVars PROVE IInv'
  <2>1. /\ Operation(c) /\ Issued(c) /\ interrupts' = interrupts + 1 /\ interrupts < MaxInterrupts
        /\ UNCHANGED <<objects, manifests, index, indexReady, clock, sessions, uploads, returned, assigned>>
    BY <1>17 DEF Interrupt, Operation, Operating, Issued, protocolVars
  <2>2. \A d \in Calls : d # c => ~Operation(d)
    BY <2>1, Alone
  <2>3. /\ calls' \in [Calls -> Call]
        /\ calls'[c].pc = "failed"
        /\ calls'[c].key = calls[c].key /\ calls'[c].size = calls[c].size
        /\ \A d \in Calls : d # c => calls'[d] = calls[d]
    <3>1. calls \in [Calls -> Call] /\ calls[c] \in Call
      BY DEF TypeOK
    <3>2. calls' = [calls EXCEPT ![c] = [calls[c] EXCEPT !.pc = "failed", !.victim = None]]
      BY <1>17, <3>1 DEF Interrupt
    <3>3. /\ [calls[c] EXCEPT !.pc = "failed", !.victim = None] \in Call
          /\ [calls[c] EXCEPT !.pc = "failed", !.victim = None].pc = "failed"
          /\ [calls[c] EXCEPT !.pc = "failed", !.victim = None].key = calls[c].key
          /\ [calls[c] EXCEPT !.pc = "failed", !.victim = None].size = calls[c].size
      BY <3>1 DEF Call, Answers
    <3> QED BY <3>1, <3>2, <3>3
  <2>4. TypeOK'
    <3>1. \A d \in Calls : d # c => ~Operation(d)'
      BY <2>2, <2>3 DEF Operation
    <3>2. interrupts' \in 0 .. MaxInterrupts
      BY <2>1 DEF TypeOK
    <3> QED BY <2>1, <2>3, <3>1, <3>2 DEF TypeOK
  <2>5. Uploaded' /\ Named'
    BY <2>1 DEF Uploaded, Named, Present
  <2>6. Requested'
    BY <2>1, <2>3 DEF Requested, Issued
  <2>7. Counted'
    BY <2>1 DEF Counted, CountedIn, Present
  <2>8. Unlisted'
    <3>1. \A a \in Archives : Recording(a) \/ Interrupted(a) => Recording(a)' \/ Interrupted(a)'
      BY <2>1, <2>3 DEF Recording, Interrupted
    <3> QED BY <2>1, <3>1 DEF Unlisted, Pending, EntryOf, Present
  <2>9. Victims'
    BY <2>1, <2>3 DEF Victims
  <2> QED BY <2>4, <2>5, <2>6, <2>7, <2>8, <2>9 DEF IInv
<1>18. CASE UNCHANGED vars
  <2>1. TypeOK'
    BY <1>18 DEF vars, quotaVars, TypeOK, Operation
  <2>2. Uploaded' /\ Named'
    BY <1>18 DEF vars, quotaVars, Uploaded, Named, Present
  <2>3. Requested'
    BY <1>18 DEF vars, quotaVars, Requested, Issued
  <2>4. Counted' /\ Victims'
    BY <1>18 DEF vars, quotaVars, Counted, CountedIn, Present, Victims
  <2>5. Unlisted'
    BY <1>18 DEF vars, quotaVars, Unlisted, Pending, EntryOf, Present, Recording, Interrupted
  <2> QED BY <2>1, <2>2, <2>3, <2>4, <2>5 DEF IInv
<1> QED BY <1>1, <1>2, <1>3, <1>4, <1>5, <1>6, <1>7, <1>8, <1>9, <1>10, <1>11, <1>12, <1>13,
           <1>14, <1>15, <1>16, <1>17, <1>18 DEF Next

\* Manifests, rows and calls agree on the archives they name, after every step
\* and at every await of an operation.
THEOREM Consistency == Spec => []IInv
BY InitIsConsistent, StepsKeepConsistency, PTL DEF Spec

\* The index, the bucket, the calls and the sessions keep their types, and the
\* chain runs one operation at a time, whatever ends the operations.
THEOREM CacheTypes == Spec => []TypeOK
<1>1. IInv => TypeOK
  BY DEF IInv
<1> QED BY <1>1, Consistency, PTL

-----------------------------------------------------------------------------
(* What steps do to the entries. *)

Entries == [k \in Keys |-> EntryOf(k)]
Gone == {a \in Archives : sessions[a].stage = "complete" /\ ~Present(a)}

\* Most steps change no manifest, and no archive that is complete.
LEMMA EntriesStay ==
    ASSUME manifests' = manifests,
           \A k \in Keys : manifests[k].archive \in Archives \cup {None},
           \A a \in Archives : objects'[a] = objects[a],
           \A a \in Archives : sessions'[a].stage = "complete" <=> sessions[a].stage = "complete"
    PROVE  Entries' = Entries /\ Gone' = Gone
<1>1. \A k \in Keys : EntryOf(k)' = EntryOf(k)
  BY DEF EntryOf, Present
<1> QED BY <1>1 DEF Entries, Gone, Present

\* A completed archive appears and no entry names it; a commit makes an entry
\* where there was none; a discarded archive has no entry.
LEMMA Completing ==
    ASSUME IInv, NEW a \in Archives, CompleteUpload(a)
    PROVE  Entries' = Entries /\ Gone' = Gone
<1> USE QuotaAssumption DEF IInv
<1>1. /\ \A k \in Keys : manifests[k].archive \in Archives \cup {None}
      /\ a \in Objects /\ a # None
  BY Fields
<1>2. /\ sessions[a].stage = "open" /\ sessions'[a].stage = "complete"
      /\ sessions[a].parts > 0
      /\ \A b \in Archives : b # a => sessions'[b] = sessions[b]
  BY <1>1 DEF CompleteUpload, TypeOK
<1>3. /\ manifests' = manifests /\ objects'[a].size = sessions[a].parts
      /\ \A o \in Objects : o # a => objects'[o] = objects[o]
  BY <1>1 DEF CompleteUpload, TypeOK
<1>4. \A k \in Keys : manifests[k].archive # a
  BY <1>1, <1>2 DEF Named
<1>5. \A k \in Keys : EntryOf(k)' = EntryOf(k)
  BY <1>1, <1>3, <1>4 DEF EntryOf, Present, Objects
<1>6. Gone' = Gone
  BY <1>1, <1>2, <1>3 DEF Gone, Present, Objects
<1> QED BY <1>5, <1>6 DEF Entries

LEMMA Committing ==
    ASSUME IInv, NEW c \in Calls, PutManifest(c), UNCHANGED protocolVars
    PROVE  \/ Entries' = Entries /\ Gone' = Gone
           \/ \E k \in Keys, a \in Archives :
                /\ Entries[k] = None /\ a \notin Gone
                /\ Entries' = [Entries EXCEPT ![k] = a] /\ Gone' = Gone
<1> USE QuotaAssumption DEF IInv
<1>1. /\ \A k \in Keys : manifests[k].archive \in Archives \cup {None}
      /\ \A a \in Archives : a # None
  BY Fields
<1>2. UNCHANGED <<objects, sessions>>
  BY DEF PutManifest, protocolVars
<1>3. Gone' = Gone
  BY <1>2 DEF Gone, Present
<1>4. PICK key \in Keys : key = calls[c].key /\ c[1] \in Archives
  BY DEF PutManifest, Requested, Issued, TypeOK, Call
<1>5. CASE manifests[key] # NoManifest
  BY <1>1, <1>2, <1>4, <1>5, EntriesStay DEF PutManifest
<1>6. CASE manifests[key] = NoManifest
  <2>1. /\ manifests[key].archive = None /\ manifests'[key].archive = c[1]
        /\ \A k \in Keys : k # key => manifests'[k] = manifests[k]
    BY <1>4, <1>6 DEF PutManifest, NoManifest, TypeOK
  <2>2. \A k \in Keys : k # key => EntryOf(k)' = EntryOf(k)
    <3> SUFFICES ASSUME NEW k \in Keys, k # key PROVE EntryOf(k)' = EntryOf(k)
      OBVIOUS
    <3>1. manifests'[k].archive = manifests[k].archive
      BY <2>1
    <3> QED BY <1>2, <3>1 DEF EntryOf, Present
  <2>3. EntryOf(key) = None /\ EntryOf(key)' = IF Present(c[1]) THEN c[1] ELSE None
    BY <1>1, <1>2, <1>4, <2>1 DEF EntryOf, Present
  <2>4. CASE Present(c[1])
    BY <1>3, <1>4, <2>2, <2>3, <2>4 DEF Entries, Gone
  <2>5. CASE ~Present(c[1])
    BY <1>3, <2>2, <2>3, <2>5 DEF Entries
  <2> QED BY <2>4, <2>5
<1> QED BY <1>5, <1>6

LEMMA Discarding ==
    ASSUME IInv, NEW c \in Calls, DiscardArchive(c), UNCHANGED protocolVars
    PROVE  /\ c[1] \in Archives /\ \A k \in Keys : Entries[k] # c[1]
           /\ Entries' = Entries /\ Gone' = Gone \cup {c[1]}
<1> USE QuotaAssumption DEF IInv
<1>1. /\ \A k \in Keys : manifests[k].archive \in Archives \cup {None}
      /\ \A a \in Archives : a \in Objects /\ a # None
  BY Fields
<1>2. /\ c[1] \in Archives /\ sessions[c[1]].stage = "complete"
      /\ calls[c].key = sessions[c[1]].key /\ sessions[c[1]].key # None
      /\ calls[c].size = sessions[c[1]].parts
      /\ calls[c].size > MaxBytes \/ manifests[calls[c].key].archive # c[1]
      /\ calls[c].size \in Nat
  BY DEF DiscardArchive, Requested, Issued, TypeOK, Call
<1>3. \A k \in Keys : manifests[k].archive # c[1]
  BY <1>1, <1>2 DEF Named
<1>4. /\ UNCHANGED <<manifests, sessions>> /\ objects'[c[1]].size = 0
      /\ \A o \in Objects : o # c[1] => objects'[o] = objects[o]
  BY <1>1, <1>2 DEF DiscardArchive, protocolVars, Absent, TypeOK
<1>5. \A k \in Keys : EntryOf(k)' = EntryOf(k) /\ EntryOf(k) # c[1]
  BY <1>1, <1>2, <1>3, <1>4 DEF EntryOf, Present
<1>6. Gone' = Gone \cup {c[1]}
  BY <1>1, <1>2, <1>4 DEF Gone, Present
<1> QED BY <1>2, <1>5, <1>6 DEF Entries

\* An eviction ends one entry at most, with its manifest unless the commit of the
\* entry was interrupted; an archive that has no entry may go as well.
LEMMA Evicting ==
    ASSUME IInv, NEW c \in Calls, Evict(c), UNCHANGED protocolVars
    PROVE  \/ Entries' = Entries /\ Gone' = Gone
           \/ \E a \in Archives :
                /\ \A k \in Keys : Entries[k] # a
                /\ Entries' = Entries /\ Gone' = Gone \cup {a}
           \/ \E k \in Keys :
                /\ Entries[k] # None
                /\ Entries' = [Entries EXCEPT ![k] = None]
                /\ Gone' \in {Gone, Gone \cup {Entries[k]}}
                /\ manifests'[k] = NoManifest \/ Interrupted(Entries[k])
<1> USE QuotaAssumption DEF IInv
<1>1. /\ \A k \in Keys : manifests[k].archive \in Archives \cup {None}
      /\ \A row \in index : row.object \in Archives \cup LegacyKeys /\ row.manifest \in Keys \cup {None}
      /\ \A a \in Archives : a \in Objects /\ a # None /\ a \notin LegacyKeys
      /\ None \notin Keys
  BY Fields
<1>2. calls[c].pc = "evict" /\ Operation(c) /\ UNCHANGED sessions
  BY DEF Evict, Operation, Operating, protocolVars
<1>3. PICK row \in index : row = calls[c].victim /\ row.object \in Objects
  BY <1>1, <1>2 DEF Victims, Objects
<1>4. /\ objects'[row.object].size = 0
      /\ \A o \in Objects : o # row.object => objects'[o] = objects[o]
  BY <1>3 DEF Evict, Absent, TypeOK
<1>5. /\ \A k \in Keys : k # row.manifest => manifests'[k] = manifests[k]
      /\ \A k \in Keys : k = row.manifest => manifests'[k] = NoManifest /\ manifests'[k].archive = None
  BY <1>3 DEF Evict, NoManifest
<1>6. CASE row.object \in LegacyKeys
  <2>1. row.manifest = None /\ row.object \notin Archives
    BY <1>1, <1>6 DEF Counted, CountedIn
  <2>2. manifests' = manifests
    BY <1>1, <1>5, <2>1 DEF Evict, TypeOK
  <2>3. \A a \in Archives : objects'[a] = objects[a]
    BY <1>1, <1>4, <2>1
  <2> QED BY <1>1, <1>2, <2>2, <2>3, EntriesStay
<1>7. CASE row.object \in Archives
  <2>1. sessions[row.object].stage = "complete"
    BY <1>7 DEF Counted, CountedIn
  <2>2. Gone' = Gone \cup {row.object}
    BY <1>1, <1>2, <1>4, <1>7, <2>1 DEF Gone, Present
  <2>3. \A k \in Keys : k # row.manifest /\ EntryOf(k) # row.object => EntryOf(k)' = EntryOf(k)
    <3> SUFFICES ASSUME NEW k \in Keys, k # row.manifest, EntryOf(k) # row.object
                 PROVE  EntryOf(k)' = EntryOf(k)
      OBVIOUS
    <3>1. manifests'[k].archive = manifests[k].archive
      BY <1>5
    <3>2. CASE manifests[k].archive = row.object
      BY <1>1, <1>4, <1>7, <3>1, <3>2 DEF EntryOf, Present
    <3>3. CASE manifests[k].archive # row.object
      BY <1>1, <1>4, <3>1, <3>3 DEF EntryOf, Present
    <3> QED BY <3>2, <3>3
  <2>4. \A k \in Keys : k = row.manifest => EntryOf(k)' = None
    BY <1>5 DEF EntryOf
  <2>5. \A k \in Keys : EntryOf(k) # None => EntryOf(k) = manifests[k].archive
    BY DEF EntryOf
  <2>6. CASE row.manifest # None
    <3>1. row.manifest \in Keys
      BY <1>1, <2>6
    <3>2. \A j \in Keys : EntryOf(j) = row.object => j = row.manifest
      BY <1>1, <1>7, <2>5, <2>6 DEF Counted, CountedIn
    <3>3. CASE EntryOf(row.manifest) = None
      <4>1. \A k \in Keys : EntryOf(k) # row.object /\ EntryOf(k)' = EntryOf(k)
        BY <1>1, <1>7, <2>3, <2>4, <3>2, <3>3
      <4> QED BY <1>7, <2>2, <4>1 DEF Entries
    <3>4. CASE EntryOf(row.manifest) # None
      <4>1. Gone' \in {Gone, Gone \cup {EntryOf(row.manifest)}}
        <5>1. CASE EntryOf(row.manifest) = row.object
          BY <2>2, <5>1
        <5>2. CASE EntryOf(row.manifest) # row.object
          <6>1. ~Present(row.object)
            BY <2>5, <2>6, <3>1, <3>4, <5>2 DEF Counted, CountedIn
          <6> QED BY <1>7, <2>1, <2>2, <6>1 DEF Gone
        <5> QED BY <5>1, <5>2
      <4>2. Entries' = [Entries EXCEPT ![row.manifest] = None]
        BY <2>3, <2>4, <3>1, <3>2 DEF Entries
      <4>3. manifests'[row.manifest] = NoManifest
        BY <1>5, <3>1
      <4>4. Entries[row.manifest] = EntryOf(row.manifest)
        BY <3>1 DEF Entries
      <4> QED BY <3>1, <3>4, <4>1, <4>2, <4>3, <4>4
    <3> QED BY <3>3, <3>4
  <2>7. CASE row.manifest = None
    <3>1. CASE \A k \in Keys : EntryOf(k) # row.object
      <4>1. \A k \in Keys : EntryOf(k)' = EntryOf(k)
        BY <1>1, <2>3, <2>7, <3>1
      <4> QED BY <1>7, <2>2, <3>1, <4>1 DEF Entries
    <3>2. CASE \E k \in Keys : EntryOf(k) = row.object
      <4>1. PICK k \in Keys : EntryOf(k) = row.object
        BY <3>2
      <4>2. \A j \in Keys : EntryOf(j) = row.object => j = k
        BY <1>1, <1>7, <2>5, <4>1 DEF Named
      <4>3. EntryOf(k)' = None
        <5>1. k # row.manifest /\ manifests'[k].archive = row.object
          BY <1>1, <1>5, <1>7, <2>5, <2>7, <4>1
        <5> QED BY <1>4, <5>1 DEF EntryOf, Present
      <4>4. Interrupted(row.object)
        <5>1. Pending(row)
          BY <1>7, <2>7, <4>1 DEF Pending
        <5>2. ~Recording(row.object)
          BY <1>2, Alone DEF Recording, Operation, Operating
        <5> QED BY <5>1, <5>2 DEF Unlisted
      <4>5. Entries' = [Entries EXCEPT ![k] = None] /\ Entries[k] = row.object
        BY <1>1, <2>3, <2>7, <4>1, <4>2, <4>3 DEF Entries
      <4> QED BY <1>1, <1>7, <2>2, <4>4, <4>5
    <3> QED BY <3>1, <3>2
  <2> QED BY <2>6, <2>7
<1> QED BY <1>1, <1>3, <1>6, <1>7

Kept == Entries' = Entries /\ Gone' = Gone
Saved ==
    \E k \in Keys, a \in Archives :
        /\ Entries[k] = None /\ a \notin Gone
        /\ Entries' = [Entries EXCEPT ![k] = a] /\ Gone' = Gone
Discarded ==
    \E a \in Archives :
        /\ \A k \in Keys : Entries[k] # a
        /\ Entries' = Entries /\ Gone' = Gone \cup {a}
Evicted ==
    \E k \in Keys :
        /\ Entries[k] # None
        /\ Entries' = [Entries EXCEPT ![k] = None]
        /\ Gone' \in {Gone, Gone \cup {Entries[k]}}
        /\ manifests'[k] = NoManifest \/ Interrupted(Entries[k])

LEMMA StepKinds ==
    ASSUME IInv, [Next]_vars PROVE Kept \/ Saved \/ Discarded \/ Evicted
<1> USE QuotaAssumption DEF IInv
<1>a. /\ \A k \in Keys : manifests[k].archive \in Archives \cup {None}
      /\ \A a \in Archives : a \in Objects /\ a \notin LegacyKeys
  BY Fields
<1>1. ASSUME NEW r \in Runners, Assign(r) PROVE Kept
  BY <1>a, <1>1, EntriesStay DEF Assign, quotaVars, Kept
<1>2. ASSUME NEW a \in Archives, CreateUpload(a) PROVE Kept
  <2>1. UNCHANGED quotaVars /\ sessions[a].stage = "none"
    BY <1>2 DEF CreateUpload
  <2>2. \A b \in Archives : sessions'[b].stage = "complete" <=> sessions[b].stage = "complete"
    BY <1>2, <2>1 DEF CreateUpload, TypeOK
  <2> QED BY <1>a, <2>1, <2>2, EntriesStay DEF quotaVars, Kept
<1>3. ASSUME NEW a \in Archives, UploadPart(a) PROVE Kept
  <2>1. UNCHANGED quotaVars /\ sessions' = [sessions EXCEPT ![a].parts = @ + 1]
    BY <1>3 DEF UploadPart
  <2>2. \A b \in Archives : sessions'[b].stage = sessions[b].stage
    BY <2>1 DEF TypeOK, Session
  <2> QED BY <1>a, <2>1, <2>2, EntriesStay DEF quotaVars, Kept
<1>4. ASSUME NEW a \in Archives, CompleteUpload(a) PROVE Kept
  BY <1>4, Completing DEF Kept
<1>5. ASSUME NEW c \in Calls, Finalize(c) PROVE Kept
  BY <1>a, <1>5, EntriesStay DEF Finalize, Kept
<1>6. ASSUME NEW c \in Calls, Return(c) PROVE Kept
  BY <1>a, <1>6, EntriesStay DEF Return, quotaVars, Kept
<1>7. ASSUME NEW c \in Calls, LegacyPut(c) PROVE Kept
  <2>1. UNCHANGED <<manifests, sessions>>
    BY <1>7 DEF LegacyPut
  <2>2. \A a \in Archives : objects'[a] = objects[a]
    BY <1>a, <1>7 DEF LegacyPut, TypeOK
  <2> QED BY <1>a, <2>1, <2>2, EntriesStay DEF Kept
<1>8. ASSUME NEW c \in Calls, UNCHANGED protocolVars,
             \/ Begin(c) \/ EnsureIndex(c) \/ RecordEntry(c) \/ CompareManifest(c)
             \/ ForgetPending(c) \/ DropEvicted(c) \/ Interrupt(c)
      PROVE  Kept
  <2>1. UNCHANGED <<objects, manifests, sessions>>
    BY <1>8 DEF Begin, EnsureIndex, RecordEntry, CompareManifest, ForgetPending, DropEvicted,
                Interrupt, protocolVars
  <2> QED BY <1>a, <2>1, EntriesStay DEF Kept
<1>9. ASSUME NEW c \in Calls, PutManifest(c), UNCHANGED protocolVars PROVE Kept \/ Saved
  BY <1>9, Committing DEF Kept, Saved
<1>10. ASSUME NEW c \in Calls, DiscardArchive(c), UNCHANGED protocolVars PROVE Discarded
  BY <1>10, Discarding DEF Discarded
<1>11. ASSUME NEW c \in Calls, Evict(c), UNCHANGED protocolVars PROVE Kept \/ Discarded \/ Evicted
  BY <1>11, Evicting DEF Kept, Discarded, Evicted
<1>12. CASE UNCHANGED vars
  BY <1>a, <1>12, EntriesStay DEF vars, quotaVars, Kept
<1> QED BY <1>1, <1>2, <1>3, <1>4, <1>5, <1>6, <1>7, <1>8, <1>9, <1>10, <1>11, <1>12 DEF Next

-----------------------------------------------------------------------------
(* Theorems about the entries. *)

\* The cache keeps the promise of ActionCache, however many runners save and
\* retry, in every order, and whatever is interrupted: an entry is never
\* replaced, and an archive that was deleted is never found again.
THEOREM CacheImplementsPromise == Spec => Implementation
<1>1. Init => Promise!Init
  <2> SUFFICES ASSUME Init PROVE Promise!Init
    OBVIOUS
  <2>1. IInv
    BY InitIsConsistent
  <2>2. \A k \in Keys : EntryOf(k) \in Archives \cup {None}
    BY <2>1, Fields DEF IInv, EntryOf
  <2>3. \A k \in Keys : EntryOf(k) # None => Present(EntryOf(k))
    BY DEF EntryOf
  <2>4. None \notin Archives
    BY CacheAssumption
  <2>5. \A k \in Keys : EntryOf(k) \notin Gone
    BY <2>2, <2>3, <2>4 DEF Gone
  <2> QED BY <2>2, <2>5 DEF Promise!Init, Gone
<1>2. IInv /\ [Next]_vars => [Promise!Next]_(Promise!vars)
  <2> SUFFICES ASSUME IInv, [Next]_vars PROVE [Promise!Next]_(Promise!vars)
    OBVIOUS
  <2>1. CASE Kept
    BY <2>1 DEF Kept, Entries, Gone, Promise!vars
  <2>2. CASE Saved
    BY <2>2 DEF Saved, Entries, Gone, Promise!Next, Promise!Save
  <2>3. CASE Discarded
    BY <2>3 DEF Discarded, Entries, Gone, Promise!Next, Promise!Discard
  <2>4. CASE Evicted
    BY <2>4 DEF Evicted, Entries, Gone, Promise!Next, Promise!Evict
  <2> QED BY <2>1, <2>2, <2>3, <2>4, StepKinds
<1> QED BY <1>1, <1>2, Consistency, PTL DEF Spec, Implementation, Promise!Spec

\* An archive that restores find is only deleted together with its manifest, so no
\* key is left that can be neither restored nor saved, unless its own commit was
\* interrupted between the manifest and the row.
THEOREM CommittedArchivesAreKept == Spec => CommittedArchivesStay
<1>1. IInv /\ [Next]_vars =>
        \A k \in Keys : EntryOf(k) # None /\ ~Interrupted(EntryOf(k)) =>
            EntryOf(k)' = EntryOf(k) \/ manifests'[k] = NoManifest
  <2> SUFFICES ASSUME IInv, [Next]_vars, NEW k \in Keys,
                      EntryOf(k) # None, ~Interrupted(EntryOf(k))
               PROVE  EntryOf(k)' = EntryOf(k) \/ manifests'[k] = NoManifest
    OBVIOUS
  <2>1. Entries[k] = EntryOf(k) /\ Entries'[k] = EntryOf(k)'
    BY DEF Entries
  <2>2. CASE Kept \/ Discarded
    BY <2>1, <2>2 DEF Kept, Discarded
  <2>3. CASE Saved
    <3>1. PICK j \in Keys, a \in Archives : Entries[j] = None /\ Entries' = [Entries EXCEPT ![j] = a]
      BY <2>3 DEF Saved
    <3> QED BY <2>1, <3>1 DEF Entries
  <2>4. CASE Evicted
    <3>1. PICK j \in Keys :
            /\ Entries' = [Entries EXCEPT ![j] = None]
            /\ manifests'[j] = NoManifest \/ Interrupted(Entries[j])
      BY <2>4 DEF Evicted
    <3>2. CASE j = k
      BY <2>1, <3>1, <3>2
    <3>3. CASE j # k
      BY <2>1, <3>1, <3>3 DEF Entries
    <3> QED BY <3>2, <3>3
  <2> QED BY <2>2, <2>3, <2>4, StepKinds
<1> QED BY <1>1, Consistency, PTL DEF Spec, CommittedArchivesStay

-----------------------------------------------------------------------------
(* What lookups find. *)

\* Sessions are of the job that the runner executes; a manifest that names no
\* archive is none.
Scoped ==
    /\ \A r \in Runners : assigned[r] \in {None, Executes[r]}
    /\ \A a \in Archives :
          /\ sessions[a].key # None =>
                /\ Executes[Uploader[a]] \in MayWrite
                /\ sessions[a].key.scope = ScopeOf[Executes[Uploader[a]]]
          /\ sessions[a].stage # "none" /\ a \notin Inherited => sessions[a].key # None
    /\ \A k \in Keys : manifests[k].archive = None => manifests[k] = NoManifest

LEMMA InitIsScoped == Init => Scoped
<1> SUFFICES ASSUME Init PROVE Scoped
  OBVIOUS
<1>1. \A a \in Archives : sessions[a] = IF a \in Inherited THEN InheritedSession ELSE NoSession
  BY DEF Init
<1>2. \A k \in Keys : manifests[k].archive = None => manifests[k] = NoManifest
  <2>1. \A k \in Keys : manifests[k] # NoManifest => manifests[k].archive \in Archives
    BY DEF Init
  <2> QED BY <2>1, CacheAssumption
<1> QED BY <1>1, <1>2 DEF Init, Scoped, InheritedSession, NoSession

LEMMA StepsStayScoped == IInv /\ Scoped /\ [Next]_vars => Scoped'
<1> SUFFICES ASSUME IInv, Scoped, [Next]_vars PROVE Scoped'
  OBVIOUS
<1> USE QuotaAssumption, CacheAssumption DEF IInv
<1>1. ASSUME NEW r \in Runners, Assign(r) PROVE Scoped'
  BY <1>1 DEF Assign, quotaVars, Scoped, TypeOK
<1>2. ASSUME NEW a \in Archives, CreateUpload(a) PROVE Scoped'
  <2>1. /\ Resolve(Uploader[a]) \in MayWrite /\ UNCHANGED <<quotaVars, assigned>>
        /\ Resolve(Uploader[a]) = Executes[Uploader[a]]
    BY <1>2 DEF CreateUpload, Resolve, Scoped
  <2>2. PICK n \in Names :
          sessions' = [sessions EXCEPT ![a] =
                [stage |-> "open", parts |-> 0, job |-> Executes[Uploader[a]],
                 key |-> [scope |-> ScopeOf[Executes[Uploader[a]]], name |-> n]]]
    BY <1>2, <2>1 DEF CreateUpload
  <2> DEFINE key == [scope |-> ScopeOf[Executes[Uploader[a]]], name |-> n]
  <2>3. key \in Keys /\ key # None /\ key.scope = ScopeOf[Executes[Uploader[a]]]
    BY <2>1, <2>2
  <2>4. /\ sessions'[a].key = key
        /\ \A b \in Archives : b # a => sessions'[b] = sessions[b]
    BY <2>2 DEF TypeOK
  <2> QED BY <2>1, <2>3, <2>4 DEF Scoped, quotaVars
<1>3. ASSUME NEW a \in Archives, UploadPart(a) \/ CompleteUpload(a) PROVE Scoped'
  <2>1. UNCHANGED <<manifests, assigned>> /\ sessions[a].stage = "open"
    BY <1>3 DEF UploadPart, SendsPart, CompleteUpload, quotaVars
  <2>2. \A b \in Archives : /\ sessions'[b].key = sessions[b].key
                            /\ sessions'[b].stage # "none" => sessions[b].stage # "none"
    <3>1. \A b \in Archives : b # a => sessions'[b] = sessions[b]
      BY <1>3 DEF UploadPart, CompleteUpload, TypeOK
    <3>2. sessions'[a].key = sessions[a].key
      BY <1>3 DEF UploadPart, CompleteUpload, TypeOK, Session
    <3> QED BY <2>1, <3>1, <3>2
  <2> QED BY <2>1, <2>2 DEF Scoped
<1>4. ASSUME NEW c \in Calls, Finalize(c) \/ Return(c) \/ LegacyPut(c) PROVE Scoped'
  BY <1>4 DEF Finalize, Return, LegacyPut, quotaVars, Scoped
<1>5. ASSUME NEW c \in Calls, UNCHANGED protocolVars,
             \/ Begin(c) \/ EnsureIndex(c) \/ RecordEntry(c) \/ CompareManifest(c)
             \/ DiscardArchive(c) \/ ForgetPending(c) \/ DropEvicted(c) \/ Interrupt(c)
      PROVE  Scoped'
  <2>1. UNCHANGED <<manifests, sessions, assigned>>
    BY <1>5 DEF Begin, EnsureIndex, RecordEntry, CompareManifest, DiscardArchive, ForgetPending,
                DropEvicted, Interrupt, protocolVars
  <2> QED BY <2>1 DEF Scoped
<1>6. ASSUME NEW c \in Calls, UNCHANGED protocolVars, PutManifest(c) PROVE Scoped'
  <2>1. c[1] # None
    BY <1>6, Fields DEF PutManifest, Requested
  <2>2. \A k \in Keys : manifests'[k] = manifests[k] \/ manifests'[k].archive = c[1]
    BY <1>6 DEF PutManifest, TypeOK
  <2> QED BY <1>6, <2>1, <2>2 DEF protocolVars, Scoped
<1>7. ASSUME NEW c \in Calls, UNCHANGED protocolVars, Evict(c) PROVE Scoped'
  <2>1. \A k \in Keys : manifests'[k] \in {manifests[k], NoManifest}
    BY <1>7 DEF Evict
  <2> QED BY <1>7, <2>1 DEF protocolVars, Scoped
<1>8. CASE UNCHANGED vars
  BY <1>8 DEF vars, quotaVars, Scoped
<1> QED BY <1>1, <1>2, <1>3, <1>4, <1>5, <1>6, <1>7, <1>8 DEF Next

LEMMA ManifestsOfScope ==
    ASSUME NEW scope, NEW name, NEW restoreKeys, NEW k \in ManifestForScope(scope, name, restoreKeys)
    PROVE  k \in Keys /\ k.scope = scope /\ manifests[k] # NoManifest
BY DEF ManifestForScope, Newest

\* A restore finds only what was there before the controller, or what a job that
\* may write wrote to its own scope; and only in the scope of the job that the
\* runner executes, or that job's fallback.
THEOREM LookupsAreScoped == Spec => []LookupsStayInScope
<1>1. IInv /\ Scoped => LookupsStayInScope
  <2> SUFFICES ASSUME IInv, Scoped, NEW r \in Runners, NEW name \in Names,
                      NEW k \in Lookup(r, name, <<Names>>)
               PROVE  LET a == manifests[k].archive
                          writer == Executes[Uploader[a]]
                      IN  /\ k.scope \in {ScopeOf[Executes[r]], FallbackOf[Executes[r]]}
                          /\ a \notin Inherited => k.scope = ScopeOf[writer] /\ writer \in MayWrite
    BY DEF LookupsStayInScope
  <2>1. Resolve(r) # None
    BY DEF Lookup
  <2>2. Resolve(r) = Executes[r]
    BY <2>1 DEF Resolve, Scoped
  <2>3. \/ k \in ManifestForScope(ScopeOf[Executes[r]], name, <<Names>>)
        \/ k \in ManifestForScope(FallbackOf[Executes[r]], name, <<Names>>)
    BY <2>1, <2>2 DEF Lookup
  <2>4. /\ k \in Keys /\ manifests[k] # NoManifest
        /\ k.scope \in {ScopeOf[Executes[r]], FallbackOf[Executes[r]]}
    BY <2>3, ManifestsOfScope
  <2>5. manifests[k].archive \in Archives
    BY <2>4, Fields DEF IInv, Scoped
  <2>6. ASSUME manifests[k].archive \notin Inherited
        PROVE  /\ k.scope = ScopeOf[Executes[Uploader[manifests[k].archive]]]
               /\ Executes[Uploader[manifests[k].archive]] \in MayWrite
    <3>1. sessions[manifests[k].archive].stage = "complete" /\ manifests[k].archive # None
      BY <2>4, <2>5, Fields DEF IInv, Named
    <3>2. sessions[manifests[k].archive].key # None
      BY <2>5, <2>6, <3>1 DEF Scoped
    <3>3. sessions[manifests[k].archive].key = k
      BY <2>4, <3>1, <3>2 DEF IInv, Named
    <3> QED BY <2>5, <3>2, <3>3 DEF Scoped
  <2> QED BY <2>4, <2>6
<1> QED BY <1>1, InitIsScoped, StepsStayScoped, Consistency, PTL DEF Spec

-----------------------------------------------------------------------------
(* What the index counts. *)

\* The manifest of a victim is gone when its row is dropped.
Emptied ==
    \A c \in Calls : calls[c].pc = "evicted" /\ calls[c].victim.manifest \in Keys =>
        manifests[calls[c].victim.manifest].archive = None

\* An operation moves its own call only.
LEMMA OwnCall ==
    ASSUME IInv, NEW c \in Calls,
           \/ Begin(c) \/ EnsureIndex(c) \/ PutManifest(c) \/ RecordEntry(c) \/ CompareManifest(c)
           \/ DiscardArchive(c) \/ ForgetPending(c) \/ DropEvicted(c) \/ Interrupt(c)
    PROVE  /\ \A d \in Calls : d # c => calls'[d] = calls[d]
           /\ calls'[c].pc # "evicted"
<1>1. calls \in [Calls -> Call]
  BY DEF IInv, TypeOK
<1>2. ASSUME NEW pc \in {"idle", "waiting"} \cup Operating \cup Answers, pc # "evicted", calls' = Moved(c, pc)
      PROVE  (\A d \in Calls : d # c => calls'[d] = calls[d]) /\ calls'[c].pc # "evicted"
  BY <1>1, <1>2, Moving
<1>3. ASSUME NEW rows, EnforceQuota(c, rows)
      PROVE  (\A d \in Calls : d # c => calls'[d] = calls[d]) /\ calls'[c].pc # "evicted"
  <2>1. Answer(c, rows) # "evicted"
    BY DEF Answer
  <2> QED BY <1>1, <1>3, <2>1 DEF EnforceQuota, Call
<1>4. ASSUME NEW rows, Perform(c, rows)
      PROVE  (\A d \in Calls : d # c => calls'[d] = calls[d]) /\ calls'[c].pc # "evicted"
  BY <1>2, <1>3, <1>4 DEF Perform, Operating
<1>5. CASE Begin(c)
  BY <1>2, <1>4, <1>5 DEF Begin, Operating
<1>6. CASE EnsureIndex(c)
  BY <1>4, <1>6 DEF EnsureIndex
<1>7. CASE PutManifest(c) \/ CompareManifest(c) \/ DiscardArchive(c) \/ ForgetPending(c)
  BY <1>2, <1>7 DEF PutManifest, CompareManifest, DiscardArchive, ForgetPending, Operating, Answers
<1>8. CASE RecordEntry(c) \/ DropEvicted(c)
  BY <1>3, <1>8 DEF RecordEntry, DropEvicted
<1>9. CASE Interrupt(c)
  BY <1>1, <1>9 DEF Interrupt, Call
<1> QED BY <1>5, <1>6, <1>7, <1>8, <1>9

LEMMA StepsStayEmptied == IInv /\ Emptied /\ [Next]_vars => Emptied'
<1> SUFFICES ASSUME IInv, Emptied, [Next]_vars PROVE Emptied'
  OBVIOUS
<1>1. ASSUME UNCHANGED <<manifests, calls>> PROVE Emptied'
  BY <1>1 DEF Emptied
<1>2. ASSUME UNCHANGED manifests, NEW c \in Calls, \A d \in Calls : d # c => calls'[d] = calls[d],
             calls'[c].pc # "evicted"
      PROVE  Emptied'
  BY <1>2 DEF Emptied
<1>3. ASSUME NEW r \in Runners, Assign(r) PROVE Emptied'
  BY <1>1, <1>3 DEF Assign, quotaVars
<1>4. ASSUME NEW a \in Archives, CreateUpload(a) \/ UploadPart(a) \/ CompleteUpload(a) PROVE Emptied'
  BY <1>1, <1>4 DEF CreateUpload, UploadPart, CompleteUpload, quotaVars
<1>5. ASSUME NEW c \in Calls, Return(c) PROVE Emptied'
  BY <1>1, <1>5 DEF Return, quotaVars
<1>6. ASSUME NEW c \in Calls, Finalize(c) \/ LegacyPut(c) PROVE Emptied'
  <2>1. UNCHANGED manifests
    BY <1>6 DEF Finalize, LegacyPut
  <2>2. (\A d \in Calls : d # c => calls'[d] = calls[d]) /\ calls'[c].pc = "waiting"
    BY <1>6 DEF Finalize, LegacyPut, NoCall, IInv, TypeOK
  <2> QED BY <1>2, <2>1, <2>2
<1>7. ASSUME NEW c \in Calls,
             \/ Begin(c) \/ EnsureIndex(c) \/ RecordEntry(c) \/ CompareManifest(c)
             \/ DiscardArchive(c) \/ ForgetPending(c) \/ DropEvicted(c) \/ Interrupt(c)
      PROVE  Emptied'
  <2>1. UNCHANGED manifests
    BY <1>7 DEF Begin, EnsureIndex, RecordEntry, CompareManifest, DiscardArchive, ForgetPending,
                DropEvicted, Interrupt
  <2> QED BY <1>2, <1>7, <2>1, OwnCall
<1>8. ASSUME NEW c \in Calls, PutManifest(c) PROVE Emptied'
  <2>1. Operation(c)
    BY <1>8 DEF PutManifest, Operation, Operating
  <2>2. \A d \in Calls : d # c => calls[d].pc # "evicted"
    BY <2>1, Alone DEF IInv, Operation, Operating
  <2> QED BY <1>8, <2>2, OwnCall DEF Emptied
<1>9. ASSUME NEW c \in Calls, Evict(c) PROVE Emptied'
  <2>1. Operation(c)
    BY <1>9 DEF Evict, Operation, Operating
  <2>2. \A d \in Calls : d # c => calls'[d].pc # "evicted"
    BY <1>9, <2>1, Alone, Moving DEF IInv, TypeOK, Evict, Operation, Operating
  <2>3. calls'[c].victim = calls[c].victim
    BY <1>9, Moving DEF IInv, TypeOK, Evict, Operating
  <2>4. \A k \in Keys : k = calls[c].victim.manifest => manifests'[k].archive = None
    BY <1>9 DEF Evict, NoManifest
  <2> QED BY <2>2, <2>3, <2>4 DEF Emptied
<1>10. CASE UNCHANGED vars
  BY <1>1, <1>10 DEF vars, quotaVars
<1> QED BY <1>3, <1>4, <1>5, <1>6, <1>7, <1>8, <1>9, <1>10 DEF Next

\* Entries may go and rows of no entry may change: the rest stays counted.
LEMMA RowsStay ==
    ASSUME StoredBytesAreCounted, indexReady' = indexReady,
           \A k \in Keys : EntryOf(k)' \in {EntryOf(k), None},
           \A k \in Keys : EntryOf(k)' # None => objects'[EntryOf(k)].size = objects[EntryOf(k)].size,
           \A k \in Keys : EntryOf(k) \in Archives \cup {None},
           \A a \in Archives : Recording(a) \/ Interrupted(a) => Recording(a)' \/ Interrupted(a)',
           \A row \in index : row.manifest \in Keys /\ EntryOf(row.manifest)' # None => row \in index'
    PROVE  StoredBytesAreCounted'
<1>1. ASSUME indexReady', NEW k \in Keys, EntryOf(k)' # None,
             ~Recording(EntryOf(k))', ~Interrupted(EntryOf(k))'
      PROVE  \E row \in index' : row.manifest = k /\ row.object = EntryOf(k)'
                                 /\ row.size = objects'[EntryOf(k)'].size
  <2>1. EntryOf(k)' = EntryOf(k) /\ EntryOf(k) # None
    BY <1>1
  <2>2. ~Recording(EntryOf(k)) /\ ~Interrupted(EntryOf(k))
    BY <1>1, <2>1
  <2>3. PICK row \in index : row.manifest = k /\ row.object = EntryOf(k) /\ row.size = objects[EntryOf(k)].size
    BY <1>1, <2>1, <2>2 DEF StoredBytesAreCounted
  <2>4. row \in index'
    BY <1>1, <2>3
  <2> QED BY <1>1, <2>1, <2>3, <2>4
<1> QED BY <1>1 DEF StoredBytesAreCounted

LEMMA StepsStayCounted == IInv /\ Emptied /\ StoredBytesAreCounted /\ [Next]_vars => StoredBytesAreCounted'
<1> SUFFICES ASSUME IInv, Emptied, StoredBytesAreCounted, [Next]_vars PROVE StoredBytesAreCounted'
  OBVIOUS
<1> USE QuotaAssumption DEF IInv
<1>a. /\ \A k \in Keys : manifests[k].archive \in Archives \cup {None}
      /\ \A row \in index : row.object \in Archives \cup LegacyKeys /\ row.manifest \in Keys \cup {None}
      /\ \A a \in Archives : a \in Objects /\ a # None /\ a \notin LegacyKeys
      /\ None \notin Keys
  BY Fields
<1>b. \A k \in Keys : /\ EntryOf(k) \in Archives \cup {None}
                      /\ EntryOf(k) # None => EntryOf(k) = manifests[k].archive
                      /\ EntryOf(k) # None => sessions[EntryOf(k)].stage = "complete"
  BY <1>a DEF EntryOf, Named
<1>c. ASSUME UNCHANGED <<manifests, index, indexReady>>, \A a \in Archives : objects'[a] = objects[a],
             \A a \in Archives : Recording(a) \/ Interrupted(a) => Recording(a)' \/ Interrupted(a)'
      PROVE  StoredBytesAreCounted'
  <2>1. \A k \in Keys : EntryOf(k)' = EntryOf(k)
    BY <1>a, <1>c DEF EntryOf, Present
  <2> QED BY <1>b, <1>c, <2>1, RowsStay
<1>d. ASSUME NEW c \in Calls, \A d \in Calls : d # c => calls'[d] = calls[d],
             calls[c].pc \notin {"record", "failed"} \/ calls'[c].pc = "failed"
      PROVE  \A a \in Archives : Recording(a) \/ Interrupted(a) => Recording(a)' \/ Interrupted(a)'
  BY <1>d DEF Recording, Interrupted
<1>1. ASSUME UNCHANGED quotaVars PROVE StoredBytesAreCounted'
  BY <1>c, <1>1 DEF quotaVars, Recording, Interrupted
<1>2. ASSUME NEW r \in Runners, Assign(r) PROVE StoredBytesAreCounted'
  BY <1>1, <1>2 DEF Assign
<1>3. ASSUME NEW a \in Archives, CreateUpload(a) \/ UploadPart(a) PROVE StoredBytesAreCounted'
  BY <1>1, <1>3 DEF CreateUpload, UploadPart
<1>4. ASSUME NEW a \in Archives, CompleteUpload(a) PROVE StoredBytesAreCounted'
  <2>1. \A k \in Keys : EntryOf(k)' = EntryOf(k)
    <3>1. Entries' = Entries
      BY <1>4, Completing
    <3> QED BY <3>1 DEF Entries
  <2>2. /\ UNCHANGED <<index, indexReady, calls>> /\ sessions[a].stage = "open"
        /\ \A b \in Archives : b # a => objects'[b] = objects[b]
    BY <1>4, <1>a DEF CompleteUpload, TypeOK
  <2>3. \A k \in Keys : EntryOf(k)' # None => objects'[EntryOf(k)].size = objects[EntryOf(k)].size
    BY <1>b, <2>1, <2>2
  <2>4. \A b \in Archives : Recording(b) \/ Interrupted(b) => Recording(b)' \/ Interrupted(b)'
    BY <2>2 DEF Recording, Interrupted
  <2> QED BY <1>b, <2>1, <2>2, <2>3, <2>4, RowsStay
<1>5. ASSUME NEW c \in Calls, Finalize(c) PROVE StoredBytesAreCounted'
  <2>1. /\ UNCHANGED <<manifests, index, indexReady, objects>> /\ calls[c].pc = "idle"
        /\ \A d \in Calls : d # c => calls'[d] = calls[d]
    BY <1>5 DEF Finalize, NextCall, Issued, TypeOK
  <2> QED BY <1>c, <1>d, <2>1
<1>6. ASSUME NEW c \in Calls, Return(c) PROVE StoredBytesAreCounted'
  BY <1>1, <1>6 DEF Return
<1>7. ASSUME NEW c \in Calls, LegacyPut(c) PROVE StoredBytesAreCounted'
  <2>1. /\ UNCHANGED <<manifests, index, indexReady>> /\ calls[c].pc = "idle"
        /\ \A d \in Calls : d # c => calls'[d] = calls[d]
        /\ \A a \in Archives : objects'[a] = objects[a]
    BY <1>7, <1>a DEF LegacyPut, NextCall, Issued, TypeOK
  <2> QED BY <1>c, <1>d, <2>1
<1>e. ASSUME NEW rows, NEW row, EntryKey(row) \notin Keys
      PROVE  \A other \in rows : other.manifest \in Keys => other \in WithRow(rows, row)
  BY <1>a, <1>e DEF WithRow, WithoutEntry, EntryKey
<1>f. ASSUME NEW c \in Calls, NEW rows, Perform(c, rows)
      PROVE  \A row \in rows : row.manifest \in Keys => row \in index'
  <2>1. CASE c[1] \in Archives
    BY <1>f, <2>1, CallNames DEF Perform
  <2>2. CASE c[1] \in LegacyKeys
    <3> DEFINE new == [object |-> c[1], manifest |-> None, size |-> calls[c].size, created |-> calls[c].created]
    <3>1. EntryKey(new) \notin Keys
      BY <2>2, CallNames DEF EntryKey
    <3>2. index' = WithRow(rows, new)
      BY <1>f, <2>2, CallNames DEF Perform, EnforceQuota
    <3> HIDE DEF new
    <3> QED BY <1>e, <3>1, <3>2
  <2> QED BY <2>1, <2>2, CallNames DEF Objects
<1>8. ASSUME NEW c \in Calls, Begin(c), UNCHANGED protocolVars PROVE StoredBytesAreCounted'
  <2>1. UNCHANGED <<objects, manifests, indexReady>> /\ calls[c].pc = "waiting"
    BY <1>8 DEF Begin
  <2>2. \A k \in Keys : EntryOf(k)' = EntryOf(k)
    BY <2>1 DEF EntryOf, Present
  <2>3. \A a \in Archives : Recording(a) \/ Interrupted(a) => Recording(a)' \/ Interrupted(a)'
    BY <1>8, <1>d, <2>1, OwnCall
  <2>4. CASE indexReady
    <3>1. \A row \in index : row.manifest \in Keys => row \in index'
      BY <1>8, <1>f, <2>4 DEF Begin
    <3> QED BY <1>b, <2>1, <2>2, <2>3, <3>1, RowsStay
  <2>5. CASE ~indexReady
    BY <2>1, <2>5 DEF StoredBytesAreCounted
  <2> QED BY <2>4, <2>5
<1>9. ASSUME NEW c \in Calls, EnsureIndex(c), UNCHANGED protocolVars PROVE StoredBytesAreCounted'
  <2>1. UNCHANGED <<objects, manifests>>
    BY <1>9 DEF EnsureIndex
  <2>2. \A k \in Keys : EntryOf(k)' = EntryOf(k)
    BY <2>1 DEF EntryOf, Present
  <2>3. ASSUME NEW k \in Keys, EntryOf(k) # None
        PROVE  \E row \in index' : row.manifest = k /\ row.object = EntryOf(k)
                                   /\ row.size = objects[EntryOf(k)].size
    <3> DEFINE row == [object |-> manifests[k].archive, manifest |-> k,
                       size |-> objects[manifests[k].archive].size, created |-> manifests[k].created]
    <3>1. row \in RowsOfManifests
      BY <2>3 DEF RowsOfManifests, EntryOf
    <3>2. row \in index'
      BY <1>9, <1>f, <3>1 DEF EnsureIndex, RebuiltIndex
    <3> QED BY <1>b, <2>3, <3>2
  <2> QED BY <2>1, <2>2, <2>3 DEF StoredBytesAreCounted
<1>10. ASSUME NEW c \in Calls, PutManifest(c), UNCHANGED protocolVars PROVE StoredBytesAreCounted'
  <2>1. /\ calls[c].pc = "put" /\ UNCHANGED <<objects, index, indexReady>> /\ c[1] \in Archives
        /\ calls[c].key \in Keys
    BY <1>10 DEF PutManifest, Requested, Issued, TypeOK, Call
  <2>2. \A a \in Archives : Recording(a) \/ Interrupted(a) => Recording(a)' \/ Interrupted(a)'
    BY <1>10, <1>d, <2>1, OwnCall
  <2>3. CASE manifests' = manifests
    BY <1>c, <2>1, <2>2, <2>3
  <2>4. CASE manifests' = [manifests EXCEPT ![calls[c].key] = [archive |-> c[1], created |-> calls[c].created]]
             /\ calls' = Moved(c, "record")
    <3>1. Recording(c[1])'
      BY <2>4, Moving DEF Recording, TypeOK, Operating
    <3>2. ASSUME NEW k \in Keys, k # calls[c].key PROVE EntryOf(k)' = EntryOf(k)
      <4>1. manifests'[k].archive = manifests[k].archive
        BY <2>4, <3>2 DEF TypeOK
      <4> QED BY <2>1, <4>1 DEF EntryOf, Present
    <3>3. \A k \in Keys : k = calls[c].key => EntryOf(k)' \in {c[1], None}
      BY <2>1, <2>4 DEF EntryOf, TypeOK
    <3>4. ASSUME indexReady', NEW k \in Keys, EntryOf(k)' # None,
                 ~Recording(EntryOf(k))', ~Interrupted(EntryOf(k))'
          PROVE  \E row \in index' : row.manifest = k /\ row.object = EntryOf(k)'
                                     /\ row.size = objects'[EntryOf(k)'].size
      <4>1. k # calls[c].key
        BY <3>1, <3>3, <3>4
      <4>2. EntryOf(k)' = EntryOf(k)
        BY <3>2, <4>1
      <4>3. ~Recording(EntryOf(k)) /\ ~Interrupted(EntryOf(k))
        BY <1>b, <2>2, <3>4, <4>2
      <4> QED BY <2>1, <3>4, <4>2, <4>3 DEF StoredBytesAreCounted
    <3> QED BY <3>4 DEF StoredBytesAreCounted
  <2> QED BY <1>10, <2>3, <2>4 DEF PutManifest
<1>11. ASSUME NEW c \in Calls, RecordEntry(c), UNCHANGED protocolVars PROVE StoredBytesAreCounted'
  <2> DEFINE kept == WithoutEntry(index, c[1])
             new == [object |-> c[1], manifest |-> calls[c].key,
                     size |-> calls[c].size, created |-> calls[c].created]
  <2>1. /\ calls[c].pc = "record" /\ UNCHANGED <<objects, manifests, indexReady>>
        /\ index' = WithRow(kept, new)
    BY <1>11 DEF RecordEntry, EnforceQuota
  <2>2. /\ c[1] \in Archives /\ calls[c].key \in Keys /\ manifests[calls[c].key].archive = c[1]
        /\ calls[c].size = sessions[c[1]].parts /\ sessions[c[1]].key # None
    BY <2>1 DEF Requested, Issued, TypeOK, Call
  <2>3. \A k \in Keys : EntryOf(k)' = EntryOf(k)
    BY <2>1 DEF EntryOf, Present
  <2>4. /\ new \in index'
        /\ \A row \in index : row.manifest \in Keys /\ row.manifest # calls[c].key => row \in index'
    BY <1>a, <2>1, <2>2 DEF WithRow, WithoutEntry, EntryKey
  <2>5. /\ new.manifest = calls[c].key /\ new.object = c[1] /\ new.size = sessions[c[1]].parts
    BY <2>2
  <2> HIDE DEF new, kept
  <2>6. ASSUME indexReady', NEW k \in Keys, EntryOf(k)' # None,
               ~Recording(EntryOf(k))', ~Interrupted(EntryOf(k))'
        PROVE  \E row \in index' : row.manifest = k /\ row.object = EntryOf(k)'
                                   /\ row.size = objects'[EntryOf(k)'].size
    <3>1. CASE k = calls[c].key
      <4>1. EntryOf(k) = c[1] /\ Present(c[1])
        BY <1>a, <2>2, <2>3, <2>6, <3>1 DEF EntryOf
      <4>2. objects[c[1]].size = sessions[c[1]].parts
        BY <2>2, <4>1 DEF Uploaded
      <4> QED BY <2>1, <2>3, <2>4, <2>5, <3>1, <4>1, <4>2
    <3>2. CASE k # calls[c].key
      <4>1. EntryOf(k) # c[1]
        BY <1>a, <1>b, <2>2, <2>3, <2>6, <3>2 DEF Named
      <4>2. ~Recording(EntryOf(k))
        <5>1. Operation(c)
          BY <2>1 DEF Operation, Operating
        <5>2. \A d \in Calls : d # c => calls[d].pc # "record"
          BY <5>1, Alone DEF Operation, Operating
        <5> QED BY <4>1, <5>2 DEF Recording
      <4>3. ~Interrupted(EntryOf(k))
        <5>1. \A d \in Calls : calls[d].pc = "failed" => calls'[d].pc = "failed"
          BY <1>11, <2>1, OwnCall
        <5> QED BY <2>3, <2>6, <5>1 DEF Interrupted
      <4>4. PICK row \in index : row.manifest = k /\ row.object = EntryOf(k) /\ row.size = objects[EntryOf(k)].size
        BY <2>1, <2>3, <2>6, <4>2, <4>3 DEF StoredBytesAreCounted
      <4>5. row \in index'
        BY <2>4, <3>2, <4>4
      <4> QED BY <2>1, <2>3, <4>4, <4>5
    <3> QED BY <3>1, <3>2
  <2> QED BY <2>6 DEF StoredBytesAreCounted
<1>12. ASSUME NEW c \in Calls, CompareManifest(c) \/ Interrupt(c), UNCHANGED protocolVars
       PROVE  StoredBytesAreCounted'
  <2>1. /\ UNCHANGED <<objects, manifests, index, indexReady>>
        /\ calls[c].pc = "compare" \/ calls'[c].pc = "failed"
    BY <1>12 DEF CompareManifest, Interrupt, TypeOK, Call
  <2> QED BY <1>12, <1>c, <1>d, <2>1, OwnCall
<1>13. ASSUME NEW c \in Calls, DiscardArchive(c), UNCHANGED protocolVars PROVE StoredBytesAreCounted'
  <2>1. /\ \A k \in Keys : Entries[k] # c[1] /\ c[1] \in Archives
        /\ Entries' = Entries
    BY <1>13, Discarding
  <2>2. \A k \in Keys : EntryOf(k)' = EntryOf(k) /\ EntryOf(k) # c[1]
    BY <2>1 DEF Entries
  <2>3. /\ UNCHANGED <<index, indexReady>> /\ calls[c].pc = "discard"
        /\ \A o \in Objects : o # c[1] => objects'[o] = objects[o]
    BY <1>13 DEF DiscardArchive, TypeOK
  <2>4. \A a \in Archives : Recording(a) \/ Interrupted(a) => Recording(a)' \/ Interrupted(a)'
    BY <1>13, <1>d, <2>3, OwnCall
  <2>5. \A k \in Keys : EntryOf(k)' # None => objects'[EntryOf(k)].size = objects[EntryOf(k)].size
    BY <1>a, <1>b, <2>2, <2>3
  <2> QED BY <1>b, <2>2, <2>3, <2>4, <2>5, RowsStay
<1>14. ASSUME NEW c \in Calls, ForgetPending(c), UNCHANGED protocolVars PROVE StoredBytesAreCounted'
  <2>1. /\ UNCHANGED <<objects, manifests, indexReady>> /\ calls[c].pc = "forget"
        /\ index' = WithoutEntry(index, c[1])
    BY <1>14 DEF ForgetPending
  <2>2. c[1] \notin Keys
    BY CallNames
  <2>3. \A row \in index : row.manifest \in Keys => row \in index'
    BY <1>a, <2>1, <2>2 DEF WithoutEntry, EntryKey
  <2>4. \A k \in Keys : EntryOf(k)' = EntryOf(k)
    BY <2>1 DEF EntryOf, Present
  <2>5. \A a \in Archives : Recording(a) \/ Interrupted(a) => Recording(a)' \/ Interrupted(a)'
    BY <1>14, <1>d, <2>1, OwnCall
  <2> QED BY <1>b, <2>1, <2>3, <2>4, <2>5, RowsStay
<1>15. ASSUME NEW c \in Calls, Evict(c), UNCHANGED protocolVars PROVE StoredBytesAreCounted'
  <2>1. /\ UNCHANGED <<index, indexReady>> /\ calls[c].pc = "evict"
        /\ \A d \in Calls : d # c => calls'[d] = calls[d]
    BY <1>15, Moving DEF Evict, TypeOK, Operating
  <2>2. /\ \A o \in Objects : objects'[o] = objects[o] \/ objects'[o].size = 0
        /\ \A k \in Keys : manifests'[k] = manifests[k] \/ manifests'[k].archive = None
    BY <1>15 DEF Evict, Absent, NoManifest, TypeOK
  <2>3. \A k \in Keys : EntryOf(k)' \in {EntryOf(k), None}
    <3> SUFFICES ASSUME NEW k \in Keys, EntryOf(k)' # None PROVE EntryOf(k)' = EntryOf(k)
      OBVIOUS
    <3>1. manifests'[k].archive # None /\ Present(manifests[k].archive)'
      BY DEF EntryOf
    <3>2. manifests'[k] = manifests[k] /\ manifests[k].archive \in Objects
      BY <1>a, <2>2, <3>1
    <3>3. Present(manifests[k].archive)
      BY <2>2, <3>1, <3>2 DEF Present
    <3> QED BY <3>1, <3>2, <3>3 DEF EntryOf
  <2>4. \A k \in Keys : EntryOf(k)' # None => objects'[EntryOf(k)].size = objects[EntryOf(k)].size
    <3> SUFFICES ASSUME NEW k \in Keys, EntryOf(k)' # None
                 PROVE  objects'[EntryOf(k)].size = objects[EntryOf(k)].size
      OBVIOUS
    <3>1. EntryOf(k)' = EntryOf(k) /\ Present(EntryOf(k))'
      BY <2>3 DEF EntryOf
    <3>2. EntryOf(k) \in Objects
      BY <1>a, <1>b, <3>1
    <3> QED BY <2>2, <3>1, <3>2 DEF Present
  <2>5. \A a \in Archives : Recording(a) \/ Interrupted(a) => Recording(a)' \/ Interrupted(a)'
    BY <1>d, <2>1
  <2> QED BY <1>b, <2>1, <2>3, <2>4, <2>5, RowsStay
<1>16. ASSUME NEW c \in Calls, DropEvicted(c), UNCHANGED protocolVars PROVE StoredBytesAreCounted'
  <2>1. /\ calls[c].pc = "evicted" /\ UNCHANGED <<objects, manifests, indexReady>>
        /\ index' = WithoutEntry(index, EntryKey(calls[c].victim))
    BY <1>16 DEF DropEvicted, EnforceQuota
  <2>2. calls[c].victim \in index
    BY <2>1 DEF Victims
  <2>3. \A k \in Keys : EntryOf(k)' = EntryOf(k)
    BY <2>1 DEF EntryOf, Present
  <2>4. ASSUME NEW row \in index, row.manifest \in Keys, EntryOf(row.manifest)' # None
        PROVE  row \in index'
    <3>1. EntryKey(row) = row.manifest
      BY <1>a, <2>4 DEF EntryKey
    <3>2. CASE calls[c].victim.manifest \in Keys
      <4>1. EntryOf(calls[c].victim.manifest) = None
        BY <2>1, <3>2 DEF Emptied, EntryOf
      <4>2. row.manifest # calls[c].victim.manifest
        BY <2>3, <2>4, <4>1
      <4> QED BY <1>a, <2>1, <3>1, <3>2, <4>2 DEF WithoutEntry, EntryKey
    <3>3. CASE calls[c].victim.manifest = None
      <4>1. EntryKey(calls[c].victim) \in Archives \cup LegacyKeys
        BY <1>a, <2>2, <3>3 DEF EntryKey
      <4>2. EntryKey(calls[c].victim) # EntryKey(row)
        BY <2>4, <3>1, <4>1 DEF Objects
      <4> QED BY <2>1, <4>2 DEF WithoutEntry
    <3> QED BY <1>a, <2>2, <3>2, <3>3
  <2>5. \A a \in Archives : Recording(a) \/ Interrupted(a) => Recording(a)' \/ Interrupted(a)'
    BY <1>16, <1>d, <2>1, OwnCall
  <2> QED BY <1>b, <2>1, <2>3, <2>4, <2>5, RowsStay
<1>17. CASE UNCHANGED vars
  BY <1>1, <1>17 DEF vars
<1> QED BY <1>2, <1>3, <1>4, <1>5, <1>6, <1>7, <1>8, <1>9, <1>10, <1>11, <1>12, <1>13,
           <1>14, <1>15, <1>16, <1>17 DEF Next

\* Once there is an index, every archive that restores find has a row with its
\* size, so that evictions can reach it; apart from commits that are between the
\* manifest and the row, or were interrupted there.
THEOREM StoredBytesStayCounted == Spec => []StoredBytesAreCounted
<1>1. Init => Emptied /\ StoredBytesAreCounted
  BY DEF Init, QuotaInit, Emptied, StoredBytesAreCounted, NoCall
<1> QED BY <1>1, StepsStayEmptied, StepsStayCounted, Consistency, PTL DEF Spec

-----------------------------------------------------------------------------
(* The quota. *)

\* The only call for its object.
Sole(c) == \A d \in Calls \ {c} : d[1] = c[1] => ~Issued(d)

\* An operation past the index has one, and the index is finite.
Indexed ==
    /\ IsFiniteSet(index)
    /\ \A c \in Calls : Operation(c) /\ calls[c].pc # "index" => indexReady

\* A legacy object that was put once has the size its call says.
Sized ==
    \A c \in Calls : c[1] \in LegacyKeys /\ Issued(c) /\ Sole(c) /\ Present(c[1]) =>
        objects[c[1]].size = calls[c].size

\* Once that call was performed, or while there is none, its row has that size.
Unlisting == {"waiting", "index", "failed"}
RowOf(l) == \E row \in index : row.object = l /\ row.manifest = None /\ row.size = objects[l].size
Listed ==
    \A c \in Calls : /\ c[1] \in LegacyKeys /\ Sole(c) /\ Present(c[1]) /\ indexReady
                     /\ calls[c].pc \notin Unlisting
                     => RowOf(c[1])

\* A legacy object that is there again when its row is dropped will be recorded.
Overwritten ==
    \A c \in Calls : /\ calls[c].pc = "evicted" /\ calls[c].victim.object \in LegacyKeys
                     /\ Present(calls[c].victim.object)
                     => \E d \in Calls : d[1] = calls[c].victim.object /\ calls[d].pc = "waiting"

Metered == Indexed /\ Sized /\ Listed /\ Overwritten

Operates(c) == Begin(c) \/ Operate(c) \/ Interrupt(c)

\* How an operation moves its call.
LEMMA OperationMoves ==
    ASSUME IInv, NEW c \in Calls, Operates(c)
    PROVE  /\ \A d \in Calls : d # c => calls'[d] = calls[d]
           /\ calls'[c].size = calls[c].size
           /\ Issued(c) /\ Issued(c)'
           /\ \A d \in Calls : calls'[d].pc = "waiting" => calls[d].pc = "waiting"
           /\ calls'[c].pc = "evicted" => Evict(c)
<1>1. calls \in [Calls -> Call]
  BY DEF IInv, TypeOK
<1>a. ASSUME NEW pc \in (Operating \cup Answers), calls' = Moved(c, pc)
      PROVE  /\ \A d \in Calls : d # c => calls'[d] = calls[d]
             /\ calls'[c].size = calls[c].size /\ calls'[c].pc = pc
  <2>1. pc \in {"idle", "waiting"} \cup Operating \cup Answers
    OBVIOUS
  <2>2. /\ Moved(c, pc)[c].pc = pc /\ Moved(c, pc)[c].size = calls[c].size
        /\ \A d \in Calls : d # c => Moved(c, pc)[d] = calls[d]
    BY <1>1, <2>1, Moving
  <2> QED BY <1>a, <2>2
<1>b. ASSUME NEW rows, EnforceQuota(c, rows)
      PROVE  /\ \A d \in Calls : d # c => calls'[d] = calls[d]
             /\ calls'[c].size = calls[c].size
             /\ calls'[c].pc \in {"stored", "retained", "dropped", "evict"}
  <2>1. Answer(c, rows) \in {"stored", "retained", "dropped"}
    BY DEF Answer
  <2> QED BY <1>1, <1>b, <2>1 DEF EnforceQuota, Call
<1>c. ASSUME NEW rows, Perform(c, rows)
      PROVE  /\ \A d \in Calls : d # c => calls'[d] = calls[d]
             /\ calls'[c].size = calls[c].size
             /\ calls'[c].pc \notin {"idle", "waiting", "evicted"}
  BY <1>a, <1>b, <1>c DEF Perform, Operating
<1>2. CASE Begin(c)
  <2>1. CASE indexReady
    BY <1>2, <1>c, <2>1 DEF Begin, Issued
  <2>2. CASE ~indexReady
    BY <1>2, <1>a, <2>2 DEF Begin, Issued, Operating
  <2> QED BY <2>1, <2>2
<1>3. CASE EnsureIndex(c)
  BY <1>3, <1>c DEF EnsureIndex, Issued
<1>4. CASE PutManifest(c)
  <2>1. \E pc \in {"record", "compare"} : calls' = Moved(c, pc)
    BY <1>4 DEF PutManifest
  <2> QED BY <1>4, <1>a, <2>1 DEF PutManifest, Issued, Operating
<1>5. CASE RecordEntry(c) \/ DropEvicted(c)
  BY <1>5, <1>b DEF RecordEntry, DropEvicted, Issued
<1>6. CASE CompareManifest(c)
  <2>1. \E pc \in {"stored", "discard"} : calls' = Moved(c, pc)
    BY <1>6 DEF CompareManifest
  <2> QED BY <1>6, <1>a, <2>1 DEF CompareManifest, Issued, Operating, Answers
<1>7. CASE DiscardArchive(c)
  BY <1>7, <1>a DEF DiscardArchive, Issued, Operating
<1>8. CASE ForgetPending(c)
  <2>1. \E pc \in {"too-large", "already-exists"} : calls' = Moved(c, pc)
    BY <1>8 DEF ForgetPending
  <2> QED BY <1>8, <1>a, <2>1 DEF ForgetPending, Issued, Answers
<1>9. CASE Evict(c)
  BY <1>9, <1>a DEF Evict, Issued, Operating
<1>10. CASE Interrupt(c)
  <2>1. calls[c].pc \notin {"idle", "waiting"}
    BY <1>10 DEF Interrupt, Operation, Operating
  <2> QED BY <1>1, <1>10, <2>1 DEF Interrupt, Issued, Call
<1> QED BY <1>2, <1>3, <1>4, <1>5, <1>6, <1>7, <1>8, <1>9, <1>10 DEF Operates, Operate

\* What the other steps do: a call may begin to wait.
Outside ==
    \/ \E r \in Runners : Assign(r)
    \/ \E a \in Archives : CreateUpload(a) \/ UploadPart(a) \/ CompleteUpload(a)
    \/ \E c \in Calls : Finalize(c) \/ Return(c) \/ LegacyPut(c)
    \/ UNCHANGED vars

LEMMA StepsAreInOrOut ==
    [Next]_vars => Outside \/ \E c \in Calls : Operates(c)
BY DEF Next, Outside, Operates, Operate

LEMMA OutsideMoves ==
    ASSUME IInv, Outside
    PROVE  /\ UNCHANGED <<index, indexReady>>
           /\ \A d \in Calls :
                 \/ calls'[d] = calls[d]
                 \/ /\ calls[d].pc = "idle" /\ calls'[d].pc = "waiting"
                    /\ d[1] \in LegacyKeys => objects'[d[1]].size = calls'[d].size
           /\ \A l \in LegacyKeys :
                 \/ objects'[l] = objects[l]
                 \/ \E c \in Calls : /\ c[1] = l /\ calls[c].pc = "idle" /\ calls'[c].pc = "waiting"
                                     /\ objects'[l].size = calls'[c].size
<1>1. calls \in [Calls -> Call] /\ objects \in [Objects -> Object] /\ LegacyKeys \subseteq Objects
  BY DEF IInv, TypeOK, Objects
<1>2. ASSUME NEW a \in Archives, CompleteUpload(a) PROVE \A l \in LegacyKeys : objects'[l] = objects[l]
  <2>1. a \notin LegacyKeys
    BY QuotaAssumption
  <2> QED BY <1>1, <1>2, <2>1 DEF CompleteUpload
<1>3. ASSUME NEW a \in Archives, CompleteUpload(a) PROVE UNCHANGED <<index, indexReady, calls>>
  BY <1>3 DEF CompleteUpload
<1>4. ASSUME NEW r \in Runners, Assign(r) PROVE UNCHANGED quotaVars
  BY <1>4 DEF Assign
<1>5. ASSUME NEW a \in Archives, CreateUpload(a) \/ UploadPart(a) PROVE UNCHANGED quotaVars
  BY <1>5 DEF CreateUpload, UploadPart
<1>6. ASSUME NEW c \in Calls, Return(c) PROVE UNCHANGED quotaVars
  BY <1>6 DEF Return
<1>7. ASSUME NEW c \in Calls, Finalize(c)
      PROVE  /\ UNCHANGED <<index, indexReady, objects>>
             /\ calls[c].pc = "idle" /\ calls'[c].pc = "waiting" /\ c[1] \notin LegacyKeys
             /\ \A d \in Calls : d # c => calls'[d] = calls[d]
  BY <1>1, <1>7, CallNames DEF Finalize, NextCall, Issued
<1>8. ASSUME NEW c \in Calls, LegacyPut(c)
      PROVE  /\ UNCHANGED <<index, indexReady>>
             /\ calls[c].pc = "idle" /\ calls'[c].pc = "waiting"
             /\ \A d \in Calls : d # c => calls'[d] = calls[d]
             /\ \A l \in LegacyKeys : l # c[1] => objects'[l] = objects[l]
             /\ objects'[c[1]].size = calls'[c].size
  <2>1. PICK size \in Sizes[c[1]] :
          /\ objects' = [objects EXCEPT ![c[1]] = [size |-> size, at |-> clock]]
          /\ calls' = [calls EXCEPT ![c] = [NoCall EXCEPT !.pc = "waiting", !.size = size, !.created = clock]]
    BY <1>8 DEF LegacyPut
  <2>2. c[1] \in Objects
    BY CallNames
  <2>3. objects'[c[1]].size = size /\ \A l \in Objects : l # c[1] => objects'[l] = objects[l]
    BY <1>1, <2>1, <2>2
  <2>4. calls'[c].size = size /\ calls'[c].pc = "waiting" /\ \A d \in Calls : d # c => calls'[d] = calls[d]
    BY <1>1, <2>1 DEF NoCall
  <2>5. calls[c].pc = "idle" /\ UNCHANGED <<index, indexReady>>
    BY <1>8 DEF LegacyPut, NextCall, Issued
  <2> QED BY <1>1, <2>3, <2>4, <2>5
<1>9. CASE UNCHANGED quotaVars
  BY <1>9 DEF quotaVars
<1>10. ASSUME NEW a \in Archives, CompleteUpload(a)
       PROVE  /\ UNCHANGED <<index, indexReady, calls>> /\ \A l \in LegacyKeys : objects'[l] = objects[l]
  BY <1>2, <1>3, <1>10
<1> HIDE DEF quotaVars
<1>11. CASE \E a \in Archives : CompleteUpload(a)
  BY <1>10, <1>11
<1>12. CASE \E c \in Calls : Finalize(c)
  BY <1>7, <1>12
<1>13. CASE \E c \in Calls : LegacyPut(c)
  BY <1>8, <1>13
<1>14. UNCHANGED vars => UNCHANGED quotaVars
  BY DEF vars
<1> QED BY <1>4, <1>5, <1>6, <1>9, <1>11, <1>12, <1>13, <1>14 DEF Outside

\* A call that is alone for its object was so before.
LEMMA SoleBefore ==
    ASSUME \A d \in Calls : Issued(d) => Issued(d)', NEW c \in Calls, Sole(c)'
    PROVE  Sole(c)
BY DEF Sole

LEMMA OperationsIssue ==
    ASSUME IInv, NEW c \in Calls, Operates(c)
    PROVE  \A d \in Calls : Issued(d)' <=> Issued(d)
BY OperationMoves DEF Issued

LEMMA OutsideIssues ==
    ASSUME IInv, Outside
    PROVE  \A d \in Calls : Issued(d) => Issued(d)' /\ calls'[d] = calls[d]
BY OutsideMoves DEF Issued

\* Operations delete objects; those of archives never touch a legacy object.
LEMMA OperationsDelete ==
    ASSUME IInv, NEW c \in Calls, Operates(c), NEW l \in LegacyKeys
    PROVE  Present(l)' => objects'[l] = objects[l] /\ Present(l)
<1>1. objects \in [Objects -> Object] /\ l \in Objects
  BY DEF IInv, TypeOK, Objects
<1>2. CASE DiscardArchive(c)
  <2>1. c[1] # l
    BY <1>2, QuotaAssumption DEF DiscardArchive, IInv, Requested
  <2> QED BY <1>1, <1>2, <2>1 DEF DiscardArchive, Present
<1>3. CASE Evict(c)
  BY <1>1, <1>3 DEF Evict, Present, Absent
<1>4. CASE UNCHANGED objects
  BY <1>4 DEF Present
<1> QED BY <1>2, <1>3, <1>4 DEF Operates, Operate, Begin, EnsureIndex, PutManifest, RecordEntry,
           CompareManifest, ForgetPending, DropEvicted, Interrupt

-----------------------------------------------------------------------------
(* Each part of the invariant. *)

LEMMA RebuiltIsFinite == IsFiniteSet(RebuiltIndex)
<1> DEFINE F == [k \in Keys |-> [object |-> manifests[k].archive, manifest |-> k,
                                 size |-> objects[manifests[k].archive].size, created |-> manifests[k].created]]
           G == [o \in Objects |-> [object |-> o, manifest |-> None, size |-> objects[o].size,
                                    created |-> objects[o].at]]
           saved == {k \in Keys : manifests[k].archive # None /\ Present(manifests[k].archive)}
           rest == {o \in Objects : Present(o) /\ \A row \in RowsOfManifests : row.object # o}
<1>1. IsFiniteSet(saved) /\ IsFiniteSet(rest)
  BY QuotaAssumption, FS_Subset
<1>2. RowsOfManifests = {F[k] : k \in saved}
  BY DEF RowsOfManifests
<1>3. RowsOfOtherObjects = {G[o] : o \in rest}
  BY DEF RowsOfOtherObjects
<1> HIDE DEF F, G, saved, rest
<1>4. IsFiniteSet(RowsOfManifests) /\ IsFiniteSet(RowsOfOtherObjects)
  BY <1>1, <1>2, <1>3, ImageIsFinite
<1> QED BY <1>4, FS_Union DEF RebuiltIndex

LEMMA StepsStayIndexed == IInv /\ Indexed /\ [Next]_vars => Indexed'
<1> SUFFICES ASSUME IInv, Indexed, [Next]_vars PROVE Indexed'
  OBVIOUS
<1>a. ASSUME NEW rows, IsFiniteSet(rows), NEW row
      PROVE  IsFiniteSet(WithRow(rows, row)) /\ IsFiniteSet(WithoutEntry(rows, row))
  <2>1. \A entry : IsFiniteSet(WithoutEntry(rows, entry))
    BY <1>a, FS_Subset DEF WithoutEntry
  <2> QED BY <2>1, FS_AddElement DEF WithRow
<1>b. ASSUME NEW c \in Calls, NEW rows, IsFiniteSet(rows), Perform(c, rows)
      PROVE  IsFiniteSet(index')
  BY <1>a, <1>b DEF Perform, EnforceQuota
<1>1. CASE Outside
  BY <1>1, OutsideMoves DEF Indexed, Operation, Operating
<1>2. ASSUME NEW c \in Calls, Operates(c) PROVE Indexed'
  <2>1. IsFiniteSet(index')
    <3>1. CASE Begin(c)
      BY <1>b, <3>1 DEF Begin, Indexed
    <3>2. CASE EnsureIndex(c)
      BY <1>b, <3>2, RebuiltIsFinite DEF EnsureIndex
    <3>3. CASE RecordEntry(c)
      BY <1>a, <3>3 DEF RecordEntry, EnforceQuota, Indexed
    <3>4. CASE ForgetPending(c)
      BY <1>a, <3>4 DEF ForgetPending, Indexed
    <3>5. CASE DropEvicted(c)
      BY <1>a, <3>5 DEF DropEvicted, EnforceQuota, Indexed
    <3>6. CASE UNCHANGED index
      BY <3>6 DEF Indexed
    <3> QED BY <1>2, <3>1, <3>2, <3>3, <3>4, <3>5, <3>6
            DEF Operates, Operate, PutManifest, CompareManifest, DiscardArchive, Evict, Interrupt
  <2>2. indexReady => indexReady'
    BY <1>2 DEF Operates, Operate, Begin, EnsureIndex, PutManifest, RecordEntry, CompareManifest,
                DiscardArchive, ForgetPending, Evict, DropEvicted, Interrupt
  <2>3. Operation(c)' /\ calls'[c].pc # "index" => indexReady'
    <3>1. CASE Begin(c)
      BY <3>1, Moving DEF Begin, IInv, TypeOK, Operating
    <3>2. CASE EnsureIndex(c)
      BY <3>2 DEF EnsureIndex
    <3>3. CASE \/ PutManifest(c) \/ RecordEntry(c) \/ CompareManifest(c) \/ DiscardArchive(c)
               \/ ForgetPending(c) \/ Evict(c) \/ DropEvicted(c)
      BY <2>2, <3>3 DEF PutManifest, RecordEntry, CompareManifest, DiscardArchive, ForgetPending, Evict,
                        DropEvicted, Indexed, Operation, Operating
    <3>4. CASE Interrupt(c)
      <4>1. calls'[c].pc = "failed"
        BY <3>4 DEF Interrupt, IInv, TypeOK, Call
      <4> QED BY <4>1 DEF Operation, Operating
    <3> QED BY <1>2, <3>1, <3>2, <3>3, <3>4 DEF Operates, Operate
  <2> QED BY <1>2, <2>1, <2>2, <2>3, OperationMoves DEF Indexed, Operation
<1> QED BY <1>1, <1>2, StepsAreInOrOut

LEMMA StepsStaySized == IInv /\ Sized /\ [Next]_vars => Sized'
<1> SUFFICES ASSUME IInv, Sized, [Next]_vars,
                    NEW d \in Calls, d[1] \in LegacyKeys, Issued(d)', Sole(d)', Present(d[1])'
             PROVE  objects'[d[1]].size = calls'[d].size
  BY DEF Sized
<1>1. CASE Outside
  <2>1. Sole(d)
    BY <1>1, OutsideIssues, SoleBefore
  <2>2. CASE objects'[d[1]] = objects[d[1]]
    <3>1. CASE Issued(d)
      <4>1. calls'[d] = calls[d]
        BY <1>1, <3>1, OutsideIssues
      <4> QED BY <2>1, <2>2, <3>1, <4>1 DEF Sized, Present
    <3>2. CASE ~Issued(d)
      BY <1>1, <3>2, OutsideMoves DEF Issued
    <3> QED BY <3>1, <3>2
  <2>3. CASE \E c \in Calls : /\ c[1] = d[1] /\ calls[c].pc = "idle" /\ calls'[c].pc = "waiting"
                              /\ objects'[d[1]].size = calls'[c].size
    BY <2>3 DEF Sole, Issued
  <2> QED BY <1>1, <2>2, <2>3, OutsideMoves
<1>2. ASSUME NEW c \in Calls, Operates(c) PROVE objects'[d[1]].size = calls'[d].size
  <2>1. Sole(d) /\ Issued(d)
    BY <1>2, OperationsIssue, SoleBefore
  <2>2. objects'[d[1]] = objects[d[1]] /\ Present(d[1])
    BY <1>2, OperationsDelete
  <2>3. calls'[d].size = calls[d].size
    BY <1>2, OperationMoves
  <2> QED BY <2>1, <2>2, <2>3 DEF Sized
<1> QED BY <1>1, <1>2, StepsAreInOrOut

LEMMA StepsStayOverwritten == IInv /\ Overwritten /\ [Next]_vars => Overwritten'
<1> SUFFICES ASSUME IInv, Overwritten, [Next]_vars,
                    NEW e \in Calls, calls'[e].pc = "evicted", calls'[e].victim.object \in LegacyKeys,
                    objects'[calls'[e].victim.object].size > 0
             PROVE  \E d \in Calls : d[1] = calls'[e].victim.object /\ calls'[d].pc = "waiting"
  BY DEF Overwritten, Present
<1> DEFINE l == calls'[e].victim.object
<1>1. CASE Outside
  <2>1. calls'[e] = calls[e]
    BY <1>1, OutsideMoves
  <2>2. CASE objects'[l] = objects[l]
    <3>1. PICK d \in Calls : d[1] = l /\ calls[d].pc = "waiting"
      BY <2>1, <2>2 DEF Overwritten, Present
    <3>2. calls'[d] = calls[d]
      BY <1>1, <3>1, OutsideMoves
    <3> QED BY <3>1, <3>2
  <2>3. CASE \E c \in Calls : c[1] = l /\ calls[c].pc = "idle" /\ calls'[c].pc = "waiting"
    BY <2>3
  <2> HIDE DEF l
  <2>4. l \in LegacyKeys
    BY DEF l
  <2> QED BY <1>1, <2>2, <2>3, <2>4, OutsideMoves DEF l
<1>2. ASSUME NEW c \in Calls, Operates(c) PROVE FALSE
  <2>1. ASSUME e # c PROVE FALSE
    <3>1. calls[e].pc = "evicted" /\ Operation(e)
      BY <1>2, <2>1, OperationMoves DEF Operation, Operating
    <3>2. ~Operation(c)
      BY <2>1, <3>1, Alone DEF IInv
    <3>3. Begin(c)
      BY <1>2, <3>2 DEF Operates, Operate, EnsureIndex, PutManifest, RecordEntry, CompareManifest,
                        DiscardArchive, ForgetPending, Evict, DropEvicted, Interrupt, Operation, Operating
    <3> QED BY <3>1, <3>3 DEF Begin, Free
  <2>2. Evict(c) /\ e = c
    BY <1>2, <2>1, OperationMoves
  <2>3. calls'[c].victim = calls[c].victim
    BY <2>2, Moving DEF Evict, IInv, TypeOK, Operating
  <2>4. calls[c].victim.object = l /\ l \in Objects
    BY <2>2, <2>3 DEF Objects
  <2>5. objects'[l] = Absent
    <3>1. objects' = [objects EXCEPT ![calls[c].victim.object] = Absent] /\ objects \in [Objects -> Object]
      BY <2>2 DEF Evict, IInv, TypeOK
    <3> HIDE DEF l
    <3> QED BY <2>4, <3>1
  <2> QED BY <2>5 DEF Present, Absent
<1> QED BY <1>1, <1>2, StepsAreInOrOut

\* The rows that a performed call leaves.
LEMMA PerformingLists ==
    ASSUME IInv, NEW c \in Calls, Operates(c), Sized, NEW rows, Perform(c, rows), UNCHANGED objects,
           NEW d \in Calls, d[1] \in LegacyKeys, Sole(d), Present(d[1]),
           d # c => \E row \in rows : row.object = d[1] /\ row.manifest = None /\ row.size = objects[d[1]].size
    PROVE  RowOf(d[1])'
<1>1. CASE c[1] \in Archives
  <2>1. index' = rows /\ d # c
    BY <1>1, CallNames DEF Perform
  <2> QED BY <2>1 DEF RowOf
<1>2. CASE c[1] \in LegacyKeys
  <2> DEFINE new == [object |-> c[1], manifest |-> None, size |-> calls[c].size, created |-> calls[c].created]
  <2>1. index' = WithRow(rows, new)
    BY <1>2, CallNames DEF Perform, EnforceQuota
  <2>2. new.object = c[1] /\ new.manifest = None /\ new.size = calls[c].size /\ EntryKey(new) = c[1]
    BY DEF EntryKey
  <2> HIDE DEF new
  <2>3. CASE d = c
    <3>1. new \in index' /\ Issued(c)
      BY <2>1, OperationMoves DEF WithRow
    <3>2. objects[c[1]].size = calls[c].size
      BY <2>3, <3>1 DEF Sized
    <3> QED BY <2>2, <2>3, <3>1, <3>2 DEF RowOf
  <2>4. CASE d # c
    <3>1. PICK row \in rows : row.object = d[1] /\ row.manifest = None /\ row.size = objects[d[1]].size
      BY <2>4
    <3>2. d[1] # c[1]
      BY <2>4, OperationMoves DEF Sole
    <3>3. row \in index'
      BY <2>1, <2>2, <3>1, <3>2 DEF WithRow, WithoutEntry, EntryKey
    <3> QED BY <3>1, <3>3 DEF RowOf
  <2> QED BY <2>3, <2>4
<1> QED BY <1>1, <1>2, CallNames

LEMMA StepsStayListed == IInv /\ Sized /\ Overwritten /\ Listed /\ [Next]_vars => Listed'
<1> SUFFICES ASSUME IInv, Sized, Overwritten, Listed, [Next]_vars,
                    NEW d \in Calls, d[1] \in LegacyKeys, Sole(d)', Present(d[1])', indexReady',
                    calls'[d].pc \notin Unlisting
             PROVE  RowOf(d[1])'
  BY DEF Listed
<1> DEFINE l == d[1]
<1>a. l \in Objects /\ l \notin Keys /\ l \notin Archives /\ None \notin Keys
  BY QuotaAssumption DEF Objects
<1>b. ASSUME RowOf(l), UNCHANGED <<index, objects>> PROVE RowOf(l)'
  BY <1>b DEF RowOf
<1>1. CASE Outside
  <2>1. /\ UNCHANGED <<index, indexReady>> /\ calls'[d] = calls[d]
        /\ Sole(d)
    BY <1>1, OutsideMoves, OutsideIssues, SoleBefore DEF Unlisting
  <2>2. objects'[l] = objects[l]
    <3> SUFFICES ASSUME NEW c \in Calls, c[1] = l, calls[c].pc = "idle", calls'[c].pc = "waiting"
                 PROVE  FALSE
      BY <1>1, OutsideMoves
    <3> QED BY <2>1 DEF Sole, Issued, Unlisting
  <2>3. RowOf(l)
    BY <2>1, <2>2 DEF Listed, Present
  <2> QED BY <2>1, <2>2, <2>3 DEF RowOf
<1>2. ASSUME NEW c \in Calls, Operates(c) PROVE RowOf(l)'
  <2>1. Sole(d) /\ Present(l) /\ objects'[l] = objects[l]
    BY <1>2, OperationsIssue, SoleBefore, OperationsDelete
  <2>2. d # c => calls'[d] = calls[d]
    BY <1>2, OperationMoves
  <2>3. ASSUME indexReady, calls[d].pc \notin Unlisting
        PROVE  RowOf(l)
    BY <2>1, <2>3 DEF Listed
  <2>4. CASE Begin(c)
    <3>1. indexReady /\ UNCHANGED objects /\ calls[c].pc = "waiting"
      BY <2>4 DEF Begin
    <3>2. CASE indexReady
      <4>1. Perform(c, index)
        BY <2>4, <3>2 DEF Begin
      <4>2. d # c => RowOf(l)
        BY <2>2, <2>3, <3>1
      <4> QED BY <1>2, <2>1, <3>1, <4>1, <4>2, PerformingLists DEF RowOf
    <3> QED BY <3>1, <3>2
  <2>5. CASE EnsureIndex(c)
    <3>1. Perform(c, RebuiltIndex) /\ UNCHANGED objects
      BY <2>5 DEF EnsureIndex
    <3> DEFINE row == [object |-> l, manifest |-> None, size |-> objects[l].size, created |-> objects[l].at]
    <3>2. \A other \in RowsOfManifests : other.object # l
      BY <1>a, Fields DEF RowsOfManifests, IInv
    <3>3. row \in RebuiltIndex
      BY <1>a, <2>1, <3>2 DEF RowsOfOtherObjects, RebuiltIndex
    <3>4. row.object = l /\ row.manifest = None /\ row.size = objects[l].size
      OBVIOUS
    <3> HIDE DEF row
    <3> QED BY <1>2, <2>1, <3>1, <3>3, <3>4, PerformingLists
  <2>6. ASSUME UNCHANGED indexReady, calls[c].pc \notin Unlisting,
               \A row \in index : row.object = l /\ row.manifest = None => row \in index'
        PROVE  RowOf(l)'
    <3>1. indexReady /\ calls[d].pc \notin Unlisting
      BY <2>2, <2>6
    <3> QED BY <2>1, <2>3, <2>6, <3>1 DEF RowOf
  <2>7. CASE PutManifest(c) \/ CompareManifest(c) \/ DiscardArchive(c) \/ Evict(c)
    <3>1. UNCHANGED <<index, indexReady>> /\ calls[c].pc \in {"put", "compare", "discard", "evict"}
      BY <2>7 DEF PutManifest, CompareManifest, DiscardArchive, Evict
    <3> QED BY <2>6, <3>1 DEF Unlisting
  <2>8. CASE RecordEntry(c)
    <3> DEFINE new == [object |-> c[1], manifest |-> calls[c].key,
                       size |-> calls[c].size, created |-> calls[c].created]
    <3>1. /\ calls[c].pc = "record" /\ UNCHANGED indexReady
          /\ index' = WithRow(WithoutEntry(index, c[1]), new)
      BY <2>8 DEF RecordEntry, EnforceQuota
    <3>2. c[1] \in Archives /\ calls[c].key \in Keys
      BY <3>1 DEF IInv, TypeOK, Requested, Issued, Call
    <3>3. EntryKey(new) # l /\ c[1] # l
      BY <1>a, <3>2 DEF EntryKey
    <3> HIDE DEF new
    <3>4. \A row \in index : row.object = l /\ row.manifest = None => row \in index'
      BY <3>1, <3>3 DEF WithRow, WithoutEntry, EntryKey
    <3> QED BY <2>6, <3>1, <3>4 DEF Unlisting
  <2>9. CASE ForgetPending(c)
    <3>1. /\ calls[c].pc = "forget" /\ UNCHANGED indexReady /\ index' = WithoutEntry(index, c[1])
      BY <2>9 DEF ForgetPending
    <3>2. c[1] # l
      BY <1>a, <3>1 DEF IInv, Requested
    <3>3. \A row \in index : row.object = l /\ row.manifest = None => row \in index'
      BY <3>1, <3>2 DEF WithoutEntry, EntryKey
    <3> QED BY <2>6, <3>1, <3>3 DEF Unlisting
  <2>10. CASE DropEvicted(c)
    <3> DEFINE victim == calls[c].victim
    <3>1. /\ calls[c].pc = "evicted" /\ UNCHANGED indexReady /\ index' = WithoutEntry(index, EntryKey(victim))
      BY <2>10 DEF DropEvicted, EnforceQuota
    <3>2. EntryKey(victim) # l
      <4>1. victim \in index
        BY <3>1 DEF IInv, Victims
      <4>2. victim.manifest \in Keys \cup {None}
        BY <4>1, Fields DEF IInv
      <4> SUFFICES ASSUME victim.object = l PROVE FALSE
        BY <1>a, <4>2 DEF EntryKey
      <4>3. PICK e \in Calls : e[1] = l /\ calls[e].pc = "waiting"
        BY <2>1, <3>1 DEF Overwritten
      <4>4. e # d
        BY <2>2, <3>1, <4>3 DEF Unlisting
      <4> QED BY <2>1, <4>3, <4>4 DEF Sole, Issued
    <3> HIDE DEF victim
    <3>3. \A row \in index : row.object = l /\ row.manifest = None => row \in index'
      BY <3>1, <3>2 DEF WithoutEntry, EntryKey
    <3> QED BY <2>6, <3>1, <3>3 DEF Unlisting
  <2>11. CASE Interrupt(c)
    <3>1. UNCHANGED <<index, indexReady, objects>> /\ calls'[c].pc = "failed"
      BY <2>11 DEF Interrupt, IInv, TypeOK, Call
    <3>2. d # c
      BY <3>1 DEF Unlisting
    <3> QED BY <1>b, <2>2, <2>3, <3>1, <3>2
  <2> QED BY <1>2, <2>4, <2>5, <2>7, <2>8, <2>9, <2>10, <2>11 DEF Operates, Operate
<1> QED BY <1>1, <1>2, StepsAreInOrOut

LEMMA MeteredStarts == Init => Metered
<1> SUFFICES ASSUME Init PROVE Metered
  OBVIOUS
<1>1. index = {} /\ indexReady = FALSE /\ \A c \in Calls : calls[c].pc = "idle"
  BY DEF Init, QuotaInit, NoCall
<1> QED BY <1>1, FS_EmptySet DEF Metered, Indexed, Sized, Listed, Overwritten, Operation, Operating, Issued

-----------------------------------------------------------------------------
(* Counting. *)

\* Between operations the index counts what the cache holds.
HeldIsCounted ==
    indexReady /\ (\A c \in Calls : ~Operation(c)) =>
        BytesHeld \in Int /\ TotalBytes(index) \in Int /\ BytesHeld <= TotalBytes(index)

LEMMA CountedHasRow ==
    ASSUME IInv, StoredBytesAreCounted, Metered, indexReady, \A c \in Calls : ~Operation(c),
           NEW o \in CountedObjects
    PROVE  /\ o \in Objects
           /\ Present(o) => \E row \in index : row.object = o /\ row.size = objects[o].size
<1>1. CASE o \in LegacyKeys /\ PutOnce(o)
  <2>1. PICK c \in Calls : /\ c[1] = o /\ calls[c].pc \notin {"waiting", "failed"}
                           /\ \A d \in Calls \ {c} : d[1] = o => ~Issued(d)
    BY <1>1 DEF PutOnce
  <2>2. calls[c].pc \notin Unlisting /\ Sole(c)
    BY <2>1 DEF Unlisting, Operation, Operating, Sole
  <2>3. Present(o) => RowOf(o)
    BY <1>1, <2>1, <2>2 DEF Metered, Listed
  <2> QED BY <1>1, <2>3 DEF RowOf, Objects
<1>2. CASE \E k \in Keys : o = EntryOf(k) /\ o # None /\ o \notin {a \in Archives : Interrupted(a)}
  <2>1. PICK k \in Keys : o = EntryOf(k) /\ o # None /\ o \notin {a \in Archives : Interrupted(a)}
    BY <1>2
  <2>2. o = manifests[k].archive /\ o \in Archives
    BY <2>1, Fields DEF EntryOf, IInv
  <2>3. ~Interrupted(o) /\ ~Recording(o)
    BY <2>1, <2>2 DEF Recording, Operation, Operating
  <2>4. \E row \in index : row.manifest = k /\ row.object = o /\ row.size = objects[o].size
    BY <2>1, <2>3 DEF StoredBytesAreCounted
  <2> QED BY <2>2, <2>4 DEF Objects
<1> QED BY <1>1, <1>2 DEF CountedObjects

LEMMA HeldIsIndexed == IInv /\ StoredBytesAreCounted /\ Metered => HeldIsCounted
<1> SUFFICES ASSUME IInv, StoredBytesAreCounted, Metered, indexReady, \A c \in Calls : ~Operation(c)
             PROVE  BytesHeld \in Int /\ TotalBytes(index) \in Int /\ BytesHeld <= TotalBytes(index)
  BY DEF HeldIsCounted
<1> DEFINE C == CountedObjects
           P == {o \in C : Present(o)}
           f == [o \in C |-> objects[o].size]
           g == [row \in index |-> row.size]
           h == [o \in P |-> CHOOSE row \in index : row.object = o /\ row.size = objects[o].size]
           image == {h[o] : o \in P}
<1>1. C \subseteq Objects /\ IsFiniteSet(C) /\ IsFiniteSet(P) /\ P \in SUBSET C /\ IsFiniteSet(index)
  BY CountedHasRow, QuotaAssumption, FS_Subset DEF Metered, Indexed
<1>2. /\ \A o \in C : objects[o].size \in Nat
      /\ \A row \in index : row.size \in Nat
  BY <1>1 DEF IInv, TypeOK, Object, Row
<1>3. ASSUME NEW o \in P PROVE h[o] \in index /\ h[o].object = o /\ h[o].size = objects[o].size
  <2>1. \E row \in index : row.object = o /\ row.size = objects[o].size
    BY CountedHasRow
  <2> QED BY <2>1
<1>4. image \in SUBSET index /\ \A o, p \in P : h[o] = h[p] => o = p
  BY <1>3
<1>5. /\ \A o \in C : f[o] \in Int
      /\ \A o \in C \ P : f[o] = 0
      /\ \A row \in index : g[row] \in Nat
      /\ \A o \in P : g[h[o]] = f[o] /\ g[h[o]] \in Int
  <2>1. \A o \in C \ P : objects[o].size = 0
    BY <1>2 DEF Present
  <2> HIDE DEF C, h
  <2> QED BY <1>1, <1>2, <1>3, <2>1
<1>6. BytesHeld = SumFunctionOnSet(f, C) /\ TotalBytes(index) = SumFunctionOnSet(g, index)
  BY DEF BytesHeld, TotalBytes
<1> DEFINE gh == [o \in P |-> g[h[o]]]
<1>7. \A o \in P : gh[o] = f[o]
  BY <1>5
<1> HIDE DEF C, P, f, g, h
<1>8. SumFunctionOnSet(f, C) = SumFunctionOnSet(f, P)
  BY <1>1, <1>5, SumOfSupport
<1>9. SumFunctionOnSet(g, image) = SumFunctionOnSet(gh, P)
  BY <1>1, <1>4, <1>5, SumReindexed
<1> HIDE DEF image, gh
<1>10. SumFunctionOnSet(gh, P) = SumFunctionOnSet(f, P)
  BY <1>1, <1>7, SumSame
<1>11. SumFunctionOnSet(g, image) <= SumFunctionOnSet(g, index)
  BY <1>1, <1>4, <1>5, SumOfPart
<1>12. SumFunctionOnSet(f, C) \in Int /\ SumFunctionOnSet(g, index) \in Int
  BY <1>1, <1>5, SumType
<1> QED BY <1>6, <1>8, <1>9, <1>10, <1>11, <1>12

\* Only the end of a commit, of a legacy record or of an eviction answers with success.
LEMMA EndsWithinQuota ==
    ASSUME IInv, [Next]_vars, NEW c \in Calls, calls[c].pc \in {"record", "evicted"},
           calls'[c].pc \in {"stored", "retained", "dropped"}, Indexed
    PROVE  indexReady' /\ (\A d \in Calls : ~Operation(d)') /\ TotalBytes(index') <= MaxBytes
<1>1. Operation(c) /\ indexReady
  BY DEF Operation, Operating, Indexed
<1>2. ~Outside
  BY OutsideMoves
<1>3. PICK e \in Calls : Operates(e)
  BY <1>2, StepsAreInOrOut
<1>4. e = c
  BY <1>3, OperationMoves
<1>5. RecordEntry(c) \/ DropEvicted(c)
  <2>1. ~Interrupt(c)
    BY DEF Interrupt, IInv, TypeOK, Call
  <2> QED BY <1>3, <1>4, <2>1 DEF Operates, Operate, Begin, EnsureIndex, PutManifest, CompareManifest,
             DiscardArchive, ForgetPending, Evict
<1>6. PICK rows : EnforceQuota(c, rows) /\ UNCHANGED indexReady
  BY <1>5 DEF RecordEntry, DropEvicted
<1>7. TotalBytes(rows) <= MaxBytes /\ index' = rows
  <2>1. ASSUME NEW row, calls' = [calls EXCEPT ![c].pc = "evict", ![c].victim = row] PROVE FALSE
    BY <2>1 DEF IInv, TypeOK, Call
  <2> QED BY <1>6, <2>1 DEF EnforceQuota
<1>8. \A d \in Calls : ~Operation(d)'
  BY <1>1, <1>3, <1>4, Alone, OperationMoves DEF IInv, Operation, Operating
<1> QED BY <1>1, <1>6, <1>7, <1>8

\* When an operation has enforced the quota, what the cache holds is within it: the
\* archives that restores find, those of interrupted commits apart, and the legacy
\* objects that were not put twice at once.
THEOREM CommitsStayWithinQuota == Spec => CommitsKeepTheQuota
<1>1. IInv /\ Metered /\ [Next]_vars => Metered'
  BY StepsStayIndexed, StepsStaySized, StepsStayOverwritten, StepsStayListed DEF Metered
<1>2. Spec => []Metered
  BY <1>1, MeteredStarts, Consistency, PTL DEF Spec
<1>3. Spec => []HeldIsCounted
  BY <1>2, HeldIsIndexed, Consistency, StoredBytesStayCounted, PTL
<1>4. ASSUME IInv, Metered, IInv', HeldIsCounted', [Next]_vars
      PROVE  [\A c \in Calls :
                calls[c].pc \in {"record", "evicted"} /\ calls'[c].pc \in {"stored", "retained", "dropped"} =>
                   BytesHeld' <= MaxBytes]_vars
  <2> SUFFICES ASSUME NEW c \in Calls, calls[c].pc \in {"record", "evicted"},
                      calls'[c].pc \in {"stored", "retained", "dropped"}
               PROVE  BytesHeld' <= MaxBytes
    OBVIOUS
  <2>1. indexReady' /\ (\A d \in Calls : ~Operation(d)') /\ TotalBytes(index') <= MaxBytes
    BY <1>4, EndsWithinQuota DEF Metered
  <2>2. BytesHeld' <= TotalBytes(index)' /\ TotalBytes(index)' = TotalBytes(index')
    BY <1>4, <2>1 DEF HeldIsCounted, TotalBytes
  <2>3. BytesHeld' \in Int /\ TotalBytes(index)' \in Int /\ MaxBytes \in Int
    BY <1>4, <2>1, QuotaAssumption DEF HeldIsCounted
  <2> QED BY <2>1, <2>2, <2>3
<1> QED BY <1>2, <1>3, <1>4, Consistency, PTL DEF Spec, CommitsKeepTheQuota
=============================================================================
