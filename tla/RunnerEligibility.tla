-------------------------- MODULE RunnerEligibility --------------------------
(***************************************************************************)
(* The eligibility coordinator of one GitHub job (runner-eligibility.ts)   *)
(* and the Checks GitHub keeps for it.                                     *)
(*                                                                         *)
(* Deliveries, retries and the provisioning workflow all ask for the same  *)
(* authorization, and every rejection reports the same failed Check.       *)
(* Reports of one object instance share one operation (activeCheckReport); *)
(* a lease in SQLite keeps the next instance from creating a second Check  *)
(* while a request of an instance that is gone may still reach GitHub.     *)
(*                                                                         *)
(* Time is a clock.  A request reaches GitHub within RequestTimeout of     *)
(* being sent or not at all, and its sender has an outcome by then: that   *)
(* is AbortSignal.timeout, and what is assumed of the network.  A sender   *)
(* whose request fails does not know whether GitHub will still see it.     *)
(***************************************************************************)
EXTENDS Integers, FiniteSets

CONSTANTS
    Calls,          \* authorize RPCs, redeliveries and retries included
    Identities,     \* repository and head SHA that a call for the job may state
    Pages,          \* pages of Checks a search reads at most
    RequestTimeout, \* githubCheckRequestTimeoutMs
    Lease,          \* checkCreationLeaseMs
    MaxTime,        \* bound: the clock stops there
    MaxChecks,      \* bound: Checks that are ever created
    MaxRestarts,    \* bound: restarts of the object
    None

\* Finding the known Check missing, reading the pages, updating the Check that
\* was found and creating one: the lease outlasts what its holder can send.
LongestReport == (Pages + 3) * RequestTimeout

ASSUME EligibilityAssumption ==
    /\ Pages \in Nat \ {0} /\ RequestTimeout \in Nat \ {0}
    /\ Lease \in Nat /\ Lease > LongestReport
    /\ MaxTime \in Nat /\ MaxChecks \in Nat /\ MaxRestarts \in Nat
    /\ None \notin Identities \cup Nat

VARIABLES
    row,      \* SQLite: the only row of eligibility_check, or None
    report,   \* memory: the report in progress (activeCheckReport)
    calls,    \* call -> where it is and the identity it states
    checks,   \* GitHub: the Checks that exist
    created,  \* number of Checks ever created
    pending,  \* creations without a sender that GitHub may still see
    late,     \* history: commits for which a creation landed after it had failed
    now,      \* the clock
    restarts

vars == <<row, report, calls, checks, created, pending, late, now, restarts>>

CheckIds == 1 .. MaxChecks
Row == [identity : Identities, checkRun : CheckIds \cup {None},
        state : {"idle", "creating", "ready"}, startedAt : Nat \cup {None}]
Requests == {"update", "list", "update-found", "create", "created"}
Report == [pc : Requests, timestamp : Nat, sentAt : Nat, page : 1 .. Pages,
           check : CheckIds \cup {None}, identity : Identities]
Check == [id : CheckIds, identity : Identities]
Creation == [identity : Identities, deadline : Nat, failed : BOOLEAN]

ASSUME NoneAssumption == None \notin Row \cup Report

Active(c) == calls[c].pc \in {"token", "visibility", "reporting"}

\* Types, and what the three columns of the row say of each other.
TypeOK ==
    /\ row \in Row \cup {None}
    /\ row # None => /\ row.state = "ready" <=> row.checkRun # None
                     /\ row.state = "creating" <=> row.startedAt # None
    /\ report \in Report \cup {None}
    /\ calls \in [Calls -> [pc : {"idle", "token", "visibility", "reporting",
                                  "private", "reported", "rejected"},
                            identity : Identities \cup {None}]]
    /\ checks \subseteq Check
    /\ created \in 0 .. MaxChecks
    /\ pending \subseteq Creation
    /\ late \subseteq Identities
    /\ now \in 0 .. MaxTime
    /\ restarts \in 0 .. MaxRestarts

Init ==
    /\ row = None /\ report = None
    /\ calls = [c \in Calls |-> [pc |-> "idle", identity |-> None]]
    /\ checks = {} /\ created = 0 /\ pending = {} /\ late = {}
    /\ now = 0 /\ restarts = 0

ChecksOf(identity) == {k \in checks : k.identity = identity}
Answered(c, answer) == [calls EXCEPT ![c].pc = answer]

-----------------------------------------------------------------------------
(* The row. *)

NewRow(identity) ==
    [identity |-> identity, checkRun |-> None, state |-> "idle", startedAt |-> None]

\* initializeCheckState: INSERT OR IGNORE.
Initialized(identity) == IF row = None THEN NewRow(identity) ELSE row

\* Mutant: a creation that was interrupted may be claimed at once.
ClaimableAtOnce(r, timestamp) == r.checkRun = None

Claimable(r, timestamp) ==
    /\ r.checkRun = None
    /\ r.state # "idle" /\ r.startedAt # None => r.startedAt + Lease <= timestamp

\* Mutant: the lease starts when it is taken, which storing does not expect.
ClaimedNow(r, timestamp) ==
    [r EXCEPT !.state = "creating", !.startedAt = timestamp + 1]

Claimed(r, timestamp) == [r EXCEPT !.state = "creating", !.startedAt = timestamp]

\* resetCreation and storeCheckRun, each for the lease of its own timestamp.
ResetCreation(timestamp) ==
    IF row # None /\ row.checkRun = None /\ row.startedAt = timestamp
    THEN [row EXCEPT !.state = "idle", !.startedAt = None] ELSE row

\* Mutant of StoredCheckRun: the lease is not ended.
StoredUnderLease(id, timestamp) ==
    IF row # None /\ row.startedAt = timestamp
    THEN [row EXCEPT !.checkRun = id, !.state = "ready"] ELSE row

StoredCheckRun(id, timestamp) ==
    IF row # None /\ row.startedAt = timestamp
    THEN [row EXCEPT !.checkRun = id, !.state = "ready", !.startedAt = None] ELSE row

\* clearMissingCheckRun.
Cleared(r) == [r EXCEPT !.checkRun = None, !.state = "idle", !.startedAt = None]

-----------------------------------------------------------------------------
(* Calls. *)

\* authorize, up to its first request.  A call without an installation ID and
\* a call that states another identity than the row end here.
Authorize(c, identity) ==
    /\ calls[c].pc = "idle"
    /\ row' = Initialized(identity)
    /\ \E pc \in IF row'.identity = identity THEN {"token", "rejected"} ELSE {"rejected"} :
          calls' = [calls EXCEPT ![c] = [pc |-> pc, identity |-> identity]]
    /\ UNCHANGED <<report, checks, created, pending, late, now, restarts>>

Token(c) ==
    /\ calls[c].pc = "token"
    /\ \E pc \in {"visibility", "rejected"} : calls' = Answered(c, pc)
    /\ UNCHANGED <<row, report, checks, created, pending, late, now, restarts>>

\* Everything that waits for the report gets its result.
AnswerReports(answer) ==
    [c \in Calls |-> IF calls[c].pc = "reporting" THEN [calls[c] EXCEPT !.pc = answer] ELSE calls[c]]

\* Send the report's next request.
Sent(r, pc) == [r EXCEPT !.pc = pc, !.sentAt = now]

NewReport(c) ==
    [pc |-> "update", timestamp |-> now, sentAt |-> now, page |-> 1, check |-> None,
     identity |-> calls[c].identity]

\* GitHub says what the repository is, or fails to; only a private one passes.
Private(c) ==
    /\ calls[c].pc = "visibility"
    /\ calls' = Answered(c, "private")
    /\ UNCHANGED <<row, report, checks, created, pending, late, now, restarts>>

\* A rejection joins the report in progress.
JoinReport(c) ==
    /\ calls[c].pc = "visibility"
    /\ report # None
    /\ calls' = Answered(c, "reporting")
    /\ UNCHANGED <<row, report, checks, created, pending, late, now, restarts>>

\* reportCheckOnce, up to its first request.
StartReport(c) ==
    /\ calls[c].pc = "visibility"
    /\ report = None
    /\ LET r == Initialized(calls[c].identity)
       IN  \/ /\ r.identity = calls[c].identity /\ r.checkRun # None
              /\ row' = r
              /\ report' = [NewReport(c) EXCEPT !.check = r.checkRun]
              /\ calls' = Answered(c, "reporting")
           \/ /\ r.identity = calls[c].identity /\ Claimable(r, now)
              /\ row' = Claimed(r, now)
              /\ report' = [NewReport(c) EXCEPT !.pc = "list"]
              /\ calls' = Answered(c, "reporting")
           \/ /\ r.identity # calls[c].identity \/ (r.checkRun = None /\ ~Claimable(r, now))
              /\ row' = r
              /\ calls' = Answered(c, "rejected")
              /\ UNCHANGED report
    /\ UNCHANGED <<checks, created, pending, late, now, restarts>>

-----------------------------------------------------------------------------
(* The report. *)

At(pc) == report # None /\ report.pc = pc

EndReport(answer) ==
    /\ report' = None
    /\ calls' = AnswerReports(answer)

\* The Check of the row is updated; or the request fails and the row stays.
UpdateKnown ==
    /\ At("update")
    /\ \/ report.check \in {k.id : k \in checks} /\ EndReport("reported")
       \/ EndReport("rejected")
    /\ UNCHANGED <<row, checks, created, pending, late, now, restarts>>

\* GitHub does not know the Check any more: clearMissingCheckRun, then the claim.
KnownIsMissing ==
    /\ At("update")
    /\ report.check \notin {k.id : k \in checks}
    /\ IF row = None THEN row' = row /\ EndReport("rejected")
       ELSE LET r == IF row.checkRun = report.check THEN Cleared(row) ELSE row
            IN  IF Claimable(r, report.timestamp)
                THEN /\ row' = Claimed(r, report.timestamp)
                     /\ report' = [Sent(report, "list") EXCEPT !.check = None]
                     /\ UNCHANGED calls
                ELSE row' = r /\ EndReport("rejected")
    /\ UNCHANGED <<checks, created, pending, late, now, restarts>>

\* findEligibilityCheck: the Check is on some page; a short page is the last.
SearchPage ==
    /\ At("list")
    /\ \/ /\ report.page < Pages
          /\ report' = [Sent(report, "list") EXCEPT !.page = report.page + 1]
       \/ \E k \in ChecksOf(report.identity) :
             report' = [Sent(report, "update-found") EXCEPT !.check = k.id]
       \/ /\ ChecksOf(report.identity) = {}
          /\ report' = Sent(report, "create")
    /\ UNCHANGED <<row, calls, checks, created, pending, late, now, restarts>>

\* The Check that was found is updated, and the row names it.
UpdateFound ==
    /\ At("update-found")
    /\ IF report.check \in {k.id : k \in checks}
       THEN row' = StoredCheckRun(report.check, report.timestamp) /\ EndReport("reported")
       ELSE report' = Sent(report, "create") /\ UNCHANGED <<row, calls>>
    /\ UNCHANGED <<checks, created, pending, late, now, restarts>>

NewCheck(identity) ==
    /\ created < MaxChecks
    /\ created' = created + 1
    /\ checks' = checks \cup {[id |-> created + 1, identity |-> identity]}

\* GitHub has the request; the answer is still under way.
CreateLands ==
    /\ At("create")
    /\ NewCheck(report.identity)
    /\ report' = [report EXCEPT !.pc = "created", !.check = created + 1]
    /\ UNCHANGED <<row, calls, pending, late, now, restarts>>

CreateAnswered ==
    /\ At("created")
    /\ row' = StoredCheckRun(report.check, report.timestamp)
    /\ EndReport("reported")
    /\ UNCHANGED <<checks, created, pending, late, now, restarts>>

\* The creation that is lost with its sender, or has failed for it, while
\* GitHub may still see it.  (Of two failed ones with one deadline the set keeps
\* one: after the first has landed the second tells the properties nothing.)
Outlives(failed) ==
    IF At("create")
    THEN {[identity |-> report.identity, deadline |-> report.sentAt + RequestTimeout, failed |-> failed]}
    ELSE {}

\* A request of the claimed part fails or times out, whether or not GitHub
\* has created the Check or still will.
ReportFails ==
    /\ report # None /\ report.pc # "update"
    /\ row' = ResetCreation(report.timestamp)
    /\ EndReport("rejected")
    /\ pending' = pending \cup Outlives(TRUE)
    /\ UNCHANGED <<checks, created, late, now, restarts>>

-----------------------------------------------------------------------------
(* The environment. *)

\* The instance is lost and with it the report; its callers get an exception,
\* which runnerEligibilityFor takes as a rejection.
Restart ==
    /\ restarts < MaxRestarts
    /\ restarts' = restarts + 1
    /\ report' = None
    /\ calls' = [c \in Calls |-> IF Active(c) THEN [calls[c] EXCEPT !.pc = "rejected"] ELSE calls[c]]
    /\ pending' = pending \cup Outlives(FALSE)
    /\ UNCHANGED <<row, checks, created, late, now>>

PendingLands ==
    /\ \E p \in pending :
          /\ NewCheck(p.identity)
          /\ pending' = pending \ {p}
          /\ late' = IF p.failed THEN late \cup {p.identity} ELSE late
    /\ UNCHANGED <<row, report, calls, now, restarts>>

\* The Check disappears from GitHub.
Disappear(k) ==
    /\ k \in checks
    /\ checks' = checks \ {k}
    /\ UNCHANGED <<row, report, calls, created, pending, late, now, restarts>>

\* The row is deleted 30 days after the last call, which is longer than any
\* call, lease or request.
Alarm ==
    /\ row # None
    /\ \A c \in Calls : ~Active(c)
    /\ report = None /\ pending = {}
    /\ row' = None
    /\ UNCHANGED <<report, calls, checks, created, pending, late, now, restarts>>

\* A request has an outcome before its timeout; one that is lost is forgotten.
Tick ==
    /\ now < MaxTime
    /\ report # None => now < report.sentAt + RequestTimeout
    /\ now' = now + 1
    /\ pending' = {p \in pending : now' <= p.deadline}
    /\ UNCHANGED <<row, report, calls, checks, created, late, restarts>>

-----------------------------------------------------------------------------

Next ==
    \/ \E c \in Calls, identity \in Identities : Authorize(c, identity)
    \/ \E c \in Calls : Token(c)
    \/ \E c \in Calls : Private(c)
    \/ \E c \in Calls : JoinReport(c)
    \/ \E c \in Calls : StartReport(c)
    \/ UpdateKnown
    \/ KnownIsMissing
    \/ SearchPage
    \/ UpdateFound
    \/ CreateLands
    \/ CreateAnswered
    \/ ReportFails
    \/ Restart
    \/ PendingLands
    \/ \E k \in checks : Disappear(k)
    \/ Alarm
    \/ Tick

Spec == Init /\ [][Next]_vars

\* What permission_spec.md asks for: redeliveries and retries "must converge on
\* at most one eligibility Check per GitHub job".  It does not hold: a creation
\* that has failed for its report, which ends the lease, may land after the next
\* report has searched.
AtMostOneCheck ==
    \A j, k \in checks : j.identity = k.identity => j = k

\* What the lease and the search do ensure: however calls, retries, lost
\* instances and Checks that disappear interleave, GitHub gets a second Check for
\* a commit only after a creation that was reported as failed has landed there.
DuplicatesFollowFailures ==
    \A j, k \in checks : j.identity = k.identity => j = k \/ j.identity \in late

\* A call that is told its rejection was reported leaves a row that names a
\* Check GitHub created for it: the next report updates that Check.
ReportsAreRemembered ==
    [][\A c \in Calls : calls[c].pc = "reporting" /\ calls'[c].pc = "reported" =>
          /\ row' # None /\ row'.state = "ready" /\ row'.identity = calls[c].identity
          /\ row'.checkRun \in 1 .. created]_vars
=============================================================================
