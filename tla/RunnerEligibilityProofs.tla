---------------------- MODULE RunnerEligibilityProofs ----------------------
(***************************************************************************)
(* Proofs about RunnerEligibility, for any calls, identities and timeouts, *)
(* and any number of restarts.                                             *)
(*                                                                         *)
(* DuplicatesFollowFailures is not inductive: a request of an instance     *)
(* that is gone may create a Check after the last look at GitHub.  IInv    *)
(* says why it cannot: until the deadline of that request the row is       *)
(* creating under a lease that has not run out, so no report is going on,  *)
(* none can claim the creation, and GitHub has no Check for the commit     *)
(* (unless a creation that had failed, and so had lost its lease, landed). *)
(***************************************************************************)
EXTENDS RunnerEligibility, TLAPS

\* A report works on the row: it updates the Check of the row, or it holds the
\* lease of the row.  Whoever calls does so for the identity of the row.
Serving ==
    /\ report # None =>
          /\ row # None /\ row.identity = report.identity
          /\ \A p \in pending : p.failed
          /\ report.pc = "update" => row.state = "ready" /\ row.checkRun = report.check
          /\ report.pc # "update" => row.state = "creating" /\ row.startedAt = report.timestamp
    /\ \A c \in Calls :
          /\ Active(c) => row # None /\ calls[c].identity = row.identity
          /\ calls[c].pc = "reporting" => report # None

\* When the requests of a report were sent: the lease outlasts them all.
Timely ==
    report # None =>
        /\ report.sentAt <= now /\ now <= report.sentAt + RequestTimeout
        /\ report.pc = "update" => report.sentAt <= report.timestamp
        /\ report.pc = "list" => report.sentAt <= report.timestamp + report.page * RequestTimeout
        /\ report.pc = "update-found" =>
              report.sentAt <= report.timestamp + Pages * RequestTimeout + RequestTimeout
        /\ report.pc = "create" =>
              report.sentAt <= report.timestamp + Pages * RequestTimeout + RequestTimeout + RequestTimeout

\* What a report has learned from its search.
Searched ==
    report # None =>
        \/ report.identity \in late
        \/ /\ report.pc = "update-found" => \A k \in ChecksOf(report.identity) : k.id = report.check
           /\ report.pc = "create" => ChecksOf(report.identity) = {}

\* A creation under way from an instance that is gone.
Outstanding ==
    \A p \in pending : ~p.failed =>
        /\ row # None /\ row.identity = p.identity
        /\ row.state = "creating" /\ p.deadline < row.startedAt + Lease
        /\ now <= p.deadline
        /\ p.identity \in late \/ ChecksOf(p.identity) = {}
        /\ \A q \in pending : q.failed \/ q = p

\* Checks are numbered as they are created.
Numbered ==
    /\ \A k \in checks : k.id <= created
    /\ row # None /\ row.checkRun # None => row.checkRun <= created
    /\ report # None => /\ report.check # None => report.check <= created
                        /\ report.pc \in {"update", "update-found", "created"} => report.check # None

IInv == TypeOK /\ DuplicatesFollowFailures /\ Serving /\ Timely /\ Searched /\ Outstanding /\ Numbered

-----------------------------------------------------------------------------
(* The requests of one report, added up. *)

LEMMA Products ==
    /\ \A p \in Nat : (p + 1) * RequestTimeout = p * RequestTimeout + RequestTimeout
    /\ \A p \in Nat : p <= Pages => p * RequestTimeout <= Pages * RequestTimeout
    /\ \A p \in Nat : p * RequestTimeout \in Nat
    /\ 1 * RequestTimeout = RequestTimeout
    /\ Lease > Pages * RequestTimeout + RequestTimeout + RequestTimeout + RequestTimeout
<1> USE EligibilityAssumption DEF LongestReport
<1>1. ASSUME NEW p \in Nat PROVE (p + 1) * RequestTimeout = p * RequestTimeout + RequestTimeout
  OBVIOUS
<1>2. ASSUME NEW p \in Nat, p <= Pages PROVE p * RequestTimeout <= Pages * RequestTimeout
  <2>1. PICK d \in Nat : Pages = p + d
    <3>1. Pages - p \in Nat /\ Pages = p + (Pages - p)
      BY <1>2
    <3> QED BY <3>1
  <2>2. Pages * RequestTimeout = p * RequestTimeout + d * RequestTimeout
    BY <2>1
  <2>3. d * RequestTimeout \in Nat /\ p * RequestTimeout \in Nat
    BY <2>1
  <2> QED BY <2>2, <2>3
<1>3. ASSUME NEW p \in Nat PROVE p * RequestTimeout \in Nat
  OBVIOUS
<1>4. (Pages + 3) * RequestTimeout = Pages * RequestTimeout + RequestTimeout + RequestTimeout + RequestTimeout
  OBVIOUS
<1> QED BY <1>1, <1>2, <1>3, <1>4

LEMMA InitIsConsistent == Init => IInv
BY EligibilityAssumption DEF Init, IInv, TypeOK, DuplicatesFollowFailures, Serving, Timely, Searched, Outstanding,
   Numbered, Active, ChecksOf, CheckIds

-----------------------------------------------------------------------------
(* The record updates of the actions, field by field. *)

LEMMA Sending ==
    ASSUME NEW r \in Report, NEW pc \in Requests, now \in Nat
    PROVE  /\ Sent(r, pc) \in Report /\ Sent(r, pc) # None
           /\ Sent(r, pc).pc = pc /\ Sent(r, pc).sentAt = now
           /\ Sent(r, pc).timestamp = r.timestamp /\ Sent(r, pc).page = r.page
           /\ Sent(r, pc).check = r.check /\ Sent(r, pc).identity = r.identity
BY NoneAssumption DEF Report, Sent

LEMMA OfCheck ==
    ASSUME NEW r \in Report, NEW check \in CheckIds \cup {None},
           NEW r1, r1 = [r EXCEPT !.check = check]
    PROVE  /\ r1 \in Report /\ r1 # None
           /\ r1.check = check
           /\ r1.pc = r.pc /\ r1.sentAt = r.sentAt /\ r1.timestamp = r.timestamp
           /\ r1.page = r.page /\ r1.identity = r.identity
BY NoneAssumption DEF Report

LEMMA OfPage ==
    ASSUME NEW r \in Report, NEW page \in 1 .. Pages,
           NEW r1, r1 = [r EXCEPT !.page = page]
    PROVE  /\ r1 \in Report /\ r1 # None
           /\ r1.page = page
           /\ r1.pc = r.pc /\ r1.sentAt = r.sentAt /\ r1.timestamp = r.timestamp
           /\ r1.check = r.check /\ r1.identity = r.identity
BY NoneAssumption DEF Report

LEMMA AtLeastOneRequest ==
    ASSUME NEW p \in Nat, p >= 1
    PROVE  RequestTimeout <= p * RequestTimeout
<1>1. p - 1 \in Nat /\ 1 * RequestTimeout = RequestTimeout /\ p = (p - 1) + 1
  BY Products
<1>2. p * RequestTimeout = (p - 1) * RequestTimeout + RequestTimeout
  BY <1>1, Products
<1>3. (p - 1) * RequestTimeout \in Nat
  BY <1>1, Products
<1> QED BY <1>2, <1>3, EligibilityAssumption

\* What outlives its sender is a creation for the identity of the report.
LEMMA Outliving ==
    ASSUME NEW failed \in BOOLEAN, report # None => report \in Report
    PROVE  /\ Outlives(failed) \subseteq Creation
           /\ \A p \in Outlives(failed) :
                 /\ report # None /\ report.pc = "create" /\ p.failed = failed
                 /\ p.identity = report.identity /\ p.deadline = report.sentAt + RequestTimeout
           /\ \A p, q \in Outlives(failed) : p = q
<1>1. CASE At("create")
  <2>1. report # None /\ report \in Report /\ report.pc = "create"
    BY <1>1 DEF At
  <2>2. Outlives(failed) = {[identity |-> report.identity, deadline |-> report.sentAt + RequestTimeout,
                             failed |-> failed]}
    BY <1>1 DEF Outlives
  <2>3. report.identity \in Identities /\ report.sentAt + RequestTimeout \in Nat
    BY <2>1, EligibilityAssumption DEF Report
  <2> QED BY <2>1, <2>2, <2>3 DEF Creation
<1>2. CASE ~At("create")
  BY <1>2 DEF Outlives
<1> QED BY <1>1, <1>2

LEMMA RowUpdates ==
    ASSUME NEW r \in Row, NEW timestamp \in Nat
    PROVE  /\ Claimed(r, timestamp) \in Row /\ Claimed(r, timestamp) # None
           /\ Claimed(r, timestamp).identity = r.identity
           /\ Claimed(r, timestamp).state = "creating"
           /\ Claimed(r, timestamp).startedAt = timestamp
           /\ Claimed(r, timestamp).checkRun = r.checkRun
           /\ Cleared(r) \in Row /\ Cleared(r) # None
           /\ Cleared(r).identity = r.identity
           /\ Cleared(r).state = "idle"
           /\ Cleared(r).startedAt = None
           /\ Cleared(r).checkRun = None
BY NoneAssumption DEF Row, Claimed, Cleared

-----------------------------------------------------------------------------

\* A report that ends leaves a row for its identity with no lease.
LEMMA EndKeepsConsistency ==
    ASSUME IInv, report # None, NEW answer \in {"reported", "rejected"}, EndReport(answer),
           UNCHANGED <<checks, created, late, now, restarts>>,
           pending' \subseteq Creation, \A p \in pending' : p.failed,
           row' \in Row, row' # None, row'.identity = row.identity, row'.startedAt = None,
           row'.state \in {"idle", "ready"}, row'.state = "ready" <=> row'.checkRun # None,
           row'.checkRun # None => row'.checkRun <= created
    PROVE  IInv'
<1> USE EligibilityAssumption, NoneAssumption DEF IInv, TypeOK, CheckIds
<1>1. /\ report' = None
      /\ calls' = [c \in Calls |-> IF calls[c].pc = "reporting" THEN [calls[c] EXCEPT !.pc = answer] ELSE calls[c]]
  BY DEF EndReport, AnswerReports, Serving
<1>2. TypeOK'
  <2>1. None \notin Nat
    OBVIOUS
  <2> QED BY <1>1, <2>1 DEF Row
<1>3. DuplicatesFollowFailures'
  BY DEF DuplicatesFollowFailures
<1>4. Serving'
  BY <1>1 DEF Serving, Active
<1>5. Timely' /\ Searched' /\ Outstanding'
  BY <1>1 DEF Timely, Searched, Outstanding
<1>6. Numbered'
  BY <1>1 DEF Numbered
<1> QED BY <1>2, <1>3, <1>4, <1>5, <1>6

LEMMA StoringKeepsConsistency ==
    ASSUME IInv, report # None, report.pc # "update", NEW id \in CheckIds, id <= created,
           row' = StoredCheckRun(id, report.timestamp), EndReport("reported"),
           UNCHANGED <<checks, created, pending, late, now, restarts>>
    PROVE  IInv'
<1> USE EligibilityAssumption, NoneAssumption DEF IInv, TypeOK, CheckIds
<1>1. row \in Row /\ row # None /\ row.startedAt = report.timestamp
  BY DEF Serving
<1>2. row' = [row EXCEPT !.checkRun = id, !.state = "ready", !.startedAt = None]
  BY <1>1 DEF StoredCheckRun
<1>3. /\ row' \in Row /\ row' # None /\ row'.identity = row.identity /\ row'.state = "ready"
      /\ row'.startedAt = None /\ row'.checkRun = id
  <2>1. row \in Row /\ id \in CheckIds \cup {None} /\ None \notin Row
    BY <1>1
  <2> HIDE DEF IInv, TypeOK, CheckIds
  <2>2. row' \in Row
    BY ONLY <1>2, <2>1 DEF Row
  <2>3. row'.identity = row.identity /\ row'.state = "ready" /\ row'.startedAt = None /\ row'.checkRun = id
    BY ONLY <1>2, <2>1 DEF Row
  <2> QED BY <2>1, <2>2, <2>3
<1>4. id # None
  OBVIOUS
<1>5. pending' \subseteq Creation /\ \A p \in pending' : p.failed
  BY DEF Serving
<1> QED BY <1>3, <1>4, <1>5, EndKeepsConsistency

LEMMA StepsKeepConsistency == IInv /\ [Next]_vars => IInv'
<1> SUFFICES ASSUME IInv, [Next]_vars PROVE IInv'
  OBVIOUS
<1> USE EligibilityAssumption, NoneAssumption DEF IInv, TypeOK, Row, Report, Check, Creation, CheckIds, Requests
<1>1. ASSUME NEW c \in Calls, NEW identity \in Identities, Authorize(c, identity) PROVE IInv'
  <2>1. TypeOK'
    BY <1>1 DEF Authorize, Initialized, NewRow
  <2>2. DuplicatesFollowFailures'
    BY <1>1 DEF Authorize, DuplicatesFollowFailures
  <2>3. Serving'
    BY <1>1 DEF Authorize, Initialized, NewRow, Active, Serving
  <2>4. Timely'
    BY <1>1 DEF Authorize, Timely
  <2>5. Searched'
    BY <1>1 DEF Authorize, Searched, ChecksOf
  <2>6. Outstanding'
    BY <1>1 DEF Authorize, Initialized, Outstanding, ChecksOf
  <2>7. Numbered'
    BY <1>1 DEF Authorize, Initialized, NewRow, Numbered
  <2> QED BY <2>1, <2>2, <2>3, <2>4, <2>5, <2>6, <2>7 DEF IInv
<1>2. ASSUME NEW c \in Calls, Token(c) PROVE IInv'
  <2>1. TypeOK'
    BY <1>2 DEF Token, Answered
  <2>2. DuplicatesFollowFailures'
    BY <1>2 DEF Token, DuplicatesFollowFailures
  <2>3. Serving'
    BY <1>2 DEF Token, Answered, Active, Serving
  <2>4. Timely'
    BY <1>2 DEF Token, Timely
  <2>5. Searched'
    BY <1>2 DEF Token, Searched, ChecksOf
  <2>6. Outstanding'
    BY <1>2 DEF Token, Outstanding, ChecksOf
  <2>7. Numbered'
    BY <1>2 DEF Token, Numbered
  <2> QED BY <2>1, <2>2, <2>3, <2>4, <2>5, <2>6, <2>7 DEF IInv
<1>3. ASSUME NEW c \in Calls, Private(c) PROVE IInv'
  <2>1. TypeOK'
    BY <1>3 DEF Private, Answered
  <2>2. DuplicatesFollowFailures'
    BY <1>3 DEF Private, DuplicatesFollowFailures
  <2>3. Serving'
    BY <1>3 DEF Private, Answered, Active, Serving
  <2>4. Timely'
    BY <1>3 DEF Private, Timely
  <2>5. Searched'
    BY <1>3 DEF Private, Searched, ChecksOf
  <2>6. Outstanding'
    BY <1>3 DEF Private, Outstanding, ChecksOf
  <2>7. Numbered'
    BY <1>3 DEF Private, Numbered
  <2> QED BY <2>1, <2>2, <2>3, <2>4, <2>5, <2>6, <2>7 DEF IInv
<1>4. ASSUME NEW c \in Calls, JoinReport(c) PROVE IInv'
  <2>1. TypeOK'
    BY <1>4 DEF JoinReport, Answered
  <2>2. DuplicatesFollowFailures'
    BY <1>4 DEF JoinReport, DuplicatesFollowFailures
  <2>3. Serving'
    BY <1>4 DEF JoinReport, Answered, Active, Serving
  <2>4. Timely'
    BY <1>4 DEF JoinReport, Timely
  <2>5. Searched'
    BY <1>4 DEF JoinReport, Searched, ChecksOf
  <2>6. Outstanding'
    BY <1>4 DEF JoinReport, Outstanding, Serving
  <2>7. Numbered'
    BY <1>4 DEF JoinReport, Numbered
  <2> QED BY <2>1, <2>2, <2>3, <2>4, <2>5, <2>6, <2>7 DEF IInv
<1>5. ASSUME NEW c \in Calls, StartReport(c) PROVE IInv'
  <2> DEFINE unclaimed == [pc |-> "update", timestamp |-> now, sentAt |-> now, page |-> 1, check |-> None,
                           identity |-> calls[c].identity]
  <2>a. /\ report = None /\ calls[c].pc = "visibility" /\ row \in Row /\ row # None
        /\ row.identity = calls[c].identity /\ calls[c].identity \in Identities
        /\ UNCHANGED <<checks, created, pending, late, now, restarts>>
    BY <1>5 DEF StartReport, Serving, Active
  <2>b. \/ /\ row.checkRun # None /\ row' = row /\ report' = [unclaimed EXCEPT !.check = row.checkRun]
           /\ calls' = [calls EXCEPT ![c].pc = "reporting"]
        \/ /\ Claimable(row, now) /\ row' = Claimed(row, now) /\ report' = [unclaimed EXCEPT !.pc = "list"]
           /\ calls' = [calls EXCEPT ![c].pc = "reporting"]
        \/ row' = row /\ report' = report /\ calls' = [calls EXCEPT ![c].pc = "rejected"]
    BY <1>5, <2>a DEF StartReport, Initialized, NewReport, Answered
  <2>c. unclaimed \in Report
    BY <2>a DEF Report
  <2>d. DuplicatesFollowFailures' /\ Active(c)
    BY <2>a DEF DuplicatesFollowFailures, Active
  <2>1. CASE row' = row /\ report' = report /\ calls' = [calls EXCEPT ![c].pc = "rejected"]
    BY <2>1, <2>a, <2>d DEF Serving, Timely, Searched, Outstanding, Numbered, Active, ChecksOf
  <2>2. CASE /\ row.checkRun # None /\ row' = row /\ report' = [unclaimed EXCEPT !.check = row.checkRun]
             /\ calls' = [calls EXCEPT ![c].pc = "reporting"]
    <3>1. /\ report' \in Report /\ report' # None /\ report'.pc = "update"
          /\ report'.timestamp = now /\ report'.sentAt = now
          /\ report'.check = row.checkRun /\ report'.identity = row.identity
      BY <2>2, <2>a, <2>c, OfCheck
    <3>2. TypeOK'
      BY <2>2, <2>a, <3>1
    <3>3. (\A p \in pending : p.failed) /\ row.state = "ready"
      BY <2>2, <2>a DEF Outstanding
    <3>4. Serving'
      BY <2>2, <2>a, <3>1, <3>3 DEF Serving, Active
    <3>5. Timely' /\ Searched' /\ Outstanding' /\ Numbered'
      BY <2>2, <2>a, <3>1, <3>3 DEF Timely, Searched, Outstanding, Numbered
    <3> QED BY <2>d, <3>2, <3>4, <3>5
  <2>3. CASE /\ Claimable(row, now) /\ row' = Claimed(row, now) /\ report' = [unclaimed EXCEPT !.pc = "list"]
             /\ calls' = [calls EXCEPT ![c].pc = "reporting"]
    <3>1. /\ report' \in Report /\ report' # None /\ report'.pc = "list" /\ report'.page = 1
          /\ report'.timestamp = now /\ report'.sentAt = now
          /\ report'.check = None /\ report'.identity = row.identity
      <4>1. unclaimed.pc = "update" /\ unclaimed.page = 1 /\ unclaimed.timestamp = now /\ unclaimed.sentAt = now
            /\ unclaimed.check = None /\ unclaimed.identity = row.identity
        BY <2>a
      <4> QED BY <2>3, <2>c, <4>1 DEF Report
    <3>2. /\ row' \in Row /\ row' # None /\ row'.identity = row.identity /\ row'.state = "creating"
          /\ row'.startedAt = now /\ row'.checkRun = None
      <4>1. now \in Nat /\ row.checkRun = None /\ row \in Row /\ row' = Claimed(row, now)
        BY <2>3, <2>a DEF Claimable
      <4> HIDE DEF IInv, TypeOK, Row
      <4> QED BY <2>a, <4>1, RowUpdates
    <3>3. \A p \in pending : p.failed
      BY <2>3, <2>a DEF Outstanding, Claimable
    <3>4. TypeOK'
      BY <2>3, <2>a, <3>1, <3>2
    <3>5. Serving'
      BY <2>3, <2>a, <3>1, <3>2, <3>3 DEF Serving, Active
    <3>6. Timely'
      BY <2>a, <3>1, Products DEF Timely
    <3>7. Searched' /\ Outstanding' /\ Numbered'
      BY <2>a, <3>1, <3>2, <3>3 DEF Searched, Outstanding, Numbered
    <3> QED BY <2>d, <3>4, <3>5, <3>6, <3>7
  <2> QED BY <2>b, <2>1, <2>2, <2>3
<1>6. ASSUME UpdateKnown PROVE IInv'
  <2>1. TypeOK'
    BY <1>6 DEF UpdateKnown, EndReport, AnswerReports
  <2>2. DuplicatesFollowFailures'
    BY <1>6 DEF UpdateKnown, DuplicatesFollowFailures
  <2>3. Serving'
    BY <1>6 DEF UpdateKnown, EndReport, AnswerReports, Active, Serving
  <2>4. Timely'
    BY <1>6 DEF UpdateKnown, EndReport, Timely
  <2>5. Searched'
    BY <1>6 DEF UpdateKnown, EndReport, Searched
  <2>6. Outstanding'
    BY <1>6 DEF UpdateKnown, Outstanding, ChecksOf
  <2>7. Numbered'
    BY <1>6 DEF UpdateKnown, EndReport, Numbered
  <2> QED BY <2>1, <2>2, <2>3, <2>4, <2>5, <2>6, <2>7 DEF IInv
<1>7. ASSUME KnownIsMissing PROVE IInv'
  <2>a. /\ report \in Report /\ report # None /\ report.pc = "update" /\ row \in Row /\ row # None
        /\ row.identity = report.identity /\ row.checkRun = report.check /\ row.checkRun # None
        /\ (\A p \in pending : p.failed) /\ UNCHANGED <<checks, created, pending, late, now, restarts>>
    BY <1>7 DEF KnownIsMissing, At, Serving
  <2>b. /\ Cleared(row) \in Row /\ Cleared(row) # None /\ Cleared(row).identity = row.identity
        /\ Cleared(row).state = "idle" /\ Cleared(row).startedAt = None /\ Cleared(row).checkRun = None
    BY <2>a, NoneAssumption DEF Cleared
  <2>c. Claimable(Cleared(row), report.timestamp)
    BY <2>b DEF Claimable
  <2>d. /\ row' = Claimed(Cleared(row), report.timestamp)
        /\ report' = [Sent(report, "list") EXCEPT !.check = None]
        /\ UNCHANGED calls
    BY <1>7, <2>a, <2>c DEF KnownIsMissing
  <2>e. /\ report' \in Report /\ report' # None /\ report'.pc = "list" /\ report'.page = report.page
        /\ report'.timestamp = report.timestamp /\ report'.sentAt = now
        /\ report'.check = None /\ report'.identity = report.identity
    <3>1. Sent(report, "list") \in Report
      BY <2>a, Sending
    <3> QED BY <2>a, <2>d, <3>1, Sending, OfCheck
  <2>f. /\ row' \in Row /\ row' # None /\ row'.identity = row.identity /\ row'.state = "creating"
        /\ row'.startedAt = report.timestamp /\ row'.checkRun = None
    BY <2>a, <2>b, <2>d, NoneAssumption DEF Claimed
  <2>1. TypeOK'
    BY <2>a, <2>d, <2>e, <2>f
  <2>2. DuplicatesFollowFailures'
    BY <2>a DEF DuplicatesFollowFailures
  <2>3. Serving'
    BY <2>a, <2>d, <2>e, <2>f DEF Serving, Active
  <2>4. Timely'
    <3>1. report.sentAt <= report.timestamp /\ now <= report.sentAt + RequestTimeout
      BY <2>a DEF Timely
    <3>2. /\ now \in Nat /\ report.timestamp \in Nat /\ report.sentAt \in Nat
          /\ report.page * RequestTimeout \in Nat /\ RequestTimeout <= report.page * RequestTimeout
      <4>1. report.page \in Nat /\ report.page >= 1
        BY <2>a
      <4> QED BY <2>a, <4>1, AtLeastOneRequest, Products
    <3> QED BY <2>a, <2>e, <3>1, <3>2 DEF Timely
  <2>5. Searched'
    BY <2>e DEF Searched
  <2>6. Outstanding'
    BY <2>a DEF Outstanding
  <2>7. Numbered'
    BY <2>a, <2>e, <2>f DEF Numbered
  <2> QED BY <2>1, <2>2, <2>3, <2>4, <2>5, <2>6, <2>7 DEF IInv
<1>8. ASSUME SearchPage PROVE IInv'
  <2> report \in Report /\ report.pc = "list" /\ row \in Row
    BY <1>8 DEF SearchPage, At, Serving
  <2>0. \/ /\ report.page < Pages /\ report.page + 1 \in 1 .. Pages
           /\ report' = [Sent(report, "list") EXCEPT !.page = report.page + 1]
        \/ \E k \in ChecksOf(report.identity) : report' = [Sent(report, "update-found") EXCEPT !.check = k.id]
        \/ ChecksOf(report.identity) = {} /\ report' = Sent(report, "create")
    BY <1>8 DEF SearchPage
  <2>a. /\ report' \in Report /\ report' # None /\ report'.pc \in {"list", "update-found", "create"}
        /\ report'.identity = report.identity /\ report'.timestamp = report.timestamp
        /\ report'.sentAt = now
        /\ report'.pc = "list" => report'.page = report.page + 1 /\ report'.check = report.check
        /\ report'.pc = "update-found" => \E k \in ChecksOf(report.identity) : report'.check = k.id
        /\ report'.pc = "create" => ChecksOf(report.identity) = {} /\ report'.check = report.check
    <3>1. CASE report' = [Sent(report, "list") EXCEPT !.page = report.page + 1] /\ report.page + 1 \in 1 .. Pages
      <4>1. Sent(report, "list") \in Report /\ Sent(report, "list").pc = "list"
        BY Sending
      <4> QED BY <3>1, <4>1, OfPage, Sending
    <3>2. ASSUME NEW k \in ChecksOf(report.identity), report' = [Sent(report, "update-found") EXCEPT !.check = k.id]
          PROVE /\ report' \in Report /\ report' # None /\ report'.pc = "update-found"
                /\ report'.identity = report.identity /\ report'.timestamp = report.timestamp
                /\ report'.sentAt = now /\ report'.check = k.id
      <4>1. Sent(report, "update-found") \in Report /\ k.id \in CheckIds \cup {None}
        BY Sending DEF ChecksOf
      <4> QED BY <3>2, <4>1, OfCheck, Sending
    <3>3. CASE ChecksOf(report.identity) = {} /\ report' = Sent(report, "create")
      BY <3>3, Sending
    <3> QED BY <2>0, <3>1, <3>2, <3>3
  <2>b. UNCHANGED <<row, calls, checks, created, pending, late, now, restarts>>
    BY <1>8 DEF SearchPage
  <2>1. TypeOK'
    BY <2>a, <2>b
  <2>2. DuplicatesFollowFailures'
    BY <2>b DEF DuplicatesFollowFailures
  <2>3. Serving'
    BY <2>a, <2>b DEF Serving, Active
  <2>4. Timely'
    BY <2>a, <2>b, Products DEF Timely
  <2>5. Searched'
    BY <2>a, <2>b DEF Searched, ChecksOf, DuplicatesFollowFailures
  <2>6. Outstanding'
    BY <2>b DEF Outstanding, ChecksOf
  <2>7. Numbered'
    BY <2>a, <2>b DEF Numbered, ChecksOf
  <2> QED BY <2>1, <2>2, <2>3, <2>4, <2>5, <2>6, <2>7 DEF IInv
<1>9. ASSUME UpdateFound PROVE IInv'
  <2>a. /\ report \in Report /\ report # None /\ report.pc = "update-found" /\ row \in Row /\ row # None
        /\ row.identity = report.identity /\ row.state = "creating" /\ row.startedAt = report.timestamp
        /\ (\A p \in pending : p.failed) /\ UNCHANGED <<checks, created, pending, late, now, restarts>>
    BY <1>9 DEF UpdateFound, At, Serving
  <2>1. CASE report.check \in {k.id : k \in checks}
    <3>1. report.check \in CheckIds /\ report.check <= created /\ report.check # None
      BY <2>1, EligibilityAssumption DEF Numbered
    <3>2. row' = StoredCheckRun(report.check, report.timestamp) /\ EndReport("reported")
      BY <1>9, <2>1 DEF UpdateFound
    <3> QED BY <2>a, <3>1, <3>2, StoringKeepsConsistency
  <2>2. CASE report.check \notin {k.id : k \in checks}
    <3>1. report' = Sent(report, "create") /\ UNCHANGED <<row, calls>>
      BY <1>9, <2>2 DEF UpdateFound
    <3>2. /\ report' \in Report /\ report' # None /\ report'.pc = "create" /\ report'.sentAt = now
          /\ report'.timestamp = report.timestamp /\ report'.identity = report.identity
          /\ report'.check = report.check
      BY <2>a, <3>1, Sending
    <3>3. report.identity \in late \/ ChecksOf(report.identity) = {}
      BY <2>a, <2>2 DEF Searched, ChecksOf
    <3>4. TypeOK' /\ DuplicatesFollowFailures'
      BY <2>a, <3>1, <3>2 DEF DuplicatesFollowFailures
    <3>5. Serving' /\ Searched' /\ Outstanding' /\ Numbered'
      BY <2>a, <3>1, <3>2, <3>3 DEF Serving, Searched, Outstanding, Numbered, Active, ChecksOf
    <3>6. Timely'
      <4>1. /\ now \in Nat /\ report.timestamp \in Nat /\ report.sentAt \in Nat
            /\ report.sentAt <= report.timestamp + Pages * RequestTimeout + RequestTimeout
            /\ now <= report.sentAt + RequestTimeout /\ Pages * RequestTimeout \in Nat
        BY <2>a, Products DEF Timely
      <4> QED BY <2>a, <3>2, <4>1 DEF Timely
    <3> QED BY <3>4, <3>5, <3>6
  <2> QED BY <2>1, <2>2
<1>10. ASSUME CreateLands PROVE IInv'
  <2>a. /\ report \in Report /\ report # None /\ report.pc = "create" /\ row \in Row /\ row # None
        /\ row.identity = report.identity /\ row.state = "creating" /\ row.startedAt = report.timestamp
        /\ (\A p \in pending : p.failed) /\ UNCHANGED <<row, calls, pending, late, now, restarts>>
        /\ created + 1 \in CheckIds /\ created' = created + 1
        /\ checks' = checks \cup {[id |-> created + 1, identity |-> report.identity]}
        /\ report' = [[report EXCEPT !.pc = "created"] EXCEPT !.check = created + 1]
    BY <1>10 DEF CreateLands, At, Serving, NewCheck
  <2>b. /\ report' \in Report /\ report' # None /\ report'.pc = "created" /\ report'.check = created + 1
        /\ report'.timestamp = report.timestamp /\ report'.identity = report.identity
        /\ report'.sentAt = report.sentAt
    BY <2>a, NoneAssumption DEF Report
  <2>c. report.identity \in late \/ ChecksOf(report.identity) = {}
    BY <2>a DEF Searched
  <2>1. TypeOK'
    BY <2>a, <2>b
  <2>2. DuplicatesFollowFailures'
    BY <2>a, <2>c DEF DuplicatesFollowFailures, ChecksOf
  <2>3. Serving'
    BY <2>a, <2>b DEF Serving, Active
  <2>4. Timely'
    BY <2>a, <2>b DEF Timely
  <2>5. Searched'
    BY <2>b DEF Searched
  <2>6. Outstanding'
    BY <2>a DEF Outstanding
  <2>7. Numbered'
    BY <2>a, <2>b DEF Numbered
  <2> QED BY <2>1, <2>2, <2>3, <2>4, <2>5, <2>6, <2>7 DEF IInv
<1>11. ASSUME CreateAnswered PROVE IInv'
  <2>1. /\ report # None /\ report.pc = "created" /\ row' = StoredCheckRun(report.check, report.timestamp)
        /\ EndReport("reported") /\ UNCHANGED <<checks, created, pending, late, now, restarts>>
    BY <1>11 DEF CreateAnswered, At
  <2>2. report.check \in CheckIds /\ report.check <= created
    BY <2>1 DEF Numbered
  <2> QED BY <2>1, <2>2, StoringKeepsConsistency
<1>12. ASSUME ReportFails PROVE IInv'
  <2>a. /\ report \in Report /\ report # None /\ report.pc # "update" /\ row \in Row /\ row # None
        /\ row.state = "creating" /\ row.startedAt = report.timestamp /\ row.checkRun = None
        /\ (\A p \in pending : p.failed) /\ UNCHANGED <<checks, created, late, now, restarts>>
        /\ pending' = pending \cup Outlives(TRUE)
        /\ row' = [row EXCEPT !.state = "idle", !.startedAt = None] /\ EndReport("rejected")
    BY <1>12 DEF ReportFails, Serving, ResetCreation
  <2>b. /\ row' \in Row /\ row' # None /\ row'.identity = row.identity /\ row'.state = "idle"
        /\ row'.startedAt = None /\ row'.checkRun = None
    BY <2>a, NoneAssumption
  <2>c. pending' \subseteq Creation /\ \A p \in pending' : p.failed
    <3> HIDE DEF Report, Creation
    <3> QED BY <2>a, Outliving
  <2> QED BY <2>a, <2>b, <2>c, EndKeepsConsistency
<1>13. ASSUME Restart PROVE IInv'
  <2>1. TypeOK'
    <3>1. Outlives(FALSE) \subseteq Creation
      BY Outliving
    <3>2. report' = None /\ restarts' \in 0 .. MaxRestarts
      BY <1>13 DEF Restart
    <3>3. calls' \in [Calls -> [pc : {"idle", "token", "visibility", "reporting", "private", "reported", "rejected"},
                               identity : Identities \cup {None}]]
      BY <1>13 DEF Restart
    <3>4. pending' = pending \cup Outlives(FALSE) /\ UNCHANGED <<row, checks, created, late, now>>
      BY <1>13 DEF Restart
    <3>5. pending' \subseteq Creation
      <4> HIDE DEF Creation
      <4>1. pending \subseteq Creation
        BY DEF IInv, TypeOK
      <4> QED BY <3>1, <3>4, <4>1
    <3> QED BY <3>2, <3>3, <3>4, <3>5
  <2>2. DuplicatesFollowFailures'
    BY <1>13 DEF Restart, DuplicatesFollowFailures
  <2>3. Serving'
    BY <1>13 DEF Restart, Active, Serving
  <2>4. Timely'
    BY <1>13, Products DEF Restart, Timely
  <2>5. Searched'
    BY <1>13 DEF Restart, Searched
  <2>6. Outstanding'
    <3>1. CASE report = None
      BY <1>13, <3>1, Outliving DEF Restart, Outstanding, ChecksOf
    <3>2. CASE report # None
      <4>1. /\ \A p \in pending : p.failed
            /\ row # None /\ row.identity = report.identity
            /\ report.pc # "update" => row.state = "creating" /\ row.startedAt = report.timestamp
        BY <3>2 DEF Serving
      <4>2. report.pc = "create" =>
               /\ report.sentAt + RequestTimeout < report.timestamp + Lease
               /\ now <= report.sentAt + RequestTimeout
               /\ report.identity \in late \/ ChecksOf(report.identity) = {}
        BY <3>2, Products DEF Timely, Searched
      <4>3. UNCHANGED <<row, checks, late, now>> /\ pending' = pending \cup Outlives(FALSE)
        BY <1>13 DEF Restart
      <4>4. ASSUME NEW p \in pending', ~p.failed PROVE p \in Outlives(FALSE)
        BY <4>1, <4>3, <4>4
      <4>5. /\ \A p \in Outlives(FALSE) :
                  /\ report.pc = "create" /\ p.identity = report.identity
                  /\ p.deadline = report.sentAt + RequestTimeout
            /\ \A p, q \in Outlives(FALSE) : p = q
        BY <3>2, Outliving
      <4>6. \A identity : ChecksOf(identity)' = ChecksOf(identity)
        BY <4>3 DEF ChecksOf
      <4> HIDE DEF IInv, TypeOK
      <4> QED BY <4>1, <4>2, <4>3, <4>4, <4>5, <4>6 DEF Outstanding
    <3> QED BY <3>1, <3>2
  <2>7. Numbered'
    BY <1>13 DEF Restart, Numbered
  <2> QED BY <2>1, <2>2, <2>3, <2>4, <2>5, <2>6, <2>7 DEF IInv
<1>14. ASSUME PendingLands PROVE IInv'
  <2>1. TypeOK'
    BY <1>14 DEF PendingLands, NewCheck
  <2>2. DuplicatesFollowFailures'
    BY <1>14 DEF PendingLands, NewCheck, DuplicatesFollowFailures, Outstanding, ChecksOf
  <2>3. Serving'
    BY <1>14 DEF PendingLands, Active, Serving
  <2>4. Timely'
    BY <1>14 DEF PendingLands, Timely
  <2>a. PICK p \in pending :
           /\ pending' = pending \ {p} /\ UNCHANGED <<row, report, now>>
           /\ checks' = checks \cup {[id |-> created + 1, identity |-> p.identity]}
           /\ late' = IF p.failed THEN late \cup {p.identity} ELSE late
    BY <1>14 DEF PendingLands, NewCheck
  <2>b. late \subseteq late' /\ p.failed => p.identity \in late'
    BY <2>a
  <2>c. \A identity \in Identities : identity \in late' \/ identity # p.identity => ChecksOf(identity)' = ChecksOf(identity) \/ identity \in late'
    BY <2>a DEF ChecksOf
  <2>5. Searched'
    <3>1. report # None => p.failed
      BY <2>a DEF Serving
    <3> QED BY <2>a, <2>b, <2>c, <3>1 DEF Searched
  <2>6. Outstanding'
    <3> SUFFICES ASSUME NEW q \in pending', ~q.failed
                 PROVE  /\ row # None /\ row.identity = q.identity
                        /\ row.state = "creating" /\ q.deadline < row.startedAt + Lease
                        /\ now <= q.deadline
                        /\ q.identity \in late' \/ ChecksOf(q.identity)' = {}
                        /\ \A o \in pending' : o.failed \/ o = q
      BY <2>a DEF Outstanding
    <3>1. q \in pending /\ q # p
      BY <2>a
    <3>2. p.failed
      BY <3>1 DEF Outstanding
    <3> QED BY <2>a, <2>b, <2>c, <3>1, <3>2 DEF Outstanding
  <2>7. Numbered'
    BY <1>14 DEF PendingLands, NewCheck, Numbered
  <2> QED BY <2>1, <2>2, <2>3, <2>4, <2>5, <2>6, <2>7 DEF IInv
<1>15. ASSUME NEW k \in checks, Disappear(k) PROVE IInv'
  <2>1. TypeOK'
    BY <1>15 DEF Disappear
  <2>2. DuplicatesFollowFailures'
    BY <1>15 DEF Disappear, DuplicatesFollowFailures
  <2>3. Serving'
    BY <1>15 DEF Disappear, Active, Serving
  <2>4. Timely'
    BY <1>15 DEF Disappear, Timely
  <2>5. Searched'
    BY <1>15 DEF Disappear, Searched, ChecksOf
  <2>6. Outstanding'
    BY <1>15 DEF Disappear, Outstanding, ChecksOf
  <2>7. Numbered'
    BY <1>15 DEF Disappear, Numbered
  <2> QED BY <2>1, <2>2, <2>3, <2>4, <2>5, <2>6, <2>7 DEF IInv
<1>16. ASSUME Alarm PROVE IInv'
  <2>1. TypeOK'
    BY <1>16 DEF Alarm
  <2>2. DuplicatesFollowFailures'
    BY <1>16 DEF Alarm, DuplicatesFollowFailures
  <2>3. Serving'
    BY <1>16 DEF Alarm, Active, Serving
  <2>4. Timely'
    BY <1>16 DEF Alarm, Timely
  <2>5. Searched'
    BY <1>16 DEF Alarm, Searched
  <2>6. Outstanding'
    BY <1>16 DEF Alarm, Outstanding
  <2>7. Numbered'
    BY <1>16 DEF Alarm, Numbered
  <2> QED BY <2>1, <2>2, <2>3, <2>4, <2>5, <2>6, <2>7 DEF IInv
<1>17. ASSUME Tick PROVE IInv'
  <2>1. TypeOK'
    BY <1>17 DEF Tick
  <2>2. DuplicatesFollowFailures'
    BY <1>17 DEF Tick, DuplicatesFollowFailures
  <2>3. Serving'
    BY <1>17 DEF Tick, Active, Serving
  <2>4. Timely'
    BY <1>17 DEF Tick, Timely
  <2>5. Searched'
    BY <1>17 DEF Tick, Searched, ChecksOf
  <2>6. Outstanding'
    BY <1>17 DEF Tick, Outstanding, ChecksOf
  <2>7. Numbered'
    BY <1>17 DEF Tick, Numbered
  <2> QED BY <2>1, <2>2, <2>3, <2>4, <2>5, <2>6, <2>7 DEF IInv
<1>18. CASE UNCHANGED vars
  BY <1>18 DEF vars, DuplicatesFollowFailures, Serving, Timely, Searched, Outstanding, Numbered, Active, ChecksOf
<1> QED BY <1>1, <1>2, <1>3, <1>4, <1>5, <1>6, <1>7, <1>8, <1>9, <1>10, <1>11, <1>12, <1>13, <1>14, <1>15, <1>16, <1>17, <1>18 DEF Next

-----------------------------------------------------------------------------
(* Theorems. *)

\* The row, the report and every request under way, lost ones included, agree on
\* who may create the Check and until when.
THEOREM Consistency == Spec => []IInv
BY InitIsConsistent, StepsKeepConsistency, PTL DEF Spec

\* The row, the report in progress and GitHub's Checks keep their types, and the
\* columns of the row agree with each other.
THEOREM EligibilityTypes == Spec => []TypeOK
<1>1. IInv => TypeOK
  BY DEF IInv
<1> QED BY <1>1, Consistency, PTL

\* Redeliveries, retries, lost instances and missing Checks never give a commit a
\* second Check, for any lease that outlasts a report: only a creation that had
\* failed for its report, and landed nevertheless, does.
THEOREM DuplicatesAreExplained == Spec => []DuplicatesFollowFailures
<1>1. IInv => DuplicatesFollowFailures
  BY DEF IInv
<1> QED BY <1>1, Consistency, PTL

\* Whoever is told that its rejection was reported leaves the row naming a Check.
THEOREM ReportsStayKnown == Spec => ReportsAreRemembered
<1> DEFINE Answer(c) == calls[c].pc = "reporting" /\ calls'[c].pc = "reported"
           Known(c) == /\ row' # None /\ row'.state = "ready" /\ row'.identity = calls[c].identity
                       /\ row'.checkRun \in 1 .. created
<1>1. ASSUME IInv, [Next]_vars, NEW c \in Calls, Answer(c) PROVE Known(c)
  <2> USE EligibilityAssumption, NoneAssumption DEF IInv, TypeOK, CheckIds
  <2>1. /\ report # None /\ row \in Row /\ row # None /\ row.identity = report.identity
        /\ calls[c].identity = row.identity
    BY <1>1 DEF Serving, Active
  <2>0. /\ Next /\ calls[c].pc = "reporting" /\ calls'[c].pc = "reported"
        /\ calls \in [Calls -> [pc : {"idle", "token", "visibility", "reporting", "private", "reported", "rejected"},
                                identity : Identities \cup {None}]]
    BY <1>1 DEF vars
  <2>2. \/ UpdateKnown
        \/ row' = StoredCheckRun(report.check, report.timestamp) /\ report.pc \in {"update-found", "created"}
    <3>1. ASSUME NEW d \in Calls, NEW identity, Authorize(d, identity) PROVE FALSE
      BY <2>0, <3>1 DEF Authorize
    <3>2. ASSUME NEW d \in Calls, Token(d) \/ Private(d) \/ JoinReport(d) \/ StartReport(d) PROVE FALSE
      BY <2>0, <2>1, <3>2 DEF Token, Private, JoinReport, StartReport, Answered
    <3>3. ASSUME KnownIsMissing \/ ReportFails \/ Restart PROVE FALSE
      BY <2>0, <2>1, <3>3 DEF KnownIsMissing, ReportFails, Restart, EndReport, AnswerReports, Active
    <3>4. ASSUME SearchPage \/ CreateLands \/ PendingLands \/ Alarm \/ Tick \/ \E k \in checks : Disappear(k)
          PROVE  FALSE
      BY <2>0, <3>4 DEF SearchPage, CreateLands, PendingLands, Alarm, Tick, Disappear
    <3>5. CASE UpdateFound \/ CreateAnswered
      BY <2>0, <3>5 DEF UpdateFound, CreateAnswered, At
    <3> QED BY <2>0, <3>1, <3>2, <3>3, <3>4, <3>5 DEF Next
  <2>3. CASE UpdateKnown
    <3>1. row' = row /\ report.pc = "update" /\ row.state = "ready" /\ row.checkRun # None
      BY <1>1, <2>1, <2>3 DEF UpdateKnown, At, Serving
    <3> QED BY <1>1, <2>1, <3>1 DEF Numbered, Row
  <2>4. CASE row' = StoredCheckRun(report.check, report.timestamp) /\ report.pc \in {"update-found", "created"}
    <3>1. row.startedAt = report.timestamp /\ report.check \in 1 .. created
      BY <1>1, <2>1, <2>4 DEF Serving, Numbered, Report
    <3>2. row' = [row EXCEPT !.checkRun = report.check, !.state = "ready", !.startedAt = None]
      BY <1>1, <2>1, <2>4, <3>1 DEF StoredCheckRun
    <3>3. /\ row' \in Row /\ row'.identity = row.identity /\ row'.state = "ready"
          /\ row'.checkRun = report.check
      <4>1. report.check \in CheckIds
        BY <1>1, <3>1
      <4> QED BY <2>1, <3>2, <4>1 DEF Row
    <3> QED BY <1>1, <2>1, <3>1, <3>3
  <2> QED BY <2>2, <2>3, <2>4
<1>2. IInv /\ [Next]_vars => [\A c \in Calls : Answer(c) => Known(c)]_vars
  BY <1>1
<1> QED BY <1>2, Consistency, PTL DEF Spec, ReportsAreRemembered
=============================================================================
