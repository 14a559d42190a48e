-------------------------- MODULE RunnerImageProofs --------------------------
(***************************************************************************)
(* The images' safety properties, for any number of workflows and          *)
(* applications, any faults and any changes by the scheduler.              *)
(*                                                                         *)
(* Typed and Complete say what goes with what; Typed alone keeps live       *)
(* claims and live leases.  Builds says that the slot, the calls and the     *)
(* Container agree on whose build is whose, until two starts have taken the  *)
(* slot at once; ShapeKept, that rollouts and the scheduler's changes leave  *)
(* each other's half of a configuration alone, on applications where nothing *)
(* has crossed.  No theorem here assumes that calls, passes or changes do    *)
(* not overlap.                                                              *)
(***************************************************************************)
EXTENDS RunnerImageBuildWorkflow, TLAPS

-----------------------------------------------------------------------------
(* Types, and what goes with them.                                           *)

\* A build that is over has a result: its image, or that it failed.
Settles(s) ==
    s # None =>
        /\ s.state \in {"complete", "rolling-out"} => s.result \in Images
        /\ s.state = "failed" => s.result = "failed"

\* What a call keeps of the slot it read, while it waits and as its answer.
Knows(call) ==
    /\ call.pc = "none" => call.seen = None
    /\ Settles(call.seen)
    /\ call.pc \in {"reconcile", "poll-reconcile"} =>
          call.seen # None /\ call.seen.state = "rolling-out" /\ call.seen.expired
    /\ call.pc \in {"release", "poll-release", "undo", "abort", "probe", "read", "finalize"} =>
          call.seen # None /\ call.seen.state = "active"
    /\ call.pc = "clear" /\ call.seen # None => call.seen.state \in {"complete", "failed"}
    /\ call.pc \in {"read", "finalize"} => call.seen.result # None
    /\ call.pc = "completed" => call.seen # None /\ call.seen.state = "complete"

BuilderTyped ==
    /\ slot \in Slot \cup {None} /\ Settles(slot)
    /\ container \in [running : BOOLEAN, commands : SUBSET Workflows,
                      result : Results \cup {None}, execs : SUBSET Workflows]
    /\ calls \in [Workflows -> Call]
    /\ \A w \in Workflows : Knows(calls[w])
    /\ contested \in BOOLEAN
    /\ faults \in 0 .. MaxFaults

ApplicationsTyped ==
    /\ apps \in [Applications -> Application]
    /\ changing \in [Applications -> Change \cup {None}]
    /\ granted \in [Applications -> [shape : Shapes \cup {None}, ceiling : 1 .. MaxCeiling]]
    /\ crossed \subseteq Applications
    /\ changes \in 0 .. MaxChanges /\ started \in 0 .. MaxRunners
    /\ \A a \in Applications :
          changing[a] # None /\ changing[a].pc \in {"post", "await"} => changing[a].shape # None

\* A pass is at the applications one by one, and rolls out an image.
Carries(p, result) ==
    /\ result \in Images
    /\ p.app = None => p.pc = "inspect"
    /\ p.app # None => p.pc # "inspect" /\ p.seen # None /\ p.app \in p.left

FlowsTyped ==
    /\ flows \in [Workflows -> Flow]
    /\ pass \in [Workflows -> Pass \cup {None}]
    /\ roller \in Workflows \cup {None}
    /\ bootstrap \in Bootstrap
    /\ \A w \in Workflows :
          /\ pass[w] # None <=> Stage(w) = "pass"
          /\ pass[w] # None => Carries(pass[w], flows[w].result)

Calling == {"starting", "polling", "aborting"}
Called == \A w \in Workflows : calls[w].pc # "none" <=> Stage(w) \in Calling

Typed == BuilderTyped /\ ApplicationsTyped /\ FlowsTyped /\ Called

-----------------------------------------------------------------------------
(* The builder. *)

LEMMA Going ==
    ASSUME BuilderTyped, NEW w \in Workflows, NEW pc \in {"none"} \cup Awaits \cup Answers,
           NEW seen \in Slot \cup {None}, Knows([pc |-> pc, seen |-> seen]), Goes(w, pc, seen)
    PROVE  /\ calls' \in [Workflows -> Call]
           /\ calls'[w].pc = pc /\ calls'[w].seen = seen
           /\ \A v \in Workflows \ {w} : calls'[v] = calls[v]
           /\ \A v \in Workflows : Knows(calls'[v])
<1>1. calls \in [Workflows -> Call] /\ [pc |-> pc, seen |-> seen] \in Call
  BY DEF BuilderTyped, Call
<1>2. /\ calls' \in [Workflows -> Call] /\ calls'[w] = [pc |-> pc, seen |-> seen]
      /\ \A v \in Workflows \ {w} : calls'[v] = calls[v]
  BY <1>1 DEF Goes
<1> QED BY <1>1, <1>2 DEF BuilderTyped

\* A call that has no answer yet, or an answer that does not need what was seen.
LEMMA Answering ==
    ASSUME BuilderTyped, NEW w \in Workflows,
           NEW pc \in {"none", "stage"} \cup Answers,
           pc # "completed", Answer(w, pc)
    PROVE  /\ calls' \in [Workflows -> Call]
           /\ calls'[w].pc = pc /\ calls'[w].seen = None
           /\ \A v \in Workflows \ {w} : calls'[v] = calls[v]
           /\ \A v \in Workflows : Knows(calls'[v])
<1>1. Knows([pc |-> pc, seen |-> None]) /\ pc \in {"none"} \cup Awaits \cup Answers
  BY DEF Knows, Settles, Awaits, Answers
<1> QED BY <1>1, Going DEF Answer

LEMMA ResultsAreNamed == None \notin Images /\ "failed" \notin Images /\ None # "failed"
BY BuilderAssumption, ImageNoneAssumption

LEMMA Reconciling ==
    ASSUME NEW s \in Slot, Settles(s), s.state = "rolling-out"
    PROVE  /\ Settled(s) \in Slot /\ Settles(Settled(s)) /\ Settled(s).state = "complete"
           /\ Renewed(s) \in Slot /\ Settles(Renewed(s)) /\ Renewed(s).state = "rolling-out"
           /\ Settled(s).owner = s.owner /\ Settled(s).result = s.result
           /\ Renewed(s).owner = s.owner /\ Renewed(s).result = s.result
<1>1. s.result \in Images
  BY ImageNoneAssumption DEF Settles
<1>2. /\ Settled(s) \in Slot /\ Settled(s).state = "complete" /\ Settled(s).result = s.result
      /\ Settled(s).owner = s.owner
  BY DEF Settled, Slot
<1>3. /\ Renewed(s) \in Slot /\ Renewed(s).state = "rolling-out" /\ Renewed(s).result = s.result
      /\ Renewed(s).owner = s.owner
  BY DEF Renewed, Slot
<1> QED BY <1>1, <1>2, <1>3 DEF Settles

LEMMA Faulting ==
    ASSUME BuilderTyped, Fault \/ UNCHANGED faults
    PROVE  faults' \in 0 .. MaxFaults
BY BuilderAssumption DEF BuilderTyped, Fault

LEMMA Taking ==
    ASSUME BuilderTyped, NEW w \in Workflows, NEW before \in Slot \cup {None}, Settles(before),
           NEW running \in BOOLEAN, running /\ before # None => before.state \in {"complete", "failed"},
           TakeSlot(w, before, running)
    PROVE  /\ slot' \in Slot \cup {None} /\ Settles(slot') /\ contested' \in BOOLEAN
           /\ calls' \in [Workflows -> Call] /\ \A v \in Workflows : Knows(calls'[v])
           /\ calls'[w].pc \in {"clear", "stage"}
           /\ \A v \in Workflows \ {w} : calls'[v] = calls[v]
<1>1. /\ calls' \in [Workflows -> Call] /\ \A v \in Workflows : Knows(calls'[v])
      /\ calls'[w].pc \in {"clear", "stage"}
      /\ \A v \in Workflows \ {w} : calls'[v] = calls[v]
  <2>1. CASE running
    <3>1. Knows([pc |-> "clear", seen |-> before]) /\ Goes(w, "clear", before)
      BY <2>1 DEF TakeSlot, Knows
    <3> QED BY <3>1, Going DEF Awaits
  <2>2. CASE ~running
    <3>1. Answer(w, "stage")
      BY <2>2 DEF TakeSlot, Answer
    <3> QED BY <3>1, Answering DEF Answers
  <2> QED BY <2>1, <2>2
<1>3. contested' \in BOOLEAN
  BY DEF TakeSlot, BuilderTyped
<1>2. slot' \in Slot \cup {None} /\ Settles(slot')
  <2>1. CASE running
    BY <2>1 DEF TakeSlot
  <2>2. CASE ~running
    <3> DEFINE mine == [owner |-> w, state |-> "active", result |-> None, expired |-> FALSE, inFlight |-> FALSE]
    <3>1. mine \in Slot /\ mine.state = "active"
      BY DEF Slot
    <3>2. slot' = mine
      BY <2>2 DEF TakeSlot
    <3> HIDE DEF mine
    <3> QED BY <3>1, <3>2 DEF Settles
  <2> QED BY <2>1, <2>2
<1> QED BY <1>1, <1>2, <1>3

BuilderStep(w) ==
    \/ StartReleases(w) \/ StartReconciles(w) \/ StartClears(w) \/ StartStages(w) \/ StartFails(w)
    \/ StartUndoes(w) \/ PollReconciles(w) \/ PollReleases(w) \/ PollProbes(w) \/ PollReads(w)
    \/ PollFinalizes(w) \/ AbortReleases(w) \/ CallFails(w) \/ BuildEnds(w)

\* The methods and the builds keep the types; no call begins or is taken.
LEMMA BuilderKeepsTypes ==
    ASSUME BuilderTyped, NEW w \in Workflows, BuilderStep(w)
    PROVE  BuilderTyped' /\ \A v \in Workflows : calls'[v].pc = "none" <=> calls[v].pc = "none"
<1> DEFINE Slots == slot' \in Slot \cup {None} /\ Settles(slot')
           Containers == container' \in [running : BOOLEAN, commands : SUBSET Workflows,
                                         result : Results \cup {None}, execs : SUBSET Workflows]
           Moved(v) == /\ calls' \in [Workflows -> Call] /\ \A u \in Workflows : Knows(calls'[u])
                       /\ \A u \in Workflows \ {v} : calls'[u] = calls[u]
                       /\ calls[v].pc # "none" /\ calls'[v].pc # "none"
<1>h. contested' \in BOOLEAN
  BY DEF BuilderTyped, BuilderStep, StartReleases, StartReconciles, StartClears, StartStages, StartFails, StartUndoes,
         PollReconciles, PollReleases, PollProbes, PollReads, PollFinalizes, AbortReleases, CallFails, BuildEnds, TakeSlot
<1> SUFFICES Slots /\ Containers /\ (Moved(w) \/ UNCHANGED calls) /\ (Fault \/ UNCHANGED faults)
  BY <1>h, Faulting DEF BuilderTyped
<1>a. Stopped \in [running : BOOLEAN, commands : SUBSET Workflows, result : Results \cup {None}, execs : SUBSET Workflows]
  BY DEF Stopped
<1>b. container \in [running : BOOLEAN, commands : SUBSET Workflows, result : Results \cup {None}, execs : SUBSET Workflows]
  BY DEF BuilderTyped
<1>c. slot \in Slot \cup {None} /\ Settles(slot) /\ Knows(calls[w]) /\ calls[w].seen \in Slot \cup {None}
  BY DEF BuilderTyped, Call
<1>d. ASSUME NEW pc \in Answers \ {"completed"}, Answer(w, pc), calls[w].pc # "none"
      PROVE  Moved(w)
  BY <1>d, Answering DEF Answers
<1>e. ASSUME NEW pc \in Awaits \cup Answers, NEW seen \in Slot \cup {None},
             Knows([pc |-> pc, seen |-> seen]), Goes(w, pc, seen), calls[w].pc # "none"
      PROVE  Moved(w)
  BY <1>e, Going DEF Answers, Awaits
<1>f. ASSUME NEW before \in Slot \cup {None}, Settles(before), NEW running \in BOOLEAN,
             running /\ before # None => before.state \in {"complete", "failed"},
             TakeSlot(w, before, running), calls[w].pc # "none"
      PROVE  Slots /\ Moved(w)
  BY <1>f, Taking
<1>g. ExecOver(w) => Containers
  BY <1>b DEF ExecOver
<1>1. CASE StartReleases(w)
  <2>1. calls[w].pc # "none"
    BY <1>1 DEF StartReleases, At
  <2>2. CASE container' = Stopped /\ TakeSlot(w, None, FALSE) /\ UNCHANGED faults
    BY <2>1, <2>2, <1>a, <1>f DEF Settles
  <2>3. CASE Fault /\ Answer(w, "joined") /\ UNCHANGED <<slot, container, contested>>
    BY <2>1, <2>3, <1>b, <1>c, <1>d DEF Answers
  <2> QED BY <1>1, <2>2, <2>3 DEF StartReleases
<1>2. CASE StartReconciles(w)
  <2>1. calls[w].pc # "none" /\ calls[w].seen \in Slot /\ calls[w].seen.state = "rolling-out"
    BY <1>2, <1>c DEF StartReconciles, At, Knows
  <2>2. /\ Settled(calls[w].seen) \in Slot /\ Settles(Settled(calls[w].seen))
        /\ Renewed(calls[w].seen) \in Slot /\ Settles(Renewed(calls[w].seen))
        /\ Settled(calls[w].seen).state = "complete"
    BY <2>1, <1>c, Reconciling DEF Knows
  <2>3. container' = container /\ (Fault \/ UNCHANGED faults)
    BY <1>2 DEF StartReconciles
  <2>4. CASE TakeSlot(w, Settled(calls[w].seen), container.running)
    BY <2>1, <2>2, <2>3, <2>4, <1>b, <1>f
  <2>5. CASE slot' = Renewed(calls[w].seen) /\ Answer(w, "joined") /\ UNCHANGED contested
    BY <2>1, <2>2, <2>3, <2>5, <1>b, <1>d DEF Answers
  <2> QED BY <1>2, <2>4, <2>5 DEF StartReconciles
<1>3. CASE StartClears(w)
  <2>1. calls[w].pc # "none"
    BY <1>3 DEF StartClears, At
  <2>2. CASE container' = Stopped /\ TakeSlot(w, slot, FALSE) /\ UNCHANGED faults
    BY <2>1, <2>2, <1>a, <1>c, <1>f
  <2>3. CASE Fault /\ Answer(w, "threw") /\ UNCHANGED <<slot, container, contested>>
    BY <2>1, <2>3, <1>b, <1>c, <1>d DEF Answers
  <2> QED BY <1>3, <2>2, <2>3 DEF StartClears
<1>4. CASE StartStages(w)
  <2>1. calls[w].pc # "none" /\ Answer(w, "owner") /\ slot' = slot /\ faults' = faults
    BY <1>4 DEF StartStages, At
  <2>2. Containers
    BY <1>4, <1>b DEF StartStages
  <2> QED BY <2>1, <2>2, <1>c, <1>d DEF Answers
<1>5. CASE StartFails(w)
  <2>1. calls[w].pc # "none" /\ slot' = slot /\ Fault
    BY <1>5 DEF StartFails, At
  <2>2. Containers
    BY <1>5, <1>b DEF StartFails
  <2>3. CASE HeldAs(w, "active") /\ Goes(w, "undo", slot)
    <3>1. Knows([pc |-> "undo", seen |-> slot])
      BY <1>c, <2>3 DEF Knows, HeldAs
    <3> QED BY <2>1, <2>2, <2>3, <3>1, <1>c, <1>e DEF Awaits
  <2>4. CASE Answer(w, "threw")
    BY <2>1, <2>2, <2>4, <1>c, <1>d DEF Answers
  <2> QED BY <1>5, <2>3, <2>4 DEF StartFails
<1>6. CASE StartUndoes(w)
  <2>1. calls[w].pc # "none" /\ Answer(w, "threw") /\ (Fault \/ UNCHANGED faults)
    BY <1>6 DEF StartUndoes, At
  <2>2. Containers
    BY <1>6, <1>a, <1>b DEF StartUndoes
  <2>3. CASE slot' = None
    BY <2>1, <2>2, <2>3, <1>d DEF Settles, Answers
  <2>4. CASE slot' = IF HeldAs(w, "active") THEN [slot EXCEPT !.result = "failed"] ELSE slot
    <3>1. Slots
      BY <2>4, <1>c DEF HeldAs, Settles, Slot, Results
    <3> QED BY <2>1, <2>2, <3>1, <1>d DEF Answers
  <2> QED BY <1>6, <2>3, <2>4 DEF StartUndoes
<1>7. CASE PollReconciles(w)
  <2>1. calls[w].pc # "none" /\ calls[w].seen \in Slot /\ calls[w].seen.state = "rolling-out"
    BY <1>7, <1>c DEF PollReconciles, At, Knows
  <2>2. /\ Settled(calls[w].seen) \in Slot /\ Settles(Settled(calls[w].seen))
        /\ Settled(calls[w].seen).state = "complete"
        /\ Renewed(calls[w].seen) \in Slot /\ Settles(Renewed(calls[w].seen))
    BY <2>1, <1>c, Reconciling DEF Knows
  <2>3. container' = container /\ (Fault \/ UNCHANGED faults)
    BY <1>7 DEF PollReconciles
  <2>4. CASE slot' = Settled(calls[w].seen) /\ Goes(w, "completed", slot')
    <3>1. Knows([pc |-> "completed", seen |-> Settled(calls[w].seen)])
      BY <2>2, ImageNoneAssumption DEF Knows
    <3> QED BY <2>1, <2>2, <2>3, <2>4, <3>1, <1>b, <1>e DEF Answers
  <2>5. CASE slot' = Renewed(calls[w].seen) /\ Answer(w, "running")
    BY <2>1, <2>2, <2>3, <2>5, <1>b, <1>d DEF Answers
  <2> QED BY <1>7, <2>4, <2>5 DEF PollReconciles
<1>8. CASE PollReleases(w)
  <2>1. calls[w].pc # "none"
    BY <1>8 DEF PollReleases, At
  <2>2. CASE container' = Stopped /\ slot' = None /\ Answer(w, "failed") /\ UNCHANGED faults
    BY <2>1, <2>2, <1>a, <1>d DEF Settles, Answers
  <2>3. CASE Fault /\ Answer(w, "running") /\ UNCHANGED <<slot, container>>
    BY <2>1, <2>3, <1>b, <1>c, <1>d DEF Answers
  <2> QED BY <1>8, <2>2, <2>3 DEF PollReleases
<1>9. CASE PollProbes(w)
  <2>1. /\ calls[w].pc # "none" /\ slot' = slot /\ faults' = faults
        /\ calls[w].seen \in Slot /\ calls[w].seen.state = "active"
    BY <1>9, <1>c DEF PollProbes, At, Knows
  <2>2. CASE Goes(w, "read", [calls[w].seen EXCEPT !.result = container.result]) /\ UNCHANGED container /\ container.result # None
    <3>1. /\ [calls[w].seen EXCEPT !.result = container.result] \in Slot
          /\ Knows([pc |-> "read", seen |-> [calls[w].seen EXCEPT !.result = container.result]])
      BY <2>1, <2>2, <1>b, ImageNoneAssumption DEF Slot, Knows, Settles
    <3> QED BY <2>1, <2>2, <3>1, <1>b, <1>c, <1>e DEF Awaits
  <2>3. CASE Answer(w, "running") /\ ExecOver(w)
    BY <2>1, <2>3, <1>c, <1>d, <1>g DEF Answers
  <2> QED BY <1>9, <2>2, <2>3 DEF PollProbes
<1>10. CASE PollReads(w)
  <2>1. /\ calls[w].pc # "none" /\ ExecOver(w) /\ faults' = faults
        /\ calls[w].seen \in Slot /\ calls[w].seen.state = "active" /\ calls[w].seen.result # None
    BY <1>10, <1>c DEF PollReads, At, Knows
  <2>2. PICK read \in {calls[w].seen, [calls[w].seen EXCEPT !.result = "failed"]} :
            slot' = read /\ Goes(w, "finalize", read)
    BY <1>10 DEF PollReads
  <2>3. read \in Slot /\ Settles(read) /\ read.state = "active" /\ read.result # None
    BY <2>1, <2>2, ResultsAreNamed DEF Slot, Settles, Results
  <2>4. Knows([pc |-> "finalize", seen |-> read])
    BY <2>3, ImageNoneAssumption DEF Knows
  <2> QED BY <2>1, <2>2, <2>3, <2>4, <1>e, <1>g DEF Awaits
<1>11. CASE PollFinalizes(w)
  <2>1. /\ calls[w].pc # "none" /\ Containers /\ (Fault \/ UNCHANGED faults)
        /\ calls[w].seen \in Slot /\ calls[w].seen.result # None
    BY <1>11, <1>a, <1>b, <1>c DEF PollFinalizes, At, Knows
  <2>2. CASE /\ calls[w].seen.result = "failed"
             /\ slot' = [calls[w].seen EXCEPT !.state = "failed", !.expired = FALSE]
             /\ Goes(w, "failed", slot')
    <3>1. slot' \in Slot /\ Settles(slot') /\ Knows([pc |-> "failed", seen |-> slot'])
      BY <2>1, <2>2 DEF Slot, Settles, Knows
    <3> QED BY <2>1, <2>2, <3>1, <1>e DEF Answers
  <2>3. CASE /\ calls[w].seen.result # "failed"
             /\ slot' = [calls[w].seen EXCEPT !.state = "complete", !.expired = FALSE]
             /\ Goes(w, "completed", slot')
    <3>1. slot' \in Slot /\ slot'.state = "complete" /\ slot'.result \in Images
      BY <2>1, <2>3 DEF Slot, Results
    <3>2. Settles(slot') /\ Knows([pc |-> "completed", seen |-> slot'])
      BY <3>1, ImageNoneAssumption DEF Settles, Knows
    <3> QED BY <2>1, <2>3, <3>1, <3>2, <1>e DEF Answers
  <2> QED BY <1>11, <2>2, <2>3 DEF PollFinalizes
<1>12. CASE AbortReleases(w)
  <2>1. calls[w].pc # "none" /\ Answer(w, "aborted") /\ Containers /\ Slots /\ (Fault \/ UNCHANGED faults)
    BY <1>12, <1>a, <1>b, <1>c DEF AbortReleases, At, Settles
  <2> QED BY <2>1, <1>d DEF Answers
<1>13. CASE CallFails(w)
  <2>1. calls[w].pc # "none" /\ Answer(w, "threw") /\ ExecOver(w) /\ slot' = slot /\ Fault
    BY <1>13 DEF CallFails, Awaits, Answers
  <2> QED BY <2>1, <1>c, <1>d, <1>g DEF Answers
<1>14. CASE BuildEnds(w)
  <2>1. slot' = slot /\ calls' = calls /\ (Fault \/ UNCHANGED faults)
    BY <1>14 DEF BuildEnds
  <2>2. PICK result \in {"failed", ImageOf[w]} :
            container' = [container EXCEPT !.commands = @ \ {w}, !.result = result]
    BY <1>14 DEF BuildEnds
  <2>3. result \in Results
    BY <2>2, BuilderAssumption DEF Results
  <2>4. Containers
    BY <2>2, <2>3, <1>b
  <2> QED BY <2>1, <2>4, <1>c
<1> QED BY <1>1, <1>2, <1>3, <1>4, <1>5, <1>6, <1>7, <1>8, <1>9, <1>10, <1>11, <1>12, <1>13, <1>14 DEF BuilderStep

-----------------------------------------------------------------------------
(* The applications. *)

ApplicationStep(a) ==
    \/ ChangeCeiling(a) \/ Reconfigure(a, PassAt(a)) \/ PatchApplication(a) \/ PostReconfiguration(a)
    \/ Reconfigured(a) \/ CompleteRollout(a) \/ StartRunner(a) \/ StopRunner(a)

LEMMA Targets ==
    ASSUME ApplicationsTyped, NEW a \in Applications
    PROVE  /\ apps[a] \in Application /\ apps[a].configured \in Configuration
           /\ apps[a].running \in Configuration /\ apps[a].ceiling \in 1 .. MaxCeiling
           /\ RollingOut(a) => apps[a].target \in Configuration
           /\ changing[a] \in Change \cup {None}
           /\ changing[a] # None => /\ changing[a].seen \in Configuration
                                    /\ changing[a].shape \in Shapes \cup {None}
                                    /\ changing[a].ceiling \in 1 .. MaxCeiling
BY DEF ApplicationsTyped, RollingOut, Application, Change

LEMMA Configurations ==
    ASSUME NEW c \in Configuration
    PROVE  /\ \A shape \in Shapes : [c EXCEPT !.shape = shape] \in Configuration
           /\ \A image \in Images : [c EXCEPT !.image = image] \in Configuration
           /\ \A shape \in Shapes : [c EXCEPT !.shape = shape].shape = shape
           /\ \A shape \in Shapes : [c EXCEPT !.shape = shape].image = c.image
           /\ \A image \in Images : [c EXCEPT !.image = image].shape = c.shape
           /\ \A image \in Images : [c EXCEPT !.image = image].image = image
BY DEF Configuration

\* Changes are made, moved on and forgotten.
LEMMA Changes ==
    ASSUME ApplicationsTyped, NEW a \in Applications, NEW c \in Change \cup {None},
           c # None /\ c.pc \in {"post", "await"} => c.shape # None,
           changing' = [changing EXCEPT ![a] = c]
    PROVE  /\ changing' \in [Applications -> Change \cup {None}]
           /\ \A b \in Applications :
                 changing'[b] # None /\ changing'[b].pc \in {"post", "await"} => changing'[b].shape # None
BY DEF ApplicationsTyped

LEMMA ChangeMoves ==
    ASSUME ApplicationsTyped, NEW a \in Applications, changing[a] # None, NEW pc \in {"patch", "post", "await"},
           changing[a].shape # None
    PROVE  /\ ChangeTo(a, pc) = [changing EXCEPT ![a] = [changing[a] EXCEPT !.pc = pc]]
           /\ [changing[a] EXCEPT !.pc = pc] \in Change
           /\ [changing[a] EXCEPT !.pc = pc].shape = changing[a].shape
BY Targets DEF ApplicationsTyped, ChangeTo, Change

LEMMA ApplicationsKeepTypes ==
    ASSUME ApplicationsTyped, NEW a \in Applications, ApplicationStep(a)
    PROVE  ApplicationsTyped'
<1> DEFINE Apps == apps' \in [Applications -> Application]
           ChangesTyped == /\ changing' \in [Applications -> Change \cup {None}]
                        /\ \A b \in Applications :
                              changing'[b] # None /\ changing'[b].pc \in {"post", "await"} => changing'[b].shape # None
           Granted == granted' \in [Applications -> [shape : Shapes \cup {None}, ceiling : 1 .. MaxCeiling]]
           Counts == changes' \in 0 .. MaxChanges /\ started' \in 0 .. MaxRunners
<1>x. crossed' \subseteq Applications
  BY DEF ApplicationsTyped, ApplicationStep, CrossedIf, ChangeCeiling, Reconfigure, PatchApplication, PostReconfiguration,
         Reconfigured, CompleteRollout, StartRunner, StopRunner
<1> SUFFICES Apps /\ ChangesTyped /\ Granted /\ Counts
  BY <1>x DEF ApplicationsTyped
<1>k. /\ apps' = apps => Apps
      /\ changing' = changing => ChangesTyped
      /\ granted' = granted => Granted
      /\ changes' = changes /\ started' = started => Counts
  BY DEF ApplicationsTyped
<1>t. /\ apps[a] \in Application /\ apps[a].configured \in Configuration
      /\ RollingOut(a) => apps[a].target \in Configuration
      /\ changing[a] # None => /\ changing[a] \in Change /\ changing[a].seen \in Configuration
                               /\ changing[a].shape \in Shapes \cup {None}
                               /\ changing[a].ceiling \in 1 .. MaxCeiling
  BY Targets
<1>n. changes < MaxChanges /\ changes' = changes + 1 /\ started' = started => Counts
  BY ApplicationsAssumption DEF ApplicationsTyped
<1>1. CASE ChangeCeiling(a)
  <2>1. PICK ceiling \in 1 .. MaxCeiling :
            changing' = [changing EXCEPT ![a] =
              [pc |-> "patch", seen |-> apps[a].configured, shape |-> None, ceiling |-> ceiling]]
    BY <1>1 DEF ChangeCeiling
  <2>2. [pc |-> "patch", seen |-> apps[a].configured, shape |-> None, ceiling |-> ceiling] \in Change
    BY <1>t DEF Change
  <2> QED BY <1>1, <1>k, <1>n, <2>1, <2>2, Changes DEF ChangeCeiling
<1>2. CASE Reconfigure(a, PassAt(a))
  <2>1. PICK shape \in Shapes, ceiling \in 1 .. MaxCeiling, pc \in {"patch", "await"} :
            changing' = [changing EXCEPT ![a] =
              [pc |-> pc, seen |-> apps[a].configured, shape |-> shape, ceiling |-> ceiling]]
    BY <1>2 DEF Reconfigure
  <2>2. [pc |-> pc, seen |-> apps[a].configured, shape |-> shape, ceiling |-> ceiling] \in Change
    BY <1>t DEF Change
  <2> QED BY <1>2, <1>k, <1>n, <2>1, <2>2, Changes, ImageNoneAssumption DEF Reconfigure
<1>3. CASE PatchApplication(a)
  <2>1. changing[a] # None /\ changing[a].pc = "patch"
    BY <1>3 DEF PatchApplication, Changing
  <2>2. PICK shown \in Configuration :
            apps' = [apps EXCEPT ![a].configured = shown, ![a].ceiling = changing[a].ceiling]
    BY <1>3, <1>t, <2>1, Configurations DEF PatchApplication, Configured
  <2>3. Apps
    BY <1>t, <2>1, <2>2 DEF ApplicationsTyped, Application
  <2>4. Granted
    <3>1. granted \in [Applications -> [shape : Shapes \cup {None}, ceiling : 1 .. MaxCeiling]]
      BY DEF ApplicationsTyped
    <3>2. PICK shape \in {None, granted[a].shape} :
              granted' = [granted EXCEPT ![a].ceiling = changing[a].ceiling, ![a].shape = shape]
      BY <1>3, <3>1 DEF PatchApplication
    <3> QED BY <1>t, <2>1, <3>1, <3>2
  <2>5. CASE Reshaping(a)
    <3>1. changing[a].shape # None /\ changing' = ChangeTo(a, "post")
      BY <1>3, <2>5 DEF PatchApplication, Reshaping
    <3>2. ChangesTyped
      BY <2>1, <3>1, ChangeMoves, Changes
    <3> QED BY <1>3, <1>k, <2>3, <2>4, <3>2 DEF PatchApplication
  <2>6. CASE ~Reshaping(a)
    <3>1. changing' = [changing EXCEPT ![a] = None]
      BY <1>3, <2>6 DEF PatchApplication, ChangeOver
    <3>2. ChangesTyped
      BY <3>1, Changes
    <3> QED BY <1>3, <1>k, <2>3, <2>4, <3>2 DEF PatchApplication
  <2> QED BY <2>5, <2>6
<1>4. CASE PostReconfiguration(a)
  <2>1. changing[a] # None /\ changing[a].pc = "post" /\ changing[a].shape \in Shapes
    BY <1>4, <1>t DEF PostReconfiguration, Changing, ApplicationsTyped
  <2>2. [changing[a].seen EXCEPT !.shape = changing[a].shape] \in Configuration
    BY <1>t, <2>1, Configurations
  <2>3. Apps
    BY <1>4, <1>t, <2>2 DEF PostReconfiguration, RolledOut, ApplicationsTyped, Application
  <2>4. ChangesTyped
    BY <1>4, <2>1, ChangeMoves, Changes, ImageNoneAssumption DEF PostReconfiguration
  <2> QED BY <1>4, <1>k, <2>3, <2>4 DEF PostReconfiguration
<1>5. CASE Reconfigured(a)
  <2>1. changing[a] # None
    BY <1>5 DEF Reconfigured, Changing
  <2>2. Granted
    BY <1>5, <1>t, <2>1 DEF Reconfigured, ApplicationsTyped
  <2>3. ChangesTyped
    BY <1>5, Changes DEF Reconfigured, ChangeOver
  <2> QED BY <1>5, <1>k, <2>2, <2>3 DEF Reconfigured
<1>6. CASE CompleteRollout(a)
  <2>1. apps[a].target \in Configuration /\ apps[a].target.image \in Images
    BY <1>6, <1>t DEF CompleteRollout, Configuration
  <2>2. Apps
    BY <1>6, <1>t, <2>1 DEF CompleteRollout, ApplicationsTyped, Application
  <2> QED BY <1>6, <1>k, <2>2 DEF CompleteRollout
<1>7. CASE StartRunner(a)
  <2>1. Apps
    BY <1>7, <1>t DEF StartRunner, ApplicationsTyped, Application
  <2>2. Counts
    BY <1>7, ApplicationsAssumption DEF StartRunner, ApplicationsTyped
  <2> QED BY <1>7, <1>k, <2>1, <2>2 DEF StartRunner
<1>8. CASE StopRunner(a)
  <2>1. Apps
    BY <1>8, <1>t DEF StopRunner, ApplicationsTyped, Application
  <2> QED BY <1>8, <1>k, <2>1 DEF StopRunner
<1> QED BY <1>1, <1>2, <1>3, <1>4, <1>5, <1>6, <1>7, <1>8 DEF ApplicationStep

-----------------------------------------------------------------------------
(* The workflows. *)

LEMMA Begins ==
    ASSUME BuilderTyped, NEW w \in Workflows,
           StartBuild(w) \/ PollBuild(w) \/ PollActiveBuild(w) \/ AbortBuild(w)
    PROVE  /\ BuilderTyped'
           /\ calls[w].pc = "none" /\ calls'[w].pc # "none"
           /\ \A v \in Workflows \ {w} : calls'[v] = calls[v]
<1> DEFINE Slots == slot' \in Slot \cup {None} /\ Settles(slot')
           Containers == container' \in [running : BOOLEAN, commands : SUBSET Workflows,
                                         result : Results \cup {None}, execs : SUBSET Workflows]
           Begun == /\ calls' \in [Workflows -> Call] /\ \A u \in Workflows : Knows(calls'[u])
                    /\ \A u \in Workflows \ {w} : calls'[u] = calls[u]
                    /\ calls'[w].pc # "none"
<1>a. calls[w].pc = "none" /\ faults' = faults
  BY DEF StartBuild, PollBuild, PollActiveBuild, AbortBuild, NoCall
<1>h. contested' \in BOOLEAN
  BY DEF BuilderTyped, StartBuild, PollBuild, PollActiveBuild, AbortBuild, TakeSlot
<1> SUFFICES Slots /\ Containers /\ Begun
  BY <1>a, <1>h DEF BuilderTyped
<1>b. container \in [running : BOOLEAN, commands : SUBSET Workflows, result : Results \cup {None}, execs : SUBSET Workflows]
  BY DEF BuilderTyped
<1>c. slot \in Slot \cup {None} /\ Settles(slot)
  BY DEF BuilderTyped
<1>d. ASSUME NEW pc \in Answers \ {"completed"}, Answer(w, pc)
      PROVE  Begun
  BY <1>d, Answering DEF Answers
<1>e. ASSUME NEW pc \in Awaits \cup Answers, Knows([pc |-> pc, seen |-> slot]), Goes(w, pc, slot)
      PROVE  Begun
  BY <1>c, <1>e, Going DEF Answers, Awaits
<1>1. CASE StartBuild(w)
  <2>1. container' = container
    BY <1>1 DEF StartBuild
  <2>2. CASE TakeSlot(w, slot, container.running) /\ (slot = None \/ Is("complete") \/ Is("failed"))
    <3>1. Slots /\ Begun
      BY <1>b, <1>c, <2>2, Taking DEF Is
    <3> QED BY <1>b, <2>1, <3>1
  <2>3. CASE Lives /\ Answer(w, IF slot.owner = w THEN "owner" ELSE "joined") /\ UNCHANGED slot
    <3>1. Answer(w, "owner") \/ Answer(w, "joined")
      BY <2>3 DEF Answer
    <3> QED BY <1>b, <1>c, <1>d, <2>1, <2>3, <3>1 DEF Answers
  <2>4. CASE Expired("active") /\ Goes(w, "release", slot) /\ UNCHANGED slot
    <3>1. Knows([pc |-> "release", seen |-> slot])
      BY <1>c, <2>4 DEF Knows, Expired, Is
    <3> QED BY <1>b, <1>c, <1>e, <2>1, <2>4, <3>1 DEF Awaits
  <2>5. CASE Expired("rolling-out") /\ Goes(w, "reconcile", slot) /\ UNCHANGED slot
    <3>1. Knows([pc |-> "reconcile", seen |-> slot])
      BY <1>c, <2>5 DEF Knows, Expired, Is
    <3> QED BY <1>b, <1>c, <1>e, <2>1, <2>5, <3>1 DEF Awaits
  <2> QED BY <1>1, <2>2, <2>3, <2>4, <2>5 DEF StartBuild
<1>2. CASE PollBuild(w)
  <2>1. container' = container /\ slot' = slot
    BY <1>2 DEF PollBuild
  <2>2. CASE Answer(w, "failed") \/ Answer(w, "running")
    BY <1>b, <1>c, <1>d, <2>1, <2>2 DEF Answers
  <2>3. CASE Is("complete") /\ Goes(w, "completed", slot)
    <3>1. Knows([pc |-> "completed", seen |-> slot])
      BY <1>c, <2>3 DEF Knows, Is
    <3> QED BY <1>b, <1>c, <1>e, <2>1, <2>3, <3>1 DEF Answers
  <2>4. CASE Expired("rolling-out") /\ Goes(w, "poll-reconcile", slot)
    <3>1. Knows([pc |-> "poll-reconcile", seen |-> slot])
      BY <1>c, <2>4 DEF Knows, Expired, Is
    <3> QED BY <1>b, <1>c, <1>e, <2>1, <2>4, <3>1 DEF Awaits
  <2>5. CASE Is("active") /\ slot.result # None /\ Goes(w, "finalize", slot)
    <3>1. Knows([pc |-> "finalize", seen |-> slot])
      BY <1>c, <2>5 DEF Knows, Is
    <3> QED BY <1>b, <1>c, <1>e, <2>1, <2>5, <3>1 DEF Awaits
  <2>6. CASE Expired("active") /\ Goes(w, "poll-release", slot)
    <3>1. Knows([pc |-> "poll-release", seen |-> slot])
      BY <1>c, <2>6 DEF Knows, Expired, Is
    <3> QED BY <1>b, <1>c, <1>e, <2>1, <2>6, <3>1 DEF Awaits
  <2> QED BY <1>2, <2>2, <2>3, <2>4, <2>5, <2>6 DEF PollBuild
<1>3. CASE PollActiveBuild(w)
  <2>1. slot' = slot /\ Is("active")
    BY <1>3 DEF PollActiveBuild
  <2>2. CASE Goes(w, "probe", slot) /\ container' = [container EXCEPT !.execs = @ \cup {w}]
    <3>1. Knows([pc |-> "probe", seen |-> slot])
      BY <1>c, <2>1 DEF Knows, Is
    <3>2. Containers
      BY <1>b, <2>2
    <3> QED BY <1>c, <1>e, <2>1, <2>2, <3>1, <3>2 DEF Awaits
  <2>3. CASE Answer(w, "running") /\ UNCHANGED container
    BY <1>b, <1>c, <1>d, <2>1, <2>3 DEF Answers
  <2> QED BY <1>3, <2>2, <2>3 DEF PollActiveBuild
<1>4. CASE AbortBuild(w)
  <2>1. container' = container /\ slot' = slot
    BY <1>4 DEF AbortBuild
  <2>2. CASE HeldAs(w, "active") /\ Goes(w, "abort", slot)
    <3>1. Knows([pc |-> "abort", seen |-> slot])
      BY <1>c, <2>2 DEF Knows, HeldAs
    <3> QED BY <1>b, <1>c, <1>e, <2>1, <2>2, <3>1 DEF Awaits
  <2>3. CASE Answer(w, "aborted")
    BY <1>b, <1>c, <1>d, <2>1, <2>3 DEF Answers
  <2> QED BY <1>4, <2>2, <2>3 DEF AbortBuild
<1> QED BY <1>1, <1>2, <1>3, <1>4

LEMMA TakingAnswers ==
    ASSUME BuilderTyped, NEW w \in Workflows, Taken(w), UNCHANGED <<slot, container, contested, faults>>
    PROVE  /\ BuilderTyped' /\ calls'[w].pc = "none"
           /\ \A v \in Workflows \ {w} : calls'[v] = calls[v]
<1>1. Answer(w, "none")
  BY DEF Taken, Answer, Goes, NoCall
<1> QED BY <1>1, Answering, Faulting DEF BuilderTyped

LEMMA Moving ==
    ASSUME FlowsTyped, NEW w \in Workflows, NEW to \in Stages, Moves(w, to)
    PROVE  /\ flows' \in [Workflows -> Flow]
           /\ Stage(w)' = to
           /\ flows'[w].owns = flows[w].owns /\ flows'[w].result = flows[w].result
           /\ \A v \in Workflows \ {w} : flows'[v] = flows[v]
BY DEF FlowsTyped, Moves, Stage, Flow

\* A workflow moves between stages in which it has neither a call nor a pass.
LEMMA MovingAlone ==
    ASSUME FlowsTyped, Called, NEW w \in Workflows, NEW to \in Stages \ ({"pass"} \cup Calling), Moves(w, to),
           Stage(w) \notin {"pass"} \cup Calling,
           UNCHANGED <<calls, pass, roller>>, bootstrap' \in Bootstrap
    PROVE  FlowsTyped' /\ Called'
<1>1. /\ flows' \in [Workflows -> Flow] /\ Stage(w)' = to
      /\ \A v \in Workflows \ {w} : flows'[v] = flows[v]
  BY Moving
<1>2. Called'
  BY <1>1 DEF Called, Stage
<1>3. \A v \in Workflows : /\ pass'[v] # None <=> Stage(v)' = "pass"
                           /\ pass'[v] # None => Carries(pass'[v], flows'[v].result)
  BY <1>1 DEF FlowsTyped, Stage
<1> QED BY <1>1, <1>2, <1>3 DEF FlowsTyped

\* A pass begins, goes on, or is over.
LEMMA Passing ==
    ASSUME FlowsTyped, NEW w \in Workflows, NEW p \in Pass \cup {None}, pass' = [pass EXCEPT ![w] = p],
           flows' \in [Workflows -> Flow], \A v \in Workflows \ {w} : flows'[v] = flows[v],
           p # None <=> Stage(w)' = "pass", p # None => Carries(p, flows'[w].result),
           roller' \in Workflows \cup {None}, UNCHANGED bootstrap
    PROVE  FlowsTyped'
<1>1. pass' \in [Workflows -> Pass \cup {None}] /\ pass'[w] = p /\ \A v \in Workflows \ {w} : pass'[v] = pass[v]
  BY DEF FlowsTyped
<1>2. \A v \in Workflows : /\ pass'[v] # None <=> Stage(v)' = "pass"
                           /\ pass'[v] # None => Carries(pass'[v], flows'[v].result)
  BY <1>1 DEF FlowsTyped, Stage
<1> QED BY <1>1, <1>2 DEF FlowsTyped

LEMMA PassMoves ==
    ASSUME ApplicationsTyped, FlowsTyped, NEW w \in Workflows, pass[w] # None, NEW a \in Applications, a \in pass[w].left
    PROVE  /\ \A pc \in {"patch", "reread", "post"} : PassGoes(w, a, pc) =>
                  \E p \in Pass : /\ pass' = [pass EXCEPT ![w] = p] /\ Carries(p, flows[w].result)
                                  /\ p.app = a /\ p.pc = pc /\ p.seen = apps[a] /\ p.left = pass[w].left
                                  /\ p.skipped = pass[w].skipped
           /\ \A skipped \in BOOLEAN : PassLeaves(w, a, skipped) =>
                  \E p \in Pass : /\ pass' = [pass EXCEPT ![w] = p] /\ Carries(p, flows[w].result)
                                  /\ p.app = None /\ p.left = pass[w].left \ {a}
                                  /\ p.skipped = (pass[w].skipped \/ skipped)
<1>1. pass[w] \in Pass /\ flows[w].result \in Images /\ apps[a] \in Application
  BY DEF FlowsTyped, ApplicationsTyped, Carries
<1>2. ASSUME NEW pc \in {"patch", "reread", "post"}, PassGoes(w, a, pc)
      PROVE  \E p \in Pass : /\ pass' = [pass EXCEPT ![w] = p] /\ Carries(p, flows[w].result)
                             /\ p.app = a /\ p.pc = pc /\ p.seen = apps[a] /\ p.left = pass[w].left
                             /\ p.skipped = pass[w].skipped
  <2> DEFINE p == [pass[w] EXCEPT !.app = a, !.pc = pc, !.seen = apps[a]]
  <2>1. /\ p \in Pass /\ p.app = a /\ p.pc = pc /\ p.seen = apps[a] /\ p.left = pass[w].left
        /\ p.skipped = pass[w].skipped
    BY <1>1, <1>2 DEF Pass
  <2>2. pass' = [pass EXCEPT ![w] = p]
    BY <1>2 DEF PassGoes
  <2>3. Carries(p, flows[w].result)
    BY <1>1, <1>2, <2>1, ImageNoneAssumption DEF Carries
  <2> HIDE DEF p
  <2> QED BY <2>1, <2>2, <2>3
<1>3. ASSUME NEW skipped \in BOOLEAN, PassLeaves(w, a, skipped)
      PROVE  \E p \in Pass : /\ pass' = [pass EXCEPT ![w] = p] /\ Carries(p, flows[w].result)
                             /\ p.app = None /\ p.left = pass[w].left \ {a}
                             /\ p.skipped = (pass[w].skipped \/ skipped)
  <2> DEFINE p == [pass[w] EXCEPT !.left = @ \ {a}, !.app = None, !.pc = "inspect", !.seen = None,
                                  !.skipped = @ \/ skipped]
  <2>1. /\ p \in Pass /\ p.app = None /\ p.pc = "inspect" /\ p.left = pass[w].left \ {a}
        /\ p.skipped = (pass[w].skipped \/ skipped)
    BY <1>1 DEF Pass
  <2>2. pass' = [pass EXCEPT ![w] = p]
    BY <1>3 DEF PassLeaves
  <2>3. Carries(p, flows[w].result)
    BY <1>1, <2>1 DEF Carries
  <2> HIDE DEF p
  <2> QED BY <2>1, <2>2, <2>3
<1> QED BY <1>2, <1>3

\* What one workflow does outside of the builder's methods.
Copies(w) == ClaimBootstrap(w) \/ Copy(w) \/ CopyBlob(w) \/ Publish(w) \/ Swap(w) \/ Swapped(w) \/ RecordBootstrap(w)
Calls(w) == Start(w) \/ Started(w) \/ Poll(w) \/ Polled(w) \/ Cleanup(w) \/ CleanedUp(w)
Rolls(w) == BeginRollOut(w) \/ EndPass(w) \/ PassFails(w)
RollsOut(w, a) == InspectApplication(w, a) \/ PatchApplicationImage(w, a) \/ RereadApplication(w, a) \/ PostImageRollout(w, a)

LEMMA NextKinds ==
    ASSUME Next
    PROVE  \/ \E w \in Workflows : Copies(w) \/ Calls(w) \/ Rolls(w) \/ GiveUp(w) \/ Interrupted(w)
           \/ \E w \in Workflows, a \in Applications : RollsOut(w, a)
           \/ \E w \in Workflows : BuilderStep(w) /\ BuilderKeeps
           \/ \E a \in Applications : ApplicationStep(a) /\ ApplicationsKeep
           \/ SwapEnds
           \/ LeaseExpires
BY DEF Next, Copies, Calls, Rolls, RollsOut, BuilderStep, ApplicationStep

LEMMA Frames ==
    /\ BuilderTyped /\ UNCHANGED <<slot, container, calls, contested>> /\ (Fault \/ UNCHANGED faults) => BuilderTyped'
    /\ ApplicationsTyped /\ UNCHANGED appVars => ApplicationsTyped'
    /\ FlowsTyped /\ UNCHANGED flowVars => FlowsTyped'
    /\ Called /\ UNCHANGED <<calls, flows>> => Called'
<1>1. BuilderTyped /\ UNCHANGED <<slot, container, calls, contested>> /\ (Fault \/ UNCHANGED faults) => BuilderTyped'
  BY Faulting DEF BuilderTyped
<1>2. ApplicationsTyped /\ UNCHANGED appVars => ApplicationsTyped'
  BY DEF ApplicationsTyped, appVars
<1>3. FlowsTyped /\ UNCHANGED flowVars => FlowsTyped'
  BY DEF FlowsTyped, flowVars, Stage
<1>4. Called /\ UNCHANGED <<calls, flows>> => Called'
  BY DEF Called, Stage
<1> QED BY <1>1, <1>2, <1>3, <1>4

LEMMA CopiesKeepTypes ==
    ASSUME Typed, NEW w \in Workflows, Copies(w)
    PROVE  Typed'
<1>a. BuilderTyped /\ ApplicationsTyped /\ FlowsTyped /\ Called /\ bootstrap \in Bootstrap
  BY DEF Typed, FlowsTyped
<1>b. ApplicationsTyped' /\ (UNCHANGED builderVars => BuilderTyped') /\ UNCHANGED <<calls, pass, roller>>
  BY <1>a, Frames DEF Copies, ClaimBootstrap, Copy, CopyBlob, Publish, Swap, Swapped, RecordBootstrap, builderVars
<1>c. ASSUME NEW to \in Stages \ ({"pass"} \cup Calling), Moves(w, to), Stage(w) \notin {"pass"} \cup Calling,
             bootstrap' \in Bootstrap, BuilderTyped'
      PROVE  Typed'
  BY <1>a, <1>b, <1>c, MovingAlone DEF Typed
<1>1. CASE ClaimBootstrap(w)
  <2>1. bootstrap' \in Bootstrap
    BY <1>1, <1>a DEF ClaimBootstrap, Bootstrap
  <2>2. Moves(w, "start") \/ Moves(w, "copy")
    BY <1>1 DEF ClaimBootstrap
  <2> QED BY <1>1, <1>b, <1>c, <2>1, <2>2 DEF ClaimBootstrap, Stages, Calling
<1>2. CASE Copy(w)
  <2>1. bootstrap' \in Bootstrap
    BY <1>2, <1>a DEF Copy, Bootstrap
  <2>2. Moves(w, "copying") \/ Moves(w, "interrupted")
    BY <1>2 DEF Copy
  <2> QED BY <1>2, <1>b, <1>c, <2>1, <2>2 DEF Copy, Stages, Calling
<1>3. CASE CopyBlob(w)
  <2>1. bootstrap' \in Bootstrap
    BY <1>3, <1>a DEF CopyBlob, Bootstrap
  <2>2. FlowsTyped' /\ Called'
    BY <1>3, <1>a, <1>b, <2>1 DEF CopyBlob, FlowsTyped, Called, Stage
  <2> QED BY <1>3, <1>b, <2>2 DEF CopyBlob, Typed
<1>4. CASE Publish(w)
  <2>1. bootstrap' \in Bootstrap
    BY <1>4, <1>a DEF Publish, Bootstrap
  <2> QED BY <1>4, <1>b, <1>c, <2>1 DEF Publish, Stages, Calling
<1>5. CASE Swap(w)
  <2>1. bootstrap' \in Bootstrap
    BY <1>5, <1>a DEF Swap, Bootstrap
  <2>2. BuilderTyped'
    BY <1>5, <1>a DEF Swap, BuilderTyped, Stopped
  <2> QED BY <1>5, <1>b, <1>c, <2>1, <2>2 DEF Swap, Stages, Calling
<1>6. CASE Swapped(w)
  BY <1>6, <1>a, <1>b, <1>c DEF Swapped, Stages, Calling
<1>7. CASE RecordBootstrap(w)
  <2>1. bootstrap' \in Bootstrap
    BY <1>7, <1>a DEF RecordBootstrap, Bootstrap
  <2>2. Moves(w, "start") \/ Moves(w, "interrupted")
    BY <1>7 DEF RecordBootstrap
  <2> QED BY <1>7, <1>b, <1>c, <2>1, <2>2 DEF RecordBootstrap, Stages, Calling
<1> QED BY <1>1, <1>2, <1>3, <1>4, <1>5, <1>6, <1>7 DEF Copies

LEMMA CallsKeepTypes ==
    ASSUME Typed, NEW w \in Workflows, Calls(w)
    PROVE  Typed'
<1>a. /\ BuilderTyped /\ ApplicationsTyped /\ FlowsTyped /\ Called /\ bootstrap \in Bootstrap
      /\ flows \in [Workflows -> Flow] /\ slot \in Slot \cup {None}
  BY DEF Typed, FlowsTyped, BuilderTyped
<1>b. ApplicationsTyped' /\ UNCHANGED <<pass, roller>>
  BY <1>a, Frames DEF Calls, Start, Started, Poll, Polled, Cleanup, CleanedUp
\* The stage says that there is a call, before and after.
<1>c. ASSUME flows' \in [Workflows -> Flow], \A v \in Workflows \ {w} : flows'[v] = flows[v] /\ calls'[v] = calls[v],
             calls'[w].pc # "none" <=> Stage(w)' \in Calling, Stage(w) # "pass", Stage(w)' # "pass",
             bootstrap' \in Bootstrap, BuilderTyped'
      PROVE  Typed'
  <2>1. Called'
    BY <1>a, <1>c DEF Called, Stage
  <2>2. \A v \in Workflows : /\ pass'[v] # None <=> Stage(v)' = "pass"
                             /\ pass'[v] # None => Carries(pass'[v], flows'[v].result)
    BY <1>a, <1>b, <1>c DEF FlowsTyped, Stage
  <2>3. FlowsTyped'
    BY <1>a, <1>b, <1>c, <2>2 DEF FlowsTyped
  <2> QED BY <1>b, <1>c, <2>1, <2>3 DEF Typed
<1>1. CASE Start(w)
  <2>1. /\ flows' \in [Workflows -> Flow] /\ Stage(w)' = "starting"
        /\ \A v \in Workflows \ {w} : flows'[v] = flows[v]
    BY <1>1, <1>a, Moving DEF Start, Stages
  <2>2. BuilderTyped' /\ calls'[w].pc # "none" /\ \A v \in Workflows \ {w} : calls'[v] = calls[v]
    BY <1>1, <1>a, Begins DEF Start
  <2> QED BY <1>1, <1>a, <1>c, <2>1, <2>2 DEF Start, Calling
<1>2. CASE Poll(w)
  <2>1. /\ flows' \in [Workflows -> Flow] /\ Stage(w)' = "polling"
        /\ \A v \in Workflows \ {w} : flows'[v] = flows[v]
    BY <1>2, <1>a, Moving DEF Poll, Stages
  <2>2. BuilderTyped' /\ calls'[w].pc # "none" /\ \A v \in Workflows \ {w} : calls'[v] = calls[v]
    BY <1>2, <1>a, Begins DEF Poll
  <2> QED BY <1>2, <1>a, <1>c, <2>1, <2>2 DEF Poll, Calling
<1>3. CASE Started(w)
  <2>1. PICK f \in Flow : flows' = [flows EXCEPT ![w] = f] /\ f.stage \in {"start", "interrupted", "poll"}
    <3>1. CASE At(w, "threw")
      <4>1. PICK to \in {"start", "interrupted"} : Moves(w, to)
        BY <1>3, <3>1 DEF Started, Retried
      <4>2. [flows[w] EXCEPT !.stage = to] \in Flow /\ [flows[w] EXCEPT !.stage = to].stage = to
        BY <1>a DEF Flow, Stages
      <4> QED BY <4>1, <4>2 DEF Moves
    <3>2. CASE ~At(w, "threw")
      <4> DEFINE f == [flows[w] EXCEPT !.stage = "poll", !.owns = At(w, "owner")]
      <4>1. flows' = [flows EXCEPT ![w] = f]
        BY <1>3, <3>2 DEF Started
      <4>2. f \in Flow /\ f.stage = "poll"
        BY <1>a DEF Flow, Stages, At
      <4> HIDE DEF f
      <4> QED BY <4>1, <4>2
    <3> QED BY <3>1, <3>2
  <2>2. BuilderTyped' /\ calls'[w].pc = "none" /\ \A v \in Workflows \ {w} : calls'[v] = calls[v]
    BY <1>3, <1>a, TakingAnswers DEF Started
  <2> QED BY <1>3, <1>a, <1>c, <2>1, <2>2 DEF Started, Stage, Calling
<1>4. CASE Polled(w)
  <2>1. PICK f \in Flow : flows' = [flows EXCEPT ![w] = f] /\ f.stage \in {"start", "interrupted", "poll", "roll", "cleanup"}
    <3>a. flows[w] \in Flow
      BY <1>a
    <3>1. CASE \E to \in {"start", "interrupted", "poll", "cleanup"} : Moves(w, to)
      <4>1. PICK to \in {"start", "interrupted", "poll", "cleanup"} : Moves(w, to)
        BY <3>1
      <4>2. [flows[w] EXCEPT !.stage = to] \in Flow /\ [flows[w] EXCEPT !.stage = to].stage = to
        BY <3>a DEF Flow, Stages
      <4> QED BY <4>1, <4>2 DEF Moves
    <3>2. CASE /\ At(w, "completed")
               /\ flows' = [flows EXCEPT ![w].stage = "roll", ![w].result = calls[w].seen.result]
      <4>1. calls[w].seen.result \in Results \cup {None}
        BY <1>a, <3>2, ImageNoneAssumption DEF BuilderTyped, Knows, Call, Slot, At
      <4> DEFINE f == [flows[w] EXCEPT !.stage = "roll", !.result = calls[w].seen.result]
      <4>2. flows' = [flows EXCEPT ![w] = f]
        BY <3>2
      <4>3. f \in Flow /\ f.stage = "roll"
        BY <3>a, <4>1 DEF Flow, Stages
      <4> HIDE DEF f
      <4> QED BY <4>2, <4>3
    <3>3. CASE flows[w].round < MaxRounds /\ flows' = [flows EXCEPT ![w].stage = "start", ![w].round = @ + 1]
      <4> DEFINE f == [flows[w] EXCEPT !.stage = "start", !.round = @ + 1]
      <4>1. flows[w].round + 1 \in 1 .. MaxRounds
        BY <3>a, <3>3, WorkflowAssumption DEF Flow
      <4>2. flows' = [flows EXCEPT ![w] = f]
        BY <3>3
      <4>3. f \in Flow /\ f.stage = "start"
        BY <3>a, <4>1 DEF Flow, Stages
      <4> HIDE DEF f
      <4> QED BY <4>2, <4>3
    <3>4. \/ Moves(w, "poll") \/ Retried(w, "poll") \/ Moves(w, "cleanup") \/ NextRound(w)
          \/ /\ At(w, "completed")
             /\ flows' = [flows EXCEPT ![w].stage = "roll", ![w].result = calls[w].seen.result]
      BY <1>4 DEF Polled
    <3> QED BY <3>1, <3>2, <3>3, <3>4 DEF Retried, NextRound
  <2>2. BuilderTyped' /\ calls'[w].pc = "none" /\ \A v \in Workflows \ {w} : calls'[v] = calls[v]
    BY <1>4, <1>a, TakingAnswers DEF Polled
  <2> QED BY <1>4, <1>a, <1>c, <2>1, <2>2 DEF Polled, Stage, Calling
<1>5. CASE Cleanup(w)
  <2>1. bootstrap' \in Bootstrap
    BY <1>5, <1>a DEF Cleanup, Bootstrap
  <2>2. CASE AbortBuild(w) /\ Moves(w, "aborting")
    <3>1. /\ flows' \in [Workflows -> Flow] /\ Stage(w)' = "aborting"
          /\ \A v \in Workflows \ {w} : flows'[v] = flows[v]
      BY <2>2, <1>a, Moving DEF Stages
    <3>2. BuilderTyped' /\ calls'[w].pc # "none" /\ \A v \in Workflows \ {w} : calls'[v] = calls[v]
      BY <2>2, <1>a, Begins
    <3> QED BY <1>5, <1>a, <1>c, <2>1, <3>1, <3>2 DEF Cleanup, Calling
  <2>3. CASE Moves(w, "failed") /\ UNCHANGED builderVars
    <3>1. FlowsTyped' /\ Called'
      BY <1>5, <1>a, <1>b, <2>1, <2>3, MovingAlone DEF Cleanup, Stages, Calling, builderVars
    <3> QED BY <1>a, <1>b, <2>3, <3>1, Frames DEF Typed, builderVars
  <2> QED BY <1>5, <2>2, <2>3 DEF Cleanup
<1>6. CASE CleanedUp(w)
  <2>1. /\ flows' \in [Workflows -> Flow] /\ Stage(w)' = "failed"
        /\ \A v \in Workflows \ {w} : flows'[v] = flows[v]
    BY <1>6, <1>a, Moving DEF CleanedUp, Stages
  <2>2. BuilderTyped' /\ calls'[w].pc = "none" /\ \A v \in Workflows \ {w} : calls'[v] = calls[v]
    BY <1>6, <1>a, TakingAnswers DEF CleanedUp
  <2> QED BY <1>6, <1>a, <1>c, <2>1, <2>2 DEF CleanedUp, Calling
<1> QED BY <1>1, <1>2, <1>3, <1>4, <1>5, <1>6 DEF Calls

LEMMA RollsKeepTypes ==
    ASSUME Typed, NEW w \in Workflows, Rolls(w)
    PROVE  Typed'
<1>a. /\ BuilderTyped /\ ApplicationsTyped /\ FlowsTyped /\ Called
      /\ roller \in Workflows \cup {None} /\ slot \in Slot \cup {None} /\ Settles(slot)
  BY DEF Typed, FlowsTyped, BuilderTyped
<1>b. ApplicationsTyped' /\ UNCHANGED <<calls, bootstrap>>
  BY <1>a, Frames DEF Rolls, BeginRollOut, EndPass, PassFails
\* Neither before nor after does the workflow have a call.
<1>c. ASSUME BuilderTyped', NEW to \in Stages \ Calling, Moves(w, to), Stage(w) \notin Calling,
             NEW p \in Pass \cup {None}, pass' = [pass EXCEPT ![w] = p], p # None <=> to = "pass",
             p # None => Carries(p, flows[w].result), roller' \in Workflows \cup {None}
      PROVE  Typed'
  <2>1. /\ flows' \in [Workflows -> Flow] /\ Stage(w)' = to /\ flows'[w].result = flows[w].result
        /\ \A v \in Workflows \ {w} : flows'[v] = flows[v]
    BY <1>a, <1>c, Moving
  <2>2. FlowsTyped'
    BY <1>a, <1>b, <1>c, <2>1, Passing
  <2>3. Called'
    BY <1>a, <1>b, <1>c, <2>1 DEF Called, Stage
  <2> QED BY <1>b, <1>c, <2>2, <2>3 DEF Typed
<1>1. CASE BeginRollOut(w)
  <2>1. Stage(w) = "roll" /\ UNCHANGED <<container, calls, contested, faults>>
    BY <1>1 DEF BeginRollOut
  <2>2. CASE MayRollOut(w, flows[w].result)
    <3> DEFINE p == [left |-> Applications, app |-> None, pc |-> "inspect", seen |-> None,
                     reissue |-> Reissues, skipped |-> FALSE]
    <3>1. slot \in Slot /\ flows[w].result \in Images /\ slot.inFlight \in BOOLEAN
      BY <2>2, <1>a DEF MayRollOut, Settles, Slot
    <3>2. p \in Pass /\ Carries(p, flows[w].result) /\ p # None
      <4>1. Reissues \in BOOLEAN
        BY DEF Reissues
      <4>2. p \in Pass
        BY <4>1 DEF Pass
      <4> QED BY <3>1, <4>2, ImageNoneAssumption DEF Carries
    <3>3. slot' = LeasedForRollOut /\ LeasedForRollOut \in Slot /\ Settles(LeasedForRollOut)
      BY <1>1, <2>2, <3>1 DEF BeginRollOut, LeasedForRollOut, Slot, Settles, MayRollOut
    <3>4. BuilderTyped'
      BY <1>a, <2>1, <3>3 DEF BuilderTyped
    <3>5. pass' = [pass EXCEPT ![w] = p] /\ roller' = w /\ Moves(w, "pass")
      BY <1>1, <2>2 DEF BeginRollOut
    <3> HIDE DEF p
    <3> QED BY <1>c, <2>1, <3>2, <3>4, <3>5 DEF Stages, Calling
  <2>3. CASE ~MayRollOut(w, flows[w].result)
    <3>1. Moves(w, "cleanup") /\ UNCHANGED <<slot, pass, roller>>
      BY <1>1, <2>3 DEF BeginRollOut
    <3>2. BuilderTyped'
      BY <1>a, <2>1, <3>1, Frames
    <3>3. FlowsTyped' /\ Called'
      BY <1>a, <1>b, <2>1, <3>1, MovingAlone DEF Stages, Calling, FlowsTyped
    <3> QED BY <1>b, <3>2, <3>3 DEF Typed
  <2> QED BY <2>2, <2>3
<1>2. CASE EndPass(w)
  <2>1. Stage(w) = "pass" /\ UNCHANGED <<container, calls, contested, roller>> /\ pass' = [pass EXCEPT ![w] = None]
    BY <1>2, <1>a DEF EndPass, FlowsTyped
  <2>2. PICK to \in {"roll", "cleanup", "deployed"} : Moves(w, to)
    BY <1>2 DEF EndPass
  <2>3. slot' \in Slot \cup {None} /\ Settles(slot')
    <3>1. PICK skipped : slot' = AfterPass(w, flows[w].result, skipped)
      BY <1>2 DEF EndPass
    <3>2. CASE slot' = slot
      BY <1>a, <3>2
    <3>3. CASE slot' # slot
      <4>1. slot \in Slot /\ slot.state = "rolling-out" /\ slot.result \in Images
        BY <1>a, <3>1, <3>3 DEF AfterPass, HeldAs, Settles
      <4>2. \/ slot' = [slot EXCEPT !.inFlight = FALSE]
            \/ slot' = [slot EXCEPT !.inFlight = FALSE, !.state = "complete", !.expired = FALSE]
        BY <3>1, <3>3 DEF AfterPass
      <4> QED BY <4>1, <4>2 DEF Slot, Settles
    <3> QED BY <3>2, <3>3
  <2>4. Fault \/ UNCHANGED faults
    BY <1>2 DEF EndPass
  <2>5. BuilderTyped'
    BY <1>a, <2>1, <2>3, <2>4, Faulting DEF BuilderTyped
  <2> QED BY <1>a, <1>c, <2>1, <2>2, <2>5 DEF Stages, Calling
<1>3. CASE PassFails(w)
  <2>1. Stage(w) = "pass" /\ UNCHANGED <<slot, container, calls, contested, roller>> /\ pass' = [pass EXCEPT ![w] = None] /\ Fault
    BY <1>3, <1>a DEF PassFails, FlowsTyped
  <2>2. PICK to \in {"roll", "interrupted", "cleanup"} : Moves(w, to)
    BY <1>3 DEF PassFails
  <2>3. BuilderTyped'
    BY <1>a, <2>1, Frames
  <2> QED BY <1>a, <1>c, <2>1, <2>2, <2>3 DEF Stages, Calling
<1> QED BY <1>1, <1>2, <1>3 DEF Rolls

\* What a pass does at an application.
LEMMA RollsOutKeepTypes ==
    ASSUME Typed, NEW w \in Workflows, NEW a \in Applications, RollsOut(w, a)
    PROVE  Typed'
<1>a. /\ BuilderTyped /\ ApplicationsTyped /\ FlowsTyped /\ Called
      /\ flows \in [Workflows -> Flow] /\ roller \in Workflows \cup {None}
  BY DEF Typed, FlowsTyped
<1>b. UNCHANGED <<slot, container, calls, contested, faults, flows, roller, bootstrap>>
  BY DEF RollsOut, InspectApplication, PatchApplicationImage, RereadApplication, PostImageRollout, builderVars
<1>c. BuilderTyped' /\ Called'
  BY <1>a, <1>b, Frames DEF Called, Stage
<1>d. /\ pass[w] # None /\ a \in pass[w].left /\ Stage(w) = "pass"
      /\ pass[w] \in Pass /\ flows[w].result \in Images
      /\ pass[w].app # None => pass[w].seen \in Application /\ pass[w].seen.configured \in Configuration
  <2>1. pass[w] # None /\ (pass[w].app = None => a \in pass[w].left) /\ (pass[w].app # None => pass[w].app = a)
    BY ImageNoneAssumption DEF RollsOut, InspectApplication, PatchApplicationImage, RereadApplication, PostImageRollout, Passes
  <2>2. Carries(pass[w], flows[w].result) /\ Stage(w) = "pass" /\ pass[w] \in Pass
    BY <1>a, <2>1 DEF FlowsTyped
  <2> QED BY <2>1, <2>2 DEF Carries, Pass, Application
<1>e. ASSUME ApplicationsTyped',
             \/ \E pc \in {"patch", "reread", "post"} : PassGoes(w, a, pc)
             \/ \E skipped \in BOOLEAN : PassLeaves(w, a, skipped)
      PROVE  Typed'
  <2>1. PICK p \in Pass : pass' = [pass EXCEPT ![w] = p] /\ Carries(p, flows[w].result)
    BY <1>a, <1>d, <1>e, PassMoves
  <2>2. FlowsTyped'
    BY <1>a, <1>b, <1>d, <2>1, Passing, ImageNoneAssumption DEF Stage
  <2> QED BY <1>c, <1>e, <2>2 DEF Typed
<1>1. CASE InspectApplication(w, a)
  <2>1. ApplicationsTyped'
    BY <1>1, <1>a DEF InspectApplication, CrossedIf, ApplicationsTyped
  <2>2. InspectedAs(a, flows[w].result, pass[w].reissue) \in {"skip", "done", "patch", "reread"}
    BY DEF InspectedAs
  <2> QED BY <1>1, <1>e, <2>1, <2>2 DEF InspectApplication
<1>2. CASE PatchApplicationImage(w, a)
  <2>1. PICK shown \in Configuration : apps' = [apps EXCEPT ![a].configured = shown]
    <3>1. [pass[w].seen.configured EXCEPT !.image = flows[w].result] \in Configuration
      BY <1>2, <1>d, Configurations, ImageNoneAssumption DEF PatchApplicationImage, Passes
    <3>2. apps[a].configured \in Configuration
      BY <1>a, Targets
    <3> QED BY <1>2, <3>1, <3>2 DEF PatchApplicationImage, PatchImage, Configured
  <2>2. apps' \in [Applications -> Application]
    BY <1>a, <2>1 DEF ApplicationsTyped, Application
  <2>3. ApplicationsTyped'
    BY <1>2, <1>a, <2>2 DEF PatchApplicationImage, ApplicationsTyped
  <2> QED BY <1>2, <1>e, <2>3 DEF PatchApplicationImage
<1>3. CASE RereadApplication(w, a)
  <2>1. ApplicationsTyped'
    BY <1>3, <1>a, Frames DEF RereadApplication
  <2> QED BY <1>3, <1>e, <2>1 DEF RereadApplication
<1>4. CASE PostImageRollout(w, a)
  <2>1. [pass[w].seen.configured EXCEPT !.image = flows[w].result] \in Configuration
    BY <1>4, <1>d, Configurations, ImageNoneAssumption DEF PostImageRollout, Passes
  <2>2. apps' \in [Applications -> Application]
    BY <1>4, <1>a, <2>1 DEF PostImageRollout, PostImage, RolledOut, ApplicationsTyped, Application
  <2>3. granted' \in [Applications -> [shape : Shapes \cup {None}, ceiling : 1 .. MaxCeiling]]
    BY <1>4, <1>a DEF PostImageRollout, PostImage, ApplicationsTyped
  <2>4. /\ changing' \in [Applications -> Change \cup {None}]
        /\ \A b \in Applications :
              changing'[b] # None /\ changing'[b].pc \in {"post", "await"} => changing'[b].shape # None
    <3>1. changing' = changing \/ changing' = [changing EXCEPT ![a] = None]
      BY <1>4 DEF PostImageRollout, PostImage, ChangeOver
    <3> QED BY <1>a, <3>1, Changes DEF ApplicationsTyped
  <2>5. ApplicationsTyped'
    BY <1>4, <1>a, <2>2, <2>3, <2>4 DEF PostImageRollout, ApplicationsTyped
  <2> QED BY <1>4, <1>e, <2>5 DEF PostImageRollout
<1> QED BY <1>1, <1>2, <1>3, <1>4 DEF RollsOut

LEMMA EndingsKeepTypes ==
    ASSUME Typed, SwapEnds \/ LeaseExpires \/ \E w \in Workflows : GiveUp(w) \/ Interrupted(w)
    PROVE  Typed'
<1>a. /\ BuilderTyped /\ ApplicationsTyped /\ FlowsTyped /\ Called
      /\ flows \in [Workflows -> Flow] /\ bootstrap \in Bootstrap /\ slot \in Slot \cup {None} /\ Settles(slot)
  BY DEF Typed, FlowsTyped, BuilderTyped
<1>b. ApplicationsTyped'
  BY <1>a, Frames DEF SwapEnds, LeaseExpires, GiveUp, Interrupted
<1>1. CASE SwapEnds
  <2>1. UNCHANGED <<slot, container, calls, contested, pass, roller>> /\ (Fault \/ UNCHANGED faults)
    BY <1>1 DEF SwapEnds
  <2>2. bootstrap' \in Bootstrap
    BY <1>1, <1>a DEF SwapEnds, Bootstrap
  <2>3. /\ flows' \in [Workflows -> Flow]
        /\ \A w \in Workflows : \/ flows'[w] = flows[w]
                                \/ Stage(w) = "await" /\ flows'[w].stage = "interrupted"
    BY <1>1, <1>a DEF SwapEnds, Flow, Stages, Stage
  <2>4. Called'
    BY <1>a, <2>1, <2>3 DEF Called, Stage, Calling
  <2>5. \A w \in Workflows : /\ pass'[w] # None <=> Stage(w)' = "pass"
                             /\ pass'[w] # None => Carries(pass'[w], flows'[w].result)
    BY <1>a, <2>1, <2>3 DEF FlowsTyped, Stage
  <2>6. FlowsTyped'
    BY <1>a, <2>1, <2>2, <2>3, <2>5 DEF FlowsTyped
  <2> QED BY <1>a, <1>b, <2>1, <2>4, <2>6, Frames DEF Typed
<1>2. CASE LeaseExpires
  <2>1. UNCHANGED <<container, calls, contested, flows, pass, roller>> /\ Fault
    BY <1>2 DEF LeaseExpires
  <2>2. bootstrap' \in Bootstrap
    BY <1>2, <1>a DEF LeaseExpires, Bootstrap
  <2>3. slot' \in Slot \cup {None} /\ Settles(slot')
    <3>1. CASE slot' = slot
      BY <1>a, <3>1
    <3>2. CASE slot # None /\ slot' = [slot EXCEPT !.expired = TRUE]
      BY <1>a, <3>2 DEF Slot, Settles
    <3> QED BY <1>2, <3>1, <3>2 DEF LeaseExpires, Lives
  <2>4. BuilderTyped'
    BY <1>a, <2>1, <2>3, Faulting DEF BuilderTyped
  <2>5. FlowsTyped' /\ Called'
    BY <1>a, <2>1, <2>2 DEF FlowsTyped, Called, Stage
  <2> QED BY <1>b, <2>4, <2>5 DEF Typed
<1>3. ASSUME NEW w \in Workflows, GiveUp(w) \/ Interrupted(w) PROVE Typed'
  <2>1. UNCHANGED <<slot, container, calls, contested, pass, roller, bootstrap>> /\ Fault /\ Stage(w) \notin {"pass"} \cup Calling
    BY <1>3 DEF GiveUp, Interrupted, Calling
  <2>2. PICK to \in {"cleanup", "interrupted"} : Moves(w, to)
    BY <1>3 DEF GiveUp, Interrupted
  <2>3. FlowsTyped' /\ Called'
    BY <1>a, <2>1, <2>2, MovingAlone DEF Stages, Calling
  <2> QED BY <1>a, <1>b, <2>1, <2>3, Frames DEF Typed
<1> QED BY <1>1, <1>2, <1>3

LEMMA InitIsTyped == Init => Typed
<1> SUFFICES ASSUME Init PROVE Typed
  OBVIOUS
<1> USE BuilderAssumption, ApplicationsAssumption, ImageNoneAssumption, WorkflowAssumption
<1>1. BuilderTyped
  <2>1. Knows(NoCall) /\ Settles(None) /\ NoCall \in Call
    BY DEF Knows, Settles, NoCall, Call
  <2>2. contested \in BOOLEAN /\ slot = None /\ faults = 0 /\ container = Stopped /\ calls = [w \in Workflows |-> NoCall]
    BY DEF Init, BuilderInit
  <2>3. Stopped \in [running : BOOLEAN, commands : SUBSET Workflows, result : Results \cup {None}, execs : SUBSET Workflows]
    BY DEF Stopped
  <2> QED BY <2>1, <2>2, <2>3 DEF BuilderTyped
<1>2. ApplicationsTyped
  <2> DEFINE first == [image |-> FirstImage, shape |-> FirstShape]
             app == [configured |-> first, running |-> first, ceiling |-> 1, live |-> FALSE,
                     target |-> None, rolled |-> RolledBefore]
  <2>1. first \in Configuration /\ 1 \in 1 .. MaxCeiling
    BY DEF Configuration
  <2>2. app \in Application
    BY <2>1 DEF Application
  <2>3. apps = [a \in Applications |-> app]
    BY DEF Init, ApplicationsInit
  <2>4. changing = [a \in Applications |-> None]
    BY DEF Init, ApplicationsInit
  <2>5. granted \in [Applications -> [shape : Shapes \cup {None}, ceiling : 1 .. MaxCeiling]]
    BY <2>1 DEF Init, ApplicationsInit
  <2>6. changes \in 0 .. MaxChanges /\ started \in 0 .. MaxRunners /\ crossed \subseteq Applications
    BY DEF Init, ApplicationsInit
  <2> HIDE DEF app
  <2> QED BY <2>2, <2>3, <2>4, <2>5, <2>6 DEF ApplicationsTyped
<1>3. FlowsTyped
  <2>1. flows \in [Workflows -> Flow] /\ \A w \in Workflows : Stage(w) = "bootstrap" /\ pass[w] = None
    BY DEF Init, Flow, Stages, Stage
  <2>2. bootstrap \in Bootstrap
    BY DEF Init, Bootstrap
  <2> QED BY <2>1, <2>2 DEF Init, FlowsTyped
<1>4. Called
  BY DEF Init, BuilderInit, Called, Stage, NoCall, Calling
<1> QED BY <1>1, <1>2, <1>3, <1>4 DEF Typed

LEMMA StepsKeepTypes == Typed /\ [Next]_vars => Typed'
<1> SUFFICES ASSUME Typed, [Next]_vars PROVE Typed'
  OBVIOUS
<1>a. BuilderTyped /\ ApplicationsTyped /\ FlowsTyped /\ Called
  BY DEF Typed
<1>1. ASSUME NEW w \in Workflows, BuilderStep(w), BuilderKeeps PROVE Typed'
  <2>1. BuilderTyped' /\ Called'
    BY <1>1, <1>a, BuilderKeepsTypes DEF BuilderKeeps, flowVars, Called, Stage
  <2> QED BY <1>1, <1>a, <2>1, Frames DEF BuilderKeeps, Typed
<1>2. ASSUME NEW a \in Applications, ApplicationStep(a), ApplicationsKeep PROVE Typed'
  <2>1. ApplicationsTyped'
    BY <1>2, <1>a, ApplicationsKeepTypes
  <2> QED BY <1>2, <1>a, <2>1, Frames DEF ApplicationsKeep, builderVars, flowVars, Typed
<1>3. CASE UNCHANGED vars
  BY <1>3, <1>a, Frames DEF vars, builderVars, flowVars, Typed
<1>4. CASE Next
  BY <1>1, <1>2, <1>4, NextKinds, CopiesKeepTypes, CallsKeepTypes, RollsKeepTypes, RollsOutKeepTypes, EndingsKeepTypes
<1> QED BY <1>3, <1>4

\* Everything keeps its type: a build that is over has a result, a call between
\* two awaits what it has read, a pass the applications it has left.
THEOREM ImageTypes == Spec => []TypeOK
<1>1. Typed => TypeOK
  BY DEF Typed, BuilderTyped, ApplicationsTyped, FlowsTyped, TypeOK
<1> QED BY <1>1, InitIsTyped, StepsKeepTypes, PTL DEF Spec

-----------------------------------------------------------------------------
(* The private builder image: the manifest is written last, and nothing     *)
(* after the copy happens before it.                                         *)

Complete ==
    /\ bootstrap.manifest => bootstrap.blobs = Blobs
    /\ \A w \in Workflows : Stage(w) \in {"swap", "await", "record"} => bootstrap.manifest
    /\ bootstrap.rolling \/ bootstrap.image = "private" \/ bootstrap.ready => bootstrap.manifest

LEMMA InitIsComplete == Init => Complete
BY DEF Init, Complete, Stage

\* Steps that leave what was copied alone, and take no workflow past the copy.
LEMMA KeepsComplete ==
    ASSUME Complete, bootstrap'.blobs = bootstrap.blobs, bootstrap'.manifest = bootstrap.manifest,
           bootstrap'.rolling \/ bootstrap'.image = "private" \/ bootstrap'.ready =>
               bootstrap.rolling \/ bootstrap.image = "private" \/ bootstrap.ready,
           \A w \in Workflows : Stage(w)' \in {"swap", "await", "record"} => Stage(w) \in {"swap", "await", "record"}
    PROVE  Complete'
BY DEF Complete

LEMMA CopiesStayComplete ==
    ASSUME Typed, Complete, NEW w \in Workflows, Copies(w)
    PROVE  Complete'
<1>a. FlowsTyped /\ bootstrap \in Bootstrap
  BY DEF Typed, FlowsTyped
<1>b. ASSUME NEW to \in Stages, Moves(w, to)
      PROVE  Stage(w)' = to /\ \A v \in Workflows \ {w} : Stage(v)' = Stage(v)
  BY <1>a, <1>b, Moving DEF Stage
<1>1. CASE ClaimBootstrap(w)
  <2>1. PICK to \in {"start", "copy"} : Moves(w, to)
    BY <1>1 DEF ClaimBootstrap
  <2>2. bootstrap' = bootstrap \/ bootstrap' = [bootstrap EXCEPT !.owner = w, !.expired = FALSE]
    BY <1>1 DEF ClaimBootstrap
  <2> QED BY <1>a, <1>b, <2>1, <2>2, KeepsComplete DEF Stages, Bootstrap
<1>2. CASE Copy(w)
  <2>1. PICK to \in {"copying", "interrupted"} : Moves(w, to)
    BY <1>2 DEF Copy
  <2>2. bootstrap' = bootstrap \/ bootstrap' = [bootstrap EXCEPT !.expired = FALSE]
    BY <1>2 DEF Copy
  <2> QED BY <1>a, <1>b, <2>1, <2>2, KeepsComplete DEF Stages, Bootstrap
<1>3. CASE CopyBlob(w)
  <2>1. PICK blob : bootstrap' = [bootstrap EXCEPT !.blobs = @ \cup {blob}]
    BY <1>3 DEF CopyBlob
  <2>2. ~bootstrap.manifest /\ ~bootstrap'.manifest /\ flows' = flows
    BY <1>3, <1>a, <2>1 DEF CopyBlob, Bootstrap
  <2>3. bootstrap'.rolling = bootstrap.rolling /\ bootstrap'.image = bootstrap.image /\ bootstrap'.ready = bootstrap.ready
    BY <1>a, <2>1 DEF Bootstrap
  <2> QED BY <2>2, <2>3 DEF Complete, Stage
<1>4. CASE Publish(w)
  <2>1. bootstrap' = [bootstrap EXCEPT !.manifest = TRUE] /\ bootstrap.blobs = Blobs
    BY <1>4 DEF Publish, Complete
  <2>2. bootstrap'.manifest /\ bootstrap'.blobs = Blobs
    BY <1>a, <2>1 DEF Bootstrap
  <2> QED BY <2>2 DEF Complete
<1>5. CASE Swap(w)
  <2>1. bootstrap.manifest /\ bootstrap.blobs = Blobs
    BY <1>5 DEF Swap, Complete
  <2>2. bootstrap'.manifest /\ bootstrap'.blobs = Blobs
    BY <1>5, <1>a, <2>1 DEF Swap, Bootstrap
  <2> QED BY <2>2 DEF Complete
<1>6. CASE Swapped(w)
  <2>1. Stage(w) = "await" /\ Moves(w, "record") /\ bootstrap' = bootstrap
    BY <1>6 DEF Swapped
  <2> QED BY <1>a, <1>b, <2>1, KeepsComplete DEF Stages
<1>7. CASE RecordBootstrap(w)
  <2>1. Stage(w) = "record" /\ bootstrap.manifest /\ bootstrap.blobs = Blobs
    BY <1>7 DEF RecordBootstrap, Complete
  <2>2. bootstrap'.manifest /\ bootstrap'.blobs = Blobs
    BY <1>7, <1>a, <2>1 DEF RecordBootstrap, Bootstrap
  <2> QED BY <2>2 DEF Complete
<1> QED BY <1>1, <1>2, <1>3, <1>4, <1>5, <1>6, <1>7 DEF Copies

\* After the copy: a workflow never goes back to it.
Onward == {"start", "starting", "poll", "polling", "roll", "pass", "cleanup", "aborting", "deployed", "failed", "interrupted"}

LEMMA MovesOnward ==
    ASSUME Typed, NEW w \in Workflows, Calls(w) \/ Rolls(w) \/ GiveUp(w) \/ Interrupted(w)
    PROVE  Stage(w)' \in Onward /\ \A v \in Workflows \ {w} : flows'[v] = flows[v]
<1>a. flows \in [Workflows -> Flow] /\ FlowsTyped
  BY DEF Typed, FlowsTyped
<1>b. ASSUME NEW to \in Onward, Moves(w, to)
      PROVE  Stage(w)' \in Onward /\ \A v \in Workflows \ {w} : flows'[v] = flows[v]
  BY <1>a, <1>b, Moving DEF Onward, Stages
<1>1. CASE Start(w) \/ Poll(w) \/ CleanedUp(w)
  BY <1>1, <1>b DEF Start, Poll, CleanedUp, Onward
<1>2. CASE Started(w)
  <2>1. CASE Retried(w, "start")
    BY <1>b, <2>1 DEF Retried, Onward
  <2>2. CASE flows' = [flows EXCEPT ![w].stage = "poll", ![w].owns = At(w, "owner")]
    BY <1>a, <2>2 DEF Stage, Flow, Onward
  <2> QED BY <1>2, <2>1, <2>2 DEF Started
<1>3. CASE Polled(w)
  <2>1. CASE Retried(w, "poll")
    BY <1>b, <2>1 DEF Retried, Onward
  <2>2. CASE flows' = [flows EXCEPT ![w].stage = "roll", ![w].result = calls[w].seen.result]
    BY <1>a, <2>2 DEF Stage, Flow, Onward
  <2>3. CASE flows' = [flows EXCEPT ![w].stage = "start", ![w].round = @ + 1]
    BY <1>a, <2>3 DEF Stage, Flow, Onward
  <2>4. CASE Moves(w, "poll") \/ Moves(w, "cleanup")
    BY <1>b, <2>4 DEF Onward
  <2> QED BY <1>3, <2>1, <2>2, <2>3, <2>4 DEF Polled, NextRound
<1>4. CASE Cleanup(w)
  BY <1>4, <1>b DEF Cleanup, Onward
<1>5. CASE Rolls(w)
  <2>1. PICK to \in {"pass", "cleanup", "roll", "deployed", "interrupted"} : Moves(w, to)
    BY <1>5 DEF Rolls, BeginRollOut, EndPass, PassFails
  <2> QED BY <2>1, <1>b DEF Onward
<1>6. CASE GiveUp(w) \/ Interrupted(w)
  BY <1>6, <1>b DEF GiveUp, Interrupted, Onward
<1> QED BY <1>1, <1>2, <1>3, <1>4, <1>5, <1>6 DEF Calls

LEMMA StepsStayComplete ==
    ASSUME Typed, Complete, [Next]_vars
    PROVE  Complete'
<1>a. bootstrap \in Bootstrap
  BY DEF Typed, FlowsTyped
<1>1. ASSUME NEW w \in Workflows, Calls(w) \/ Rolls(w) \/ GiveUp(w) \/ Interrupted(w)
      PROVE  Complete'
  <2>1. bootstrap' = bootstrap \/ bootstrap' = [bootstrap EXCEPT !.owner = None]
    BY <1>1 DEF Calls, Start, Started, Poll, Polled, Cleanup, CleanedUp, Rolls, BeginRollOut, EndPass, PassFails,
                GiveUp, Interrupted
  <2>2. \A v \in Workflows : Stage(v)' \in {"swap", "await", "record"} => Stage(v) \in {"swap", "await", "record"}
    BY <1>1, MovesOnward DEF Onward, Stage
  <2> QED BY <1>a, <2>1, <2>2, KeepsComplete DEF Bootstrap
<1>2. ASSUME NEW w \in Workflows, NEW a \in Applications, RollsOut(w, a)
      PROVE  Complete'
  BY <1>2 DEF RollsOut, InspectApplication, PatchApplicationImage, RereadApplication, PostImageRollout, Complete, Stage
<1>3. CASE SwapEnds
  <2>1. \/ bootstrap' = [bootstrap EXCEPT !.rolling = FALSE, !.image = "private"]
        \/ bootstrap' = [bootstrap EXCEPT !.rolling = FALSE]
    BY <1>3 DEF SwapEnds
  <2>2. bootstrap.rolling /\ bootstrap.manifest /\ bootstrap.blobs = Blobs
    BY <1>3 DEF SwapEnds, Complete
  <2>3. bootstrap'.manifest /\ bootstrap'.blobs = Blobs
    BY <1>a, <2>1, <2>2 DEF Bootstrap
  <2> QED BY <2>3 DEF Complete
<1>4. CASE LeaseExpires
  <2>1. bootstrap' = bootstrap \/ bootstrap' = [bootstrap EXCEPT !.expired = TRUE]
    BY <1>4 DEF LeaseExpires
  <2> QED BY <1>4, <1>a, <2>1, KeepsComplete DEF LeaseExpires, Bootstrap, Stage
<1>5. CASE UNCHANGED flowVars
  BY <1>5 DEF Complete, Stage, flowVars
<1> QED BY <1>1, <1>2, <1>3, <1>4, <1>5, NextKinds, CopiesStayComplete DEF BuilderKeeps, ApplicationsKeep, vars

\* The builder is only moved to a private image whose layers are all there, for
\* any number of instances that copy it, at once or after one another, and
\* wherever they are interrupted (prepareRunnerImageBuilder).
THEOREM BuilderImagesAreComplete == Spec => []BuilderImageIsComplete
<1>1. Complete => BuilderImageIsComplete
  BY DEF Complete, BuilderImageIsComplete
<1> QED BY <1>1, InitIsTyped, StepsKeepTypes, InitIsComplete, StepsStayComplete, PTL DEF Spec

\* A claim of a bootstrap that has not run out is its owner's until the owner
\* moves on: nobody else takes it or clears it (beginBootstrap, abortBootstrap).
THEOREM ClaimsAreKept == Spec => LiveClaimsAreKept
<1> DEFINE Kept == \A w \in Workflows :
                      Claims(w) /\ ~bootstrap.expired => Claims(w)' \/ Stage(w)' # Stage(w)
<1>1. Typed /\ [Next]_vars => [Kept]_vars
  <2> SUFFICES ASSUME Typed, Next, NEW w \in Workflows, bootstrap.owner = w, ~bootstrap.expired,
                      bootstrap'.owner # w
               PROVE  Stage(w)' # Stage(w)
    BY DEF Claims
  <2>a. FlowsTyped /\ bootstrap \in Bootstrap /\ w # None
    BY BuilderAssumption DEF Typed, FlowsTyped
  <2>b. ASSUME NEW to \in Stages, Moves(w, to)
        PROVE  Stage(w)' = to
    BY <2>a, <2>b, Moving
  <2>1. PICK v \in Workflows : RecordBootstrap(v) \/ Cleanup(v)
    <3>1. ~SwapEnds /\ ~LeaseExpires
      BY <2>a DEF SwapEnds, LeaseExpires, Bootstrap
    <3>2. ASSUME NEW v \in Workflows, Copies(v) PROVE RecordBootstrap(v)
      BY <3>2, <2>a DEF Copies, ClaimBootstrap, Copy, CopyBlob, Publish, Swap, Swapped, Bootstrap
    <3>3. ASSUME NEW v \in Workflows, Calls(v) PROVE Cleanup(v)
      BY <3>3 DEF Calls, Start, Started, Poll, Polled, CleanedUp
    <3>4. ASSUME NEW v \in Workflows PROVE ~Rolls(v) /\ ~GiveUp(v) /\ ~Interrupted(v)
      BY DEF Rolls, BeginRollOut, EndPass, PassFails, GiveUp, Interrupted
    <3>5. ASSUME NEW v \in Workflows, NEW a \in Applications PROVE ~RollsOut(v, a)
      BY DEF RollsOut, InspectApplication, PatchApplicationImage, RereadApplication, PostImageRollout
    <3>6. ~BuilderKeeps /\ ~ApplicationsKeep
      BY DEF BuilderKeeps, ApplicationsKeep, flowVars
    <3> QED BY <3>1, <3>2, <3>3, <3>4, <3>5, <3>6, NextKinds
  <2>2. CASE RecordBootstrap(v)
    <3>1. v = w /\ Stage(w) = "record" /\ Moves(w, "start")
      BY <2>2, <2>a DEF RecordBootstrap, Claims
    <3> QED BY <3>1, <2>b DEF Stages
  <2>3. CASE Cleanup(v)
    <3>1. v = w /\ Stage(w) = "cleanup" /\ (Moves(w, "aborting") \/ Moves(w, "failed"))
      BY <2>3, <2>a DEF Cleanup, Claims
    <3> QED BY <3>1, <2>b DEF Stages
  <2> QED BY <2>1, <2>2, <2>3
<1> QED BY <1>1, InitIsTyped, StepsKeepTypes, PTL DEF Spec, LiveClaimsAreKept

-----------------------------------------------------------------------------
(* Rollout leases.                                                           *)

\* A call that has awaited nothing that changed the slot leaves a lease alone.
LEMMA FreshCallsLeaveLeases ==
    ASSUME Typed, NEW v \in Workflows, BuilderStep(v), slot # None, slot.state = "rolling-out", ~slot.expired
    PROVE  slot' = slot \/ (Stale(v) /\ calls'[v] # calls[v])
<1>a. Knows(calls[v]) /\ calls \in [Workflows -> Call]
  BY DEF Typed, BuilderTyped
<1>b. \A pc, seen : Goes(v, pc, seen) => calls'[v].pc = pc
  BY <1>a DEF Goes
<1>c. /\ \A pc : Answer(v, pc) => calls'[v].pc = pc
      /\ \A before, running : TakeSlot(v, before, running) => calls'[v].pc \in {"clear", "stage"}
  BY <1>b DEF Answer, TakeSlot
<1>1. ASSUME calls[v].pc \in {"release", "poll-release", "undo", "abort", "probe", "read", "finalize", "reconcile",
                              "poll-reconcile", "clear"}
      PROVE  Stale(v)
  BY <1>a, <1>1 DEF Knows, Stale, Awaits
<1>2. CASE StartReleases(v) \/ StartReconciles(v)
  BY <1>1, <1>2, <1>c DEF StartReleases, StartReconciles, At
<1>3. CASE StartClears(v)
  <2>1. At(v, "clear") /\ (TakeSlot(v, slot, FALSE) \/ Answer(v, "threw"))
    BY <1>3 DEF StartClears
  <2>2. calls'[v].pc \in {"stage", "threw"}
    BY <2>1, <1>b DEF TakeSlot, Answer
  <2> QED BY <1>1, <2>1, <2>2 DEF At
<1>4. CASE StartUndoes(v)
  BY <1>1, <1>4, <1>c DEF StartUndoes, At
<1>5. CASE PollReconciles(v)
  <2>1. At(v, "poll-reconcile") /\ ((\E s : Goes(v, "completed", s)) \/ Answer(v, "running"))
    BY <1>5 DEF PollReconciles
  <2> QED BY <1>1, <2>1, <1>b DEF At, Answer
<1>6. CASE PollReleases(v)
  BY <1>1, <1>6, <1>c DEF PollReleases, At
<1>7. CASE PollReads(v)
  <2>1. At(v, "read") /\ \E s : Goes(v, "finalize", s)
    BY <1>7 DEF PollReads
  <2> QED BY <1>1, <2>1, <1>b DEF At
<1>8. CASE PollFinalizes(v)
  <2>1. At(v, "finalize") /\ (\E s : Goes(v, "failed", s) \/ Goes(v, "completed", s))
    BY <1>8 DEF PollFinalizes
  <2> QED BY <1>1, <2>1, <1>b DEF At
<1>9. CASE AbortReleases(v)
  BY <1>1, <1>9, <1>c DEF AbortReleases, At
<1>10. CASE StartStages(v) \/ StartFails(v) \/ PollProbes(v) \/ CallFails(v) \/ BuildEnds(v)
  BY <1>10 DEF StartStages, StartFails, PollProbes, CallFails, BuildEnds
<1> QED BY <1>2, <1>3, <1>4, <1>5, <1>6, <1>7, <1>8, <1>9, <1>10 DEF BuilderStep

\* Who else comes to a rollout lease that has not run out leaves it alone.
LEMMA LeaseStands ==
    ASSUME Typed, [Next]_vars, NEW w \in Workflows, HeldAs(w, "rolling-out"), ~slot.expired
    PROVE  \/ slot' = slot
           \/ BeginRollOut(w)
           \/ EndPass(w)
           \/ LeaseExpires /\ slot' = [slot EXCEPT !.expired = TRUE]
           \/ \E v \in Workflows : Stale(v) /\ calls'[v] # calls[v]
<1>a. slot # None /\ slot.owner = w /\ slot.state = "rolling-out" /\ Lives
  BY DEF HeldAs, Lives
<1>1. ASSUME NEW v \in Workflows, BuilderStep(v)
      PROVE  slot' = slot \/ \E u \in Workflows : Stale(u) /\ calls'[u] # calls[u]
  BY <1>1, <1>a, FreshCallsLeaveLeases
<1>2. ASSUME NEW v \in Workflows, Calls(v) PROVE slot' = slot
  BY <1>2, <1>a DEF Calls, Start, StartBuild, Started, Poll, PollBuild, PollActiveBuild, Polled, Cleanup, AbortBuild,
                    CleanedUp, Expired, Is, Lives, builderVars
<1>3. ASSUME NEW v \in Workflows, Rolls(v) PROVE slot' = slot \/ BeginRollOut(w) \/ EndPass(w)
  <2>1. CASE BeginRollOut(v) /\ slot' # slot
    BY <1>a, <2>1 DEF BeginRollOut, MayRollOut
  <2>2. CASE EndPass(v) /\ slot' # slot
    BY <1>a, <2>2 DEF EndPass, AfterPass, HeldAs
  <2>3. CASE PassFails(v)
    BY <2>3 DEF PassFails
  <2> QED BY <1>3, <2>1, <2>2, <2>3 DEF Rolls
<1>4. ASSUME NEW v \in Workflows, Copies(v) \/ GiveUp(v) \/ Interrupted(v) PROVE slot' = slot
  BY <1>4 DEF Copies, ClaimBootstrap, Copy, CopyBlob, Publish, Swap, Swapped, RecordBootstrap, GiveUp,
              Interrupted, builderVars
<1>5. ASSUME NEW v \in Workflows, NEW a \in Applications, RollsOut(v, a) PROVE slot' = slot
  BY <1>5 DEF RollsOut, InspectApplication, PatchApplicationImage, RereadApplication, PostImageRollout, builderVars
<1>6. CASE SwapEnds \/ ApplicationsKeep \/ UNCHANGED vars
  BY <1>6 DEF SwapEnds, ApplicationsKeep, vars, builderVars
<1>7. CASE LeaseExpires
  BY <1>7, <1>a DEF LeaseExpires
<1> QED BY <1>1, <1>2, <1>3, <1>4, <1>5, <1>6, <1>7, NextKinds

\* A rollout lease that has not run out ends with a pass of its workflow, or by a
\* call that comes back with what it read before: no start, poll or abort that
\* reads the lease as it is takes it away (beginRollOut, completeRollOutAttempt,
\* abortBuild, and the awaits of reconcileExpiredRollOut, releaseBuild and
\* finalizeTerminalBuild).
THEOREM LeasesOutlastFreshCalls == Spec => LeasesEndByStaleCalls
<1> DEFINE Kept == \A w \in Workflows :
                      HeldAs(w, "rolling-out") /\ ~slot.expired =>
                         \/ slot' # None /\ slot'.owner = w /\ slot'.state = "rolling-out"
                         \/ pass'[w] # pass[w]
                         \/ \E v \in Workflows : Stale(v) /\ calls'[v] # calls[v]
<1>1. Typed /\ [Next]_vars => [Kept]_vars
  <2> SUFFICES ASSUME Typed, Next, NEW w \in Workflows, HeldAs(w, "rolling-out"), ~slot.expired,
                      ~\E v \in Workflows : Stale(v) /\ calls'[v] # calls[v]
               PROVE  (slot' # None /\ slot'.owner = w /\ slot'.state = "rolling-out") \/ pass'[w] # pass[w]
    OBVIOUS
  <2>a. slot \in Slot /\ slot # None /\ slot.owner = w /\ slot.state = "rolling-out" /\ pass \in [Workflows -> Pass \cup {None}]
    BY DEF Typed, BuilderTyped, FlowsTyped, HeldAs
  <2>1. CASE slot' = slot
    BY <2>a, <2>1
  <2>2. CASE BeginRollOut(w) /\ slot' # slot
    <3>1. slot' = LeasedForRollOut
      BY <2>2 DEF BeginRollOut
    <3>2. slot' \in Slot /\ slot'.owner = w /\ slot'.state = "rolling-out"
      BY <2>a, <3>1 DEF LeasedForRollOut, Slot
    <3> QED BY <3>2, ImageNoneAssumption
  <2>3. CASE EndPass(w)
    BY <2>3, <2>a DEF EndPass
  <2>4. CASE slot' = [slot EXCEPT !.expired = TRUE]
    <3>1. slot' \in Slot /\ slot'.owner = w /\ slot'.state = "rolling-out"
      BY <2>a, <2>4 DEF Slot
    <3> QED BY <3>1, ImageNoneAssumption
  <2> QED BY <2>1, <2>2, <2>3, <2>4, LeaseStands
<1> QED BY <1>1, InitIsTyped, StepsKeepTypes, PTL DEF Spec, LeasesEndByStaleCalls

-----------------------------------------------------------------------------
(* Whose image is rolled out, while no two starts have taken the slot at      *)
(* once: the results that the slot, the calls and the Container keep are      *)
(* those of the builds they belong to, whatever else overlaps.                *)

Own(s) == s # None /\ s.result \in Images => s.result = ImageOf[s.owner]

\* The Container holds at most one workflow's build and what it left.
HoldsOf(w) == container.commands \subseteq {w} /\ container.result \in {None, "failed", ImageOf[w]}

Fresh == Is("active") /\ slot.result = None

\* A build being set up has found the Container stopped, and has the slot, or the
\* slot is not a build that anyone can probe.
SetUp(w) ==
    /\ At(w, "stage") =>
          /\ container = Stopped
          /\ Fresh => slot.owner = w
          /\ \A v \in Workflows : At(v, "stage") => v = w
    /\ At(w, "probe") /\ w \in container.execs => HoldsOf(calls[w].seen.owner)
    /\ Own(calls[w].seen)

Builds ==
    /\ ~container.running => container = Stopped
    /\ Fresh => HoldsOf(slot.owner)
    /\ Own(slot)
    /\ \A w \in Workflows : SetUp(w)

Passed == \A w \in Workflows : pass[w] # None => flows[w].result = ImageOf[w]

Uncontested == contested \/ (Builds /\ Passed)

LEMMA InitBuilds == Init => Uncontested
<1> SUFFICES ASSUME Init PROVE Builds /\ Passed
  BY DEF Uncontested
<1>1. container = Stopped /\ slot = None /\ \A w \in Workflows : calls[w] = NoCall /\ pass[w] = None
  BY DEF Init, BuilderInit
<1> QED BY <1>1 DEF Builds, Passed, SetUp, Own, Fresh, Is, At, NoCall

\* Steps of one workflow that take no slot: what they write of the slot is not a
\* build that can be probed, what they do to the Container belongs to its build.
LEMMA KeepsBuilds ==
    ASSUME Builds, NEW w \in Workflows,
           \A v \in Workflows \ {w} : calls'[v] = calls[v],
           \/ calls'[w] = calls[w] /\ container'.execs \subseteq container.execs
           \/ /\ calls'[w].pc # "stage" /\ Own(calls'[w].seen)
              /\ calls'[w].pc = "probe" => HoldsOf(calls'[w].seen.owner),
           Own(slot'), Fresh' => Fresh /\ slot'.owner = slot.owner,
           \/ container' = Stopped
           \/ /\ container'.commands \subseteq container.commands
              /\ \/ container'.result = container.result
                 \/ \E v \in container.commands : container'.result \in {"failed", ImageOf[v]}
              /\ container'.execs \subseteq container.execs \cup {w}
              /\ container'.running = container.running
              /\ container = Stopped => container' = Stopped
    PROVE  Builds'
<1>1. ASSUME NEW v, HoldsOf(v) PROVE HoldsOf(v)'
  <2>1. CASE container' = Stopped
    BY <2>1 DEF HoldsOf, Stopped
  <2>2. CASE container' # Stopped
    BY <1>1, <2>2 DEF HoldsOf
  <2> QED BY <2>1, <2>2
<1>2. ~container'.running => container' = Stopped
  BY DEF Builds
<1>3. Fresh' => HoldsOf(slot.owner)'
  BY <1>1 DEF Builds
<1>4. ASSUME NEW v \in Workflows PROVE SetUp(v)'
  <2>1. Own(calls'[v].seen)
    BY DEF Builds, SetUp
  <2>2. \A u \in Workflows : calls'[u].pc = "stage" => calls[u].pc = "stage"
    OBVIOUS
  <2>3. calls'[v].pc = "stage" => /\ container' = Stopped
                                  /\ Fresh' => slot'.owner = v
                                  /\ \A u \in Workflows : calls'[u].pc = "stage" => u = v
    BY <2>2 DEF Builds, SetUp, At
  <2>4. ASSUME calls'[v].pc = "probe", v \in container'.execs PROVE HoldsOf(calls[v].seen.owner)'
    <3>1. container'.execs \subseteq container.execs \cup {w}
      BY <2>4 DEF Stopped
    <3>2. PICK owner : owner = calls'[v].seen.owner
      OBVIOUS
    <3>3. CASE v # w \/ (calls'[w] = calls[w] /\ container'.execs \subseteq container.execs)
      <4>1. calls'[v] = calls[v] /\ v \in container.execs
        BY <2>4, <3>1, <3>3
      <4>2. HoldsOf(owner)
        BY <2>4, <3>2, <4>1 DEF Builds, SetUp, At
      <4> QED BY <1>1, <3>2, <4>2 DEF HoldsOf
    <3>4. CASE v = w /\ ~(calls'[w] = calls[w] /\ container'.execs \subseteq container.execs)
      <4>1. HoldsOf(owner)
        BY <2>4, <3>2, <3>4
      <4> QED BY <1>1, <3>2, <4>1 DEF HoldsOf
    <3> QED BY <3>3, <3>4
  <2> QED BY <2>1, <2>3, <2>4 DEF SetUp, At, Own
<1> QED BY <1>2, <1>3, <1>4 DEF Builds, HoldsOf, Own

\* The slot is taken, with the Container stopped, or after it has been cleared.
LEMMA TakingBuilds ==
    ASSUME Typed, Builds, NEW w \in Workflows, NEW before \in Slot \cup {None}, Own(before),
           before # None => before.state # "active", NEW running \in BOOLEAN, TakeSlot(w, before, running), ~contested',
           container' = IF running THEN container ELSE Stopped
    PROVE  Builds'
<1>a. calls \in [Workflows -> Call]
  BY DEF Typed, BuilderTyped
<1>1. CASE running
  <2>1. calls'[w] = [pc |-> "clear", seen |-> before] /\ slot' = before /\ container' = container
    BY <1>1, <1>a DEF TakeSlot, Goes
  <2>2. \A v \in Workflows \ {w} : calls'[v] = calls[v]
    BY <1>1, <1>a DEF TakeSlot, Goes
  <2>3. ~Fresh'
    BY <2>1 DEF Fresh, Is
  <2> QED BY <2>1, <2>2, <2>3, KeepsBuilds
<1>2. CASE ~running
  <2>1. calls'[w] = [pc |-> "stage", seen |-> None] /\ \A v \in Workflows \ {w} : calls'[v] = calls[v]
    BY <1>2, <1>a DEF TakeSlot, Answer, Goes
  <2>2. slot'.owner = w /\ slot'.result = None /\ container' = Stopped
    BY <1>2 DEF TakeSlot
  <2>3. \A v \in Workflows \ {w} : calls'[v].pc # "stage"
    BY <1>2, <2>1 DEF TakeSlot, At
  <2>4. Own(slot)'
    BY <2>2, ResultsAreNamed DEF Own
  <2>5. ASSUME NEW v \in Workflows PROVE SetUp(v)'
    <3>1. Own(calls[v].seen)'
      BY <2>1 DEF Builds, SetUp, Own
    <3>2. v \notin container'.execs
      BY <2>2 DEF Stopped
    <3>3. calls'[v].pc = "stage" => v = w
      BY <2>3
    <3> QED BY <2>2, <2>3, <3>1, <3>2, <3>3 DEF SetUp, At
  <2>6. \A v : HoldsOf(v)'
    BY <2>2 DEF HoldsOf, Stopped
  <2> QED BY <2>2, <2>4, <2>5, <2>6 DEF Builds
<1> QED BY <1>1, <1>2

\* The setup ends: its build runs, or does not, in a Container that had nothing.
LEMMA StagingBuilds ==
    ASSUME Typed, Builds, NEW w \in Workflows, StartStages(w) \/ StartFails(w)
    PROVE  Builds'
<1>a. calls \in [Workflows -> Call] /\ slot' = slot /\ Own(slot)
  BY DEF Typed, BuilderTyped, StartStages, StartFails, Builds
<1>1. container = Stopped /\ (Fresh => slot.owner = w) /\ \A v \in Workflows \ {w} : calls[v].pc # "stage"
  BY DEF StartStages, StartFails, Builds, SetUp, At
<1>2. /\ container'.execs = {} /\ container'.result = None /\ container'.commands \subseteq {w}
      /\ ~container'.running => container' = Stopped
  BY <1>1 DEF StartStages, StartFails, Stopped
<1>3. calls'[w].pc \notin {"stage", "probe"} /\ Own(calls'[w].seen) /\ \A v \in Workflows \ {w} : calls'[v] = calls[v]
  BY <1>a DEF StartStages, StartFails, Answer, Goes, Own
<1>4. HoldsOf(w)'
  BY <1>2 DEF HoldsOf
<1>5. ASSUME NEW v \in Workflows PROVE SetUp(v)'
  <2>1. Own(calls[v].seen)'
    BY <1>3 DEF Builds, SetUp, Own
  <2> QED BY <1>1, <1>2, <1>3, <2>1 DEF SetUp, At
<1>6. Fresh' => HoldsOf(slot.owner)'
  BY <1>a, <1>1, <1>4 DEF Fresh, Is
<1> QED BY <1>a, <1>2, <1>5, <1>6 DEF Builds, Own

LEMMA ReconcilingOwn ==
    ASSUME NEW s \in Slot, Settles(s), s.state = "rolling-out", Own(s)
    PROVE  /\ Own(Settled(s)) /\ Settled(s).state = "complete"
           /\ Own(Renewed(s)) /\ Renewed(s).state = "rolling-out"
BY Reconciling, ImageNoneAssumption DEF Own

LEMMA BuilderKeepsBuilds ==
    ASSUME Typed, Builds, NEW w \in Workflows, BuilderStep(w), ~contested'
    PROVE  Builds'
<1>a. /\ calls \in [Workflows -> Call] /\ slot \in Slot \cup {None} /\ Knows(calls[w]) /\ calls[w].seen \in Slot \cup {None}
      /\ container \in [running : BOOLEAN, commands : SUBSET Workflows, result : Results \cup {None}, execs : SUBSET Workflows]
  BY DEF Typed, BuilderTyped, Call
<1>b. Own(slot) /\ Own(calls[w].seen) /\ Own(None)
  BY DEF Builds, SetUp, Own
<1>g. ASSUME NEW pc, NEW seen, Goes(w, pc, seen)
      PROVE  calls'[w] = [pc |-> pc, seen |-> seen] /\ \A v \in Workflows \ {w} : calls'[v] = calls[v]
  BY <1>a, <1>g DEF Goes
\* The slot stays, or becomes what can no longer be probed.
<1>c. ASSUME NEW pc, NEW seen, Goes(w, pc, seen), pc \notin {"stage", "probe"}, Own(seen),
             slot' = slot \/ (Own(slot') /\ ~Fresh'), container' \in {container, Stopped} \/ ExecOver(w)
      PROVE  Builds'
  <2>1. calls'[w] = [pc |-> pc, seen |-> seen] /\ \A v \in Workflows \ {w} : calls'[v] = calls[v]
    BY <1>c, <1>g
  <2>2. Fresh' => Fresh /\ slot'.owner = slot.owner
    BY <1>c DEF Fresh, Is
  <2>3. \/ container' = Stopped
        \/ /\ container'.commands \subseteq container.commands
           /\ container'.result = container.result
           /\ container'.execs \subseteq container.execs \cup {w}
           /\ container'.running = container.running
           /\ container = Stopped => container' = Stopped
    BY <1>a, <1>c DEF ExecOver, Stopped
  <2> QED BY <1>b, <1>c, <2>1, <2>2, <2>3, KeepsBuilds
<1>d. ASSUME NEW pc, Answer(w, pc), pc \notin {"stage", "probe"},
             slot' = slot \/ (Own(slot') /\ ~Fresh'), container' \in {container, Stopped} \/ ExecOver(w)
      PROVE  Builds'
  BY <1>b, <1>c, <1>d DEF Answer
<1>1. CASE StartReleases(w)
  <2>1. CASE container' = Stopped /\ TakeSlot(w, None, FALSE)
    BY <2>1, <1>b, TakingBuilds
  <2>2. CASE Answer(w, "joined") /\ UNCHANGED <<slot, container>>
    BY <2>2, <1>d
  <2> QED BY <1>1, <2>1, <2>2 DEF StartReleases
<1>2. CASE StartReconciles(w)
  <2>1. calls[w].seen \in Slot /\ calls[w].seen.state = "rolling-out" /\ Settles(calls[w].seen)
    BY <1>2, <1>a DEF StartReconciles, At, Knows
  <2>2. /\ Own(Settled(calls[w].seen)) /\ Settled(calls[w].seen).state = "complete" /\ Settled(calls[w].seen) \in Slot
        /\ Own(Renewed(calls[w].seen)) /\ Renewed(calls[w].seen).state = "rolling-out"
    BY <1>b, <2>1, Reconciling, ReconcilingOwn
  <2>3. CASE TakeSlot(w, Settled(calls[w].seen), container.running) /\ container' = container
    <3>1. ~container.running => container = Stopped
      BY DEF Builds
    <3> QED BY <1>a, <2>2, <2>3, <3>1, TakingBuilds
  <2>4. CASE slot' = Renewed(calls[w].seen) /\ Answer(w, "joined") /\ container' = container
    BY <1>d, <2>2, <2>4 DEF Fresh, Is
  <2> QED BY <1>2, <2>3, <2>4 DEF StartReconciles
<1>3. CASE StartClears(w)
  <2>1. CASE container' = Stopped /\ TakeSlot(w, slot, FALSE)
    <3>1. TakeSlot(w, None, FALSE)
      BY <2>1 DEF TakeSlot
    <3> QED BY <2>1, <3>1, <1>b, TakingBuilds
  <2>2. CASE Answer(w, "threw") /\ UNCHANGED <<slot, container>>
    BY <2>2, <1>d
  <2> QED BY <1>3, <2>1, <2>2 DEF StartClears
<1>4. CASE StartStages(w) \/ StartFails(w)
  BY <1>4, StagingBuilds
<1>5. CASE StartUndoes(w)
  <2>1. slot' = slot \/ (Own(slot') /\ ~Fresh')
    <3>1. CASE slot' = None
      BY <3>1 DEF Own, Fresh, Is
    <3>2. CASE slot' = [slot EXCEPT !.result = "failed"] /\ HeldAs(w, "active")
      <4>1. slot'.result = "failed"
        BY <1>a, <3>2 DEF HeldAs, Slot
      <4> QED BY <4>1, ResultsAreNamed DEF Own, Fresh
    <3> QED BY <1>5, <3>1, <3>2 DEF StartUndoes
  <2> QED BY <1>5, <1>d, <2>1 DEF StartUndoes
<1>6. CASE PollReconciles(w)
  <2>1. calls[w].seen \in Slot /\ calls[w].seen.state = "rolling-out" /\ Settles(calls[w].seen)
    BY <1>6, <1>a DEF PollReconciles, At, Knows
  <2>2. /\ Own(Settled(calls[w].seen)) /\ Settled(calls[w].seen).state = "complete"
        /\ Own(Renewed(calls[w].seen)) /\ Renewed(calls[w].seen).state = "rolling-out"
    BY <1>b, <2>1, ReconcilingOwn
  <2>3. CASE slot' = Settled(calls[w].seen) /\ Goes(w, "completed", slot')
    BY <1>6, <1>c, <2>2, <2>3 DEF PollReconciles, Fresh, Is
  <2>4. CASE slot' = Renewed(calls[w].seen) /\ Answer(w, "running")
    BY <1>6, <1>d, <2>2, <2>4 DEF PollReconciles, Fresh, Is
  <2> QED BY <1>6, <2>3, <2>4 DEF PollReconciles
<1>7. CASE PollReleases(w)
  <2>1. slot' = slot \/ (Own(slot') /\ ~Fresh')
    BY <1>7, <1>b DEF PollReleases, Fresh, Is
  <2> QED BY <1>7, <1>d, <2>1 DEF PollReleases
<1>8. CASE PollProbes(w)
  <2>1. calls[w].seen \in Slot
    BY <1>8, <1>a DEF PollProbes, At, Knows
  <2>2. CASE w \in container.execs /\ Goes(w, "read", [calls[w].seen EXCEPT !.result = container.result]) /\ UNCHANGED container
    <3>1. HoldsOf(calls[w].seen.owner)
      BY <1>8, <2>2 DEF Builds, SetUp, PollProbes
    <3> DEFINE read == [calls[w].seen EXCEPT !.result = container.result]
    <3>2. read.owner = calls[w].seen.owner /\ read.result = container.result
      BY <2>1 DEF Slot
    <3> HIDE DEF read
    <3>3. Own(read)
      BY <3>1, <3>2, ResultsAreNamed DEF Own, HoldsOf
    <3>4. Goes(w, "read", read)
      BY <2>2 DEF read
    <3> QED BY <1>8, <2>2, <3>3, <3>4, <1>c DEF PollProbes
  <2>3. CASE Answer(w, "running") /\ ExecOver(w)
    BY <1>8, <2>3, <1>d DEF PollProbes
  <2> QED BY <1>8, <2>2, <2>3 DEF PollProbes
<1>9. CASE PollReads(w)
  <2>1. calls[w].seen \in Slot /\ calls[w].seen.result # None
    BY <1>9, <1>a DEF PollReads, At, Knows
  <2>2. PICK read \in {calls[w].seen, [calls[w].seen EXCEPT !.result = "failed"]} :
            slot' = read /\ Goes(w, "finalize", read)
    BY <1>9 DEF PollReads
  <2>3. Own(read) /\ read.result # None
    <3>1. read = calls[w].seen \/ read.result = "failed"
      BY <2>1, <2>2 DEF Slot
    <3> QED BY <1>b, <2>1, <3>1, ResultsAreNamed DEF Own
  <2> QED BY <1>9, <1>c, <2>2, <2>3 DEF PollReads, Fresh
<1>10. CASE PollFinalizes(w)
  <2>1. calls[w].seen \in Slot
    BY <1>10, <1>a DEF PollFinalizes, At, Knows
  <2>2. PICK state \in {"failed", "complete"}, pc \in {"failed", "completed"} :
            slot' = [calls[w].seen EXCEPT !.state = state, !.expired = FALSE] /\ Goes(w, pc, slot')
    BY <1>10 DEF PollFinalizes
  <2>3. slot'.state = state /\ slot'.owner = calls[w].seen.owner /\ slot'.result = calls[w].seen.result
    BY <2>1, <2>2 DEF Slot
  <2>4. Own(slot') /\ ~Fresh'
    BY <1>b, <2>1, <2>3, ImageNoneAssumption DEF Own, Fresh, Is
  <2> QED BY <1>10, <1>c, <2>2, <2>4 DEF PollFinalizes
<1>11. CASE AbortReleases(w)
  <2>1. slot' = slot \/ (Own(slot') /\ ~Fresh')
    BY <1>11, <1>b DEF AbortReleases, Fresh, Is
  <2> QED BY <1>11, <1>d, <2>1 DEF AbortReleases
<1>12. CASE CallFails(w)
  BY <1>12, <1>d DEF CallFails
<1>13. CASE BuildEnds(w)
  <2>1. slot' = slot /\ calls' = calls /\ w \in container.commands
    BY <1>13 DEF BuildEnds
  <2>2. PICK result \in {"failed", ImageOf[w]} :
            container' = [container EXCEPT !.commands = @ \ {w}, !.result = result]
    BY <1>13 DEF BuildEnds
  <2>3. /\ container'.commands \subseteq container.commands /\ container'.result = result
        /\ container'.execs = container.execs /\ container'.running = container.running
        /\ container # Stopped
    BY <1>a, <2>1, <2>2 DEF Stopped
  <2>4. Fresh' => Fresh /\ slot'.owner = slot.owner
    BY <2>1 DEF Fresh, Is
  <2> QED BY <1>b, <2>1, <2>2, <2>3, <2>4, KeepsBuilds
<1> QED BY <1>1, <1>2, <1>3, <1>4, <1>5, <1>6, <1>7, <1>8, <1>9, <1>10, <1>11, <1>12, <1>13 DEF BuilderStep

LEMMA CallsKeepBuilds ==
    ASSUME Typed, Builds, NEW w \in Workflows, Calls(w), ~contested'
    PROVE  Builds'
<1>a. /\ calls \in [Workflows -> Call] /\ slot \in Slot \cup {None}
      /\ container \in [running : BOOLEAN, commands : SUBSET Workflows, result : Results \cup {None}, execs : SUBSET Workflows]
  BY DEF Typed, BuilderTyped
<1>b. Own(slot) /\ Own(None) /\ (~container.running => container = Stopped)
  BY DEF Builds, Own
<1>g. ASSUME NEW pc, NEW seen, Goes(w, pc, seen), pc \notin {"stage", "probe"}, Own(seen), slot' = slot, container' = container
      PROVE  Builds'
  <2>1. calls'[w] = [pc |-> pc, seen |-> seen] /\ \A v \in Workflows \ {w} : calls'[v] = calls[v]
    BY <1>a, <1>g DEF Goes
  <2>2. Fresh' => Fresh /\ slot'.owner = slot.owner
    BY <1>g DEF Fresh, Is
  <2> QED BY <1>b, <1>g, <2>1, <2>2, KeepsBuilds
<1>h. ASSUME NEW pc, Answer(w, pc), pc \notin {"stage", "probe"}, slot' = slot, container' = container
      PROVE  Builds'
  BY <1>b, <1>g, <1>h DEF Answer
<1>1. CASE StartBuild(w)
  <2>1. CASE TakeSlot(w, slot, container.running) /\ (slot = None \/ Is("complete") \/ Is("failed"))
    <3>1. container' = IF container.running THEN container ELSE Stopped
      BY <1>1, <1>b DEF StartBuild
    <3> QED BY <1>a, <1>b, <2>1, <3>1, TakingBuilds DEF Is
  <2>2. CASE Answer(w, IF slot.owner = w THEN "owner" ELSE "joined") /\ slot' = slot
    <3>1. Answer(w, "owner") \/ Answer(w, "joined")
      BY <2>2
    <3> QED BY <1>1, <1>h, <2>2, <3>1 DEF StartBuild
  <2>3. CASE (Goes(w, "release", slot) \/ Goes(w, "reconcile", slot)) /\ slot' = slot
    BY <1>1, <1>b, <1>g, <2>3 DEF StartBuild
  <2> QED BY <1>1, <2>1, <2>2, <2>3 DEF StartBuild
<1>2. CASE PollBuild(w)
  BY <1>2, <1>b, <1>g, <1>h DEF PollBuild
<1>3. CASE PollActiveBuild(w)
  <2>1. CASE Goes(w, "probe", slot) /\ container' = [container EXCEPT !.execs = @ \cup {w}] /\ container.running
    <3>1. calls'[w] = [pc |-> "probe", seen |-> slot] /\ \A v \in Workflows \ {w} : calls'[v] = calls[v]
      BY <1>a, <2>1 DEF Goes
    <3>2. HoldsOf(slot.owner)
      BY <1>3 DEF PollActiveBuild, Builds, Fresh
    <3>3. /\ container'.commands = container.commands /\ container'.result = container.result
          /\ container'.execs = container.execs \cup {w} /\ container'.running = container.running
      BY <1>a, <2>1
    <3>5. container # Stopped
      BY <2>1 DEF Stopped
    <3>4. slot' = slot /\ (Fresh' => Fresh /\ slot'.owner = slot.owner)
      BY <1>3 DEF PollActiveBuild, Fresh, Is
    <3> QED BY <1>b, <3>1, <3>2, <3>3, <3>4, <3>5, KeepsBuilds
  <2>2. CASE Answer(w, "running") /\ UNCHANGED container
    BY <1>3, <1>h, <2>2 DEF PollActiveBuild
  <2> QED BY <1>3, <2>1, <2>2 DEF PollActiveBuild
<1>4. CASE AbortBuild(w)
  BY <1>4, <1>b, <1>g, <1>h DEF AbortBuild
<1>5. CASE Taken(w) /\ slot' = slot /\ container' = container
  <2>1. Answer(w, "none")
    BY <1>5 DEF Taken, Answer, Goes, NoCall
  <2> QED BY <1>5, <1>h, <2>1
<1>6. CASE UNCHANGED builderVars
  <2>1. UNCHANGED <<slot, container, calls>>
    BY <1>6 DEF builderVars
  <2> QED BY <2>1 DEF Builds, Fresh, Is, HoldsOf, SetUp, At, Own
<1> QED BY <1>1, <1>2, <1>3, <1>4, <1>5, <1>6 DEF Calls, Start, Started, Poll, Polled, Cleanup, CleanedUp

\* Steps that have nothing to do with the calls.
LEMMA OthersKeepBuilds ==
    ASSUME Builds, NEW w \in Workflows, UNCHANGED calls,
           slot' = slot \/ (Own(slot') /\ (Fresh' => Fresh /\ slot'.owner = slot.owner)),
           container' \in {container, Stopped}
    PROVE  Builds'
<1>1. Own(slot') /\ (Fresh' => Fresh /\ slot'.owner = slot.owner)
  BY DEF Builds, Fresh, Is
<1>2. container' = container \/ (container' = Stopped /\ container'.execs = {})
  BY DEF Stopped
<1>3. container'.execs \subseteq container.execs \/ container'.execs = {}
  BY <1>2
<1> QED BY <1>1, <1>2, <1>3, KeepsBuilds

\* A pass that begins rolls out what the slot says, which is the owner's.
LEMMA BeginsOwnPass ==
    ASSUME Typed, Builds, Passed, NEW w \in Workflows, BeginRollOut(w)
    PROVE  Builds' /\ Passed'
<1>a. slot \in Slot \cup {None} /\ Settles(slot) /\ Own(slot) /\ pass \in [Workflows -> Pass \cup {None}]
  BY DEF Typed, BuilderTyped, FlowsTyped, Builds
<1>b. flows \in [Workflows -> Flow] /\ UNCHANGED <<calls, container>>
  BY DEF Typed, FlowsTyped, BeginRollOut
<1>c. \A v \in Workflows : flows'[v].result = flows[v].result
  BY <1>b DEF BeginRollOut, Moves, Flow
<1>1. CASE MayRollOut(w, flows[w].result)
  <2>1. slot \in Slot /\ slot.owner = w /\ slot.result = flows[w].result /\ slot.result \in Images
    BY <1>a, <1>1 DEF MayRollOut, Settles
  <2>2. flows[w].result = ImageOf[w]
    BY <1>a, <2>1, ImageNoneAssumption DEF Own, MayRollOut
  <2>3. slot' = LeasedForRollOut /\ \A v \in Workflows \ {w} : pass'[v] = pass[v]
    BY <1>1, <1>a DEF BeginRollOut
  <2>4. slot'.owner = slot.owner /\ slot'.result = slot.result /\ slot'.state = "rolling-out"
    BY <2>1, <2>3 DEF LeasedForRollOut, Slot
  <2>5. slot # None
    BY <1>1 DEF MayRollOut
  <2>6. Own(slot') /\ ~Fresh'
    BY <1>a, <2>4, <2>5 DEF Own, Fresh, Is
  <2>7. Builds'
    BY <1>b, <2>6, OthersKeepBuilds
  <2>8. Passed'
    BY <1>c, <2>2, <2>3 DEF Passed
  <2> QED BY <2>7, <2>8
<1>2. CASE ~MayRollOut(w, flows[w].result)
  <2>1. slot' = slot /\ pass' = pass
    BY <1>2 DEF BeginRollOut
  <2> QED BY <1>b, <1>c, <2>1, OthersKeepBuilds DEF Passed
<1> QED BY <1>1, <1>2

\* No other step begins a pass, or changes what a pass in progress rolls out.
LEMMA OthersKeepPassed ==
    ASSUME Typed, Passed, [Next]_vars, \A w \in Workflows : ~BeginRollOut(w)
    PROVE  Passed'
<1> SUFFICES ASSUME NEW w \in Workflows, pass'[w] # None
             PROVE  pass[w] # None /\ flows'[w].result = flows[w].result
  BY DEF Passed
<1>a. /\ flows \in [Workflows -> Flow] /\ pass \in [Workflows -> Pass \cup {None}]
      /\ \A v \in Workflows : pass[v] # None <=> Stage(v) = "pass"
  BY DEF Typed, FlowsTyped
<1>m. ASSUME NEW v \in Workflows, NEW to, Moves(v, to) PROVE flows'[w].result = flows[w].result
  BY <1>a, <1>m DEF Moves, Flow
<1>1. ASSUME NEW v \in Workflows, Copies(v) PROVE pass' = pass /\ flows'[w].result = flows[w].result
  BY <1>1, <1>m DEF Copies, ClaimBootstrap, Copy, CopyBlob, Publish, Swap, Swapped, RecordBootstrap
<1>2. ASSUME NEW v \in Workflows, Calls(v) PROVE pass[w] # None /\ flows'[w].result = flows[w].result
  <2>1. pass' = pass
    BY <1>2 DEF Calls, Start, Started, Poll, Polled, Cleanup, CleanedUp
  <2>2. CASE Start(v) \/ Poll(v) \/ Cleanup(v) \/ CleanedUp(v)
    BY <2>1, <2>2, <1>m DEF Start, Poll, Cleanup, CleanedUp
  <2>3. CASE Started(v) \/ Polled(v)
    <3>1. v # w
      BY <1>a, <2>1, <2>3 DEF Started, Polled
    <3>2. flows'[w] = flows[w]
      BY <1>a, <2>3, <3>1 DEF Started, Polled, Retried, NextRound, Moves
    <3> QED BY <2>1, <3>2
  <2> QED BY <1>2, <2>2, <2>3 DEF Calls
<1>3. ASSUME NEW v \in Workflows, EndPass(v) \/ PassFails(v) PROVE pass[w] # None /\ flows'[w].result = flows[w].result
  <2>1. pass' = [pass EXCEPT ![v] = None] /\ \E to : Moves(v, to)
    BY <1>3 DEF EndPass, PassFails
  <2> QED BY <1>a, <1>m, <2>1
<1>4. ASSUME NEW v \in Workflows, GiveUp(v) \/ Interrupted(v) PROVE pass' = pass /\ flows'[w].result = flows[w].result
  BY <1>4, <1>m DEF GiveUp, Interrupted
<1>5. ASSUME NEW v \in Workflows, NEW a \in Applications, RollsOut(v, a)
      PROVE  pass[w] # None /\ flows'[w].result = flows[w].result
  <2>1. flows' = flows /\ pass[v] # None
    BY <1>5 DEF RollsOut, InspectApplication, PatchApplicationImage, RereadApplication, PostImageRollout, Passes
  <2>2. \E p : pass' = [pass EXCEPT ![v] = p]
    BY <1>5 DEF RollsOut, InspectApplication, PatchApplicationImage, RereadApplication, PostImageRollout, PassGoes, PassLeaves
  <2> QED BY <1>a, <2>1, <2>2
<1>6. CASE SwapEnds
  BY <1>6, <1>a DEF SwapEnds, Flow
<1>7. CASE LeaseExpires \/ UNCHANGED <<flows, pass>>
  BY <1>7 DEF LeaseExpires
<1> QED BY <1>1, <1>2, <1>3, <1>4, <1>5, <1>6, <1>7, NextKinds DEF Rolls, BuilderKeeps, ApplicationsKeep, flowVars, vars

LEMMA StepsStayUncontested == Typed /\ Uncontested /\ [Next]_vars => Uncontested'
<1> SUFFICES ASSUME Typed, Uncontested, [Next]_vars, ~contested' PROVE Builds' /\ Passed'
  BY DEF Uncontested
<1>c. ~contested
  <2>1. ASSUME NEW w \in Workflows, NEW before, NEW running, TakeSlot(w, before, running) PROVE contested => contested'
    BY <2>1 DEF TakeSlot
  <2>2. ASSUME NEW w \in Workflows, BuilderStep(w) PROVE contested => contested'
    BY <2>2, <2>1 DEF BuilderStep, StartReleases, StartReconciles, StartClears, StartStages, StartFails, StartUndoes,
         PollReconciles, PollReleases, PollProbes, PollReads, PollFinalizes, AbortReleases, CallFails, BuildEnds
  <2>3. ASSUME NEW w \in Workflows, Calls(w) PROVE contested => contested'
    BY <2>3, <2>1 DEF Calls, Start, Started, Poll, Polled, Cleanup, CleanedUp, StartBuild, PollBuild, PollActiveBuild,
         AbortBuild, builderVars
  <2>4. ASSUME NEW w \in Workflows, Copies(w) \/ Rolls(w) \/ GiveUp(w) \/ Interrupted(w) PROVE contested' = contested
    BY <2>4 DEF Copies, ClaimBootstrap, Copy, CopyBlob, Publish, Swap, Swapped, RecordBootstrap, Rolls, BeginRollOut,
         EndPass, PassFails, GiveUp, Interrupted, builderVars
  <2>5. ASSUME NEW w \in Workflows, NEW a \in Applications, RollsOut(w, a) PROVE contested' = contested
    BY <2>5 DEF RollsOut, InspectApplication, PatchApplicationImage, RereadApplication, PostImageRollout, builderVars
  <2>6. CASE SwapEnds \/ LeaseExpires \/ ApplicationsKeep \/ UNCHANGED vars
    BY <2>6 DEF SwapEnds, LeaseExpires, ApplicationsKeep, builderVars, vars
  <2> QED BY <2>2, <2>3, <2>4, <2>5, <2>6, NextKinds
<1>a. Builds /\ Passed /\ slot \in Slot \cup {None} /\ Own(slot)
  BY <1>c DEF Uncontested, Typed, BuilderTyped, Builds
<1>1. CASE \E w \in Workflows : BeginRollOut(w)
  BY <1>1, <1>a, BeginsOwnPass
<1>2. CASE \A w \in Workflows : ~BeginRollOut(w)
  <2>p. Passed'
    BY <1>2, <1>a, OthersKeepPassed
  <2> SUFFICES Builds'
    BY <2>p
  <2>1. ASSUME NEW w \in Workflows, BuilderStep(w) PROVE Builds'
    BY <2>1, <1>a, BuilderKeepsBuilds
  <2>2. ASSUME NEW w \in Workflows, Calls(w) PROVE Builds'
    BY <2>2, <1>a, CallsKeepBuilds
  <2>3. ASSUME NEW w \in Workflows, Copies(w) PROVE Builds'
    <3>1. UNCHANGED <<slot, calls>> /\ container' \in {container, Stopped}
      BY <2>3 DEF Copies, ClaimBootstrap, Copy, CopyBlob, Publish, Swap, Swapped, RecordBootstrap, builderVars
    <3> QED BY <1>a, <3>1, OthersKeepBuilds
  <2>4. ASSUME NEW w \in Workflows, EndPass(w) PROVE Builds'
    <3>1. CASE slot' = slot
      BY <1>a, <2>4, <3>1, OthersKeepBuilds DEF EndPass
    <3>2. CASE slot' # slot
      <4>1. slot \in Slot /\ slot.state = "rolling-out" /\ slot # None
        BY <1>a, <2>4, <3>2 DEF EndPass, AfterPass, HeldAs
      <4>2. \/ slot' = [slot EXCEPT !.inFlight = FALSE]
            \/ slot' = [slot EXCEPT !.inFlight = FALSE, !.state = "complete", !.expired = FALSE]
        BY <2>4, <3>2 DEF EndPass, AfterPass
      <4>3. slot'.owner = slot.owner /\ slot'.result = slot.result /\ slot'.state \in {"rolling-out", "complete"}
        BY <4>1, <4>2 DEF Slot
      <4>4. Own(slot') /\ ~Fresh'
        BY <1>a, <4>1, <4>3 DEF Own, Fresh, Is
      <4> QED BY <1>a, <2>4, <4>4, OthersKeepBuilds DEF EndPass
    <3> QED BY <3>1, <3>2
  <2>5. ASSUME NEW w \in Workflows, PassFails(w) \/ GiveUp(w) \/ Interrupted(w) PROVE Builds'
    BY <1>a, <2>5, OthersKeepBuilds DEF PassFails, GiveUp, Interrupted
  <2>6. CASE LeaseExpires
    <3>1. CASE slot' = slot
      BY <1>a, <2>6, <3>1 DEF LeaseExpires, Builds, Fresh, Is, HoldsOf, SetUp, At, Own
    <3>2. CASE slot' # slot
      <4>1. slot' = [slot EXCEPT !.expired = TRUE] /\ slot # None /\ slot \in Slot
        BY <1>a, <2>6, <3>2 DEF LeaseExpires, Lives
      <4>2. slot'.owner = slot.owner /\ slot'.result = slot.result /\ slot'.state = slot.state /\ slot.owner \in Workflows
        BY <4>1 DEF Slot
      <4>3. Own(slot') /\ (Fresh' => Fresh /\ slot'.owner = slot.owner)
        BY <1>a, <4>1, <4>2 DEF Own, Fresh, Is
      <4> QED BY <1>a, <2>6, <4>2, <4>3, OthersKeepBuilds DEF LeaseExpires
    <3> QED BY <3>1, <3>2
  <2>7. CASE UNCHANGED <<slot, container, calls>>
    BY <1>a, <2>7 DEF Builds, Fresh, Is, HoldsOf, SetUp, At, Own
  <2>8. ASSUME NEW w \in Workflows, NEW a \in Applications, RollsOut(w, a) PROVE UNCHANGED <<slot, container, calls>>
    BY <2>8 DEF RollsOut, InspectApplication, PatchApplicationImage, RereadApplication, PostImageRollout, builderVars
  <2> QED BY <1>2, <2>1, <2>2, <2>3, <2>4, <2>5, <2>6, <2>7, <2>8, NextKinds DEF Rolls, SwapEnds, ApplicationsKeep,
             builderVars, vars
<1> QED BY <1>1, <1>2

\* A workflow rolls out the image of another's build only if two starts have taken
\* the slot at once: expired builds and leases, polls that overlap, processes that
\* survive their read, and faults do not bring that about (startBuild,
\* buildStatus, completedBuildResult, finalizeTerminalBuild, beginRollOut).
THEOREM ForeignImagesAreContested == Spec => []ForeignImagesFollowContests
<1>1. Uncontested => ForeignImagesFollowContests
  BY DEF Uncontested, Passed, ForeignImagesFollowContests
<1> QED BY <1>1, InitIsTyped, StepsKeepTypes, InitBuilds, StepsStayUncontested, PTL DEF Spec

-----------------------------------------------------------------------------
(* Shapes and ceilings: what the scheduler was last granted.  The ceiling is  *)
(* always there; the shape is, on applications that nothing has crossed.      *)

\* What has the shape that was granted: what runs, and what is going to.
Agrees(a) ==
    granted[a].shape # None =>
        /\ apps[a].configured.shape = granted[a].shape /\ apps[a].running.shape = granted[a].shape
        /\ RollingOut(a) => apps[a].target.shape = granted[a].shape
        /\ Changing(a, "patch") => changing[a].seen.shape = granted[a].shape
        /\ \A w \in Workflows : pass[w] # None /\ pass[w].app = a =>
               pass[w].seen.configured.shape = granted[a].shape

\* A reconfiguration has the application to itself, and ends with its shape.
Reshaped(a) ==
    /\ ReconfigurationAt(a) => ~PassAt(a)
    /\ ReconfigurationAt(a) /\ changing[a].pc \in {"patch", "post"} => ~RollingOut(a)
    /\ Changing(a, "post") => granted[a].shape = None
    /\ Changing(a, "await") =>
          IF RollingOut(a) THEN apps[a].target.shape = changing[a].shape
          ELSE apps[a].configured.shape = changing[a].shape /\ apps[a].running.shape = changing[a].shape

ShapeKept(a) == Agrees(a) /\ Reshaped(a)

LEMMA Untouched ==
    ASSUME NEW a \in Applications, ShapeKept(a),
           apps'[a] = apps[a], changing'[a] = changing[a], granted'[a] = granted[a],
           \A w \in Workflows : pass'[w] # None /\ pass'[w].app = a => pass'[w] = pass[w]
    PROVE  ShapeKept(a)'
<1>1. \A w \in Workflows : pass'[w] # None /\ pass'[w].app = a => pass[w] # None /\ pass[w].app = a /\ pass'[w].seen = pass[w].seen
  OBVIOUS
<1>2. Agrees(a)'
  BY <1>1 DEF ShapeKept, Agrees, RollingOut, Changing
<1>3. Reshaped(a)'
  BY <1>1 DEF ShapeKept, Reshaped, ReconfigurationAt, PassAt, RollingOut, Changing
<1> QED BY <1>2, <1>3 DEF ShapeKept

LEMMA ApplicationsKeepShapes ==
    ASSUME ApplicationsTyped, NEW a \in Applications, ApplicationStep(a), pass' = pass, ShapeKept(a), a \notin crossed'
    PROVE  ShapeKept(a)'
<1> DEFINE app == apps[a]
           change == changing[a]
<1>a. /\ apps \in [Applications -> Application] /\ changing \in [Applications -> Change \cup {None}]
      /\ granted \in [Applications -> [shape : Shapes \cup {None}, ceiling : 1 .. MaxCeiling]]
      /\ app \in Application /\ app.configured \in Configuration /\ app.running \in Configuration
      /\ RollingOut(a) => app.target \in Configuration
      /\ change # None => /\ change \in Change /\ change.seen \in Configuration
                          /\ change.shape \in Shapes \cup {None} /\ change.ceiling \in 1 .. MaxCeiling
      /\ change # None /\ change.pc \in {"post", "await"} => change.shape # None
  BY Targets DEF ApplicationsTyped
<1>b. Agrees(a) /\ Reshaped(a)
  BY DEF ShapeKept
\* The change begins, and nothing else.
<1>c. ASSUME NEW c \in Change, changing' = [changing EXCEPT ![a] = c], UNCHANGED <<apps, granted>>,
             c.seen = app.configured, c.pc \in {"patch", "await"},
             c.shape # None => ~PassAt(a), c.shape # None /\ c.pc = "patch" => ~RollingOut(a),
             c.pc = "await" => RollingOut(a) /\ app.target.shape = c.shape
      PROVE  ShapeKept(a)'
  <2>1. changing'[a] = c
    BY <1>a, <1>c
  <2>2. Agrees(a)'
    BY <1>b, <1>c, <2>1 DEF Agrees, RollingOut, Changing
  <2>3. Reshaped(a)'
    BY <1>b, <1>c, <2>1 DEF Reshaped, ReconfigurationAt, PassAt, RollingOut, Changing
  <2> QED BY <1>b, <1>c, <2>2, <2>3 DEF ShapeKept
<1>1. CASE ChangeCeiling(a)
  <2>1. PICK ceiling \in 1 .. MaxCeiling :
            changing' = [changing EXCEPT ![a] =
              [pc |-> "patch", seen |-> apps[a].configured, shape |-> None, ceiling |-> ceiling]]
    BY <1>1 DEF ChangeCeiling
  <2> DEFINE c == [pc |-> "patch", seen |-> apps[a].configured, shape |-> None, ceiling |-> ceiling]
  <2>2. c \in Change /\ c.seen = app.configured /\ c.pc = "patch" /\ c.shape = None
    BY <1>a DEF Change
  <2>3. changing' = [changing EXCEPT ![a] = c] /\ UNCHANGED <<apps, granted>>
    BY <1>1, <2>1 DEF ChangeCeiling
  <2> HIDE DEF c
  <2> QED BY <1>c, <2>2, <2>3
<1>2. CASE Reconfigure(a, PassAt(a))
  <2>1. PICK shape \in Shapes, ceiling \in 1 .. MaxCeiling, pc \in {"patch", "await"} :
          /\ changing' = [changing EXCEPT ![a] =
              [pc |-> pc, seen |-> apps[a].configured, shape |-> shape, ceiling |-> ceiling]]
          /\ IF RollingOut(a) THEN pc = "await" /\ apps[a].target.shape = shape ELSE pc = "patch"
    BY <1>2 DEF Reconfigure
  <2> DEFINE c == [pc |-> pc, seen |-> apps[a].configured, shape |-> shape, ceiling |-> ceiling]
  <2>2. c \in Change /\ c.seen = app.configured /\ c.pc = pc /\ c.shape = shape
    BY <1>a DEF Change
  <2>3. changing' = [changing EXCEPT ![a] = c] /\ UNCHANGED <<apps, granted>> /\ ~PassAt(a)
    BY <1>2, <2>1 DEF Reconfigure, CrossedIf
  <2> HIDE DEF c
  <2> QED BY <1>c, <2>1, <2>2, <2>3
<1>3. CASE PatchApplication(a)
  <2>1. /\ change # None /\ change.pc = "patch" /\ Reshaping(a) = (change.shape \notin {None, change.seen.shape})
        /\ granted' = [granted EXCEPT ![a].ceiling = change.ceiling,
                                      ![a].shape = IF Reshaping(a) THEN None ELSE @]
        /\ changing' = IF Reshaping(a) THEN ChangeTo(a, "post") ELSE ChangeOver(a)
    BY <1>3 DEF PatchApplication, Changing, Reshaping
  <2> DEFINE patched == IF change.shape = None THEN change.seen ELSE [change.seen EXCEPT !.shape = change.shape]
  <2>2. PICK shown \in {app.configured, patched} :
            apps' = [apps EXCEPT ![a].configured = shown, ![a].ceiling = change.ceiling]
    BY <1>3 DEF PatchApplication, Configured
  <2>3. patched.shape = IF change.shape = None THEN change.seen.shape ELSE change.shape
    BY <1>a, <2>1, Configurations
  <2> HIDE DEF patched
  <2>4. /\ apps'[a].configured = shown /\ apps'[a].ceiling = change.ceiling
        /\ apps'[a].running = app.running /\ apps'[a].target = app.target
    BY <1>a, <2>2 DEF Application
  <2>5. CASE Reshaping(a)
    <3>1. granted'[a].ceiling = change.ceiling /\ granted'[a].shape = None
      BY <1>a, <2>1, <2>5
    <3>2. changing'[a] # None /\ changing'[a].pc = "post" /\ changing'[a].shape = change.shape
      <4>1. changing' = [changing EXCEPT ![a] = [change EXCEPT !.pc = "post"]] /\ [change EXCEPT !.pc = "post"] \in Change
        BY <2>1, <2>5, ChangeMoves
      <4> QED BY <1>a, <2>1, <4>1, ImageNoneAssumption DEF Change
    <3>3. ~PassAt(a) /\ ~RollingOut(a)
      BY <1>b, <2>1, <2>5 DEF Reshaped, ReconfigurationAt
    <3>4. Agrees(a)'
      BY <3>1 DEF Agrees
    <3>5. Reshaped(a)'
      BY <2>4, <3>1, <3>2, <3>3 DEF Reshaped, ReconfigurationAt, PassAt, RollingOut, Changing
    <3> QED BY <2>4, <3>1, <3>4, <3>5 DEF ShapeKept
  <2>6. CASE ~Reshaping(a)
    <3>1. granted'[a].ceiling = change.ceiling /\ granted'[a].shape = granted[a].shape
      BY <1>a, <2>1, <2>6
    <3>2. changing'[a] = None
      BY <1>a, <2>1, <2>6 DEF ChangeOver
    <3>3. granted[a].shape # None => shown.shape = granted[a].shape
      BY <1>b, <2>1, <2>2, <2>3, <2>6 DEF Agrees, Changing
    <3>4. Agrees(a)'
      BY <1>b, <2>4, <3>1, <3>2, <3>3 DEF Agrees, RollingOut, Changing
    <3>5. Reshaped(a)'
      BY <3>2 DEF Reshaped, ReconfigurationAt, Changing
    <3> QED BY <2>4, <3>1, <3>4, <3>5 DEF ShapeKept
  <2> QED BY <2>5, <2>6
<1>4. CASE PostReconfiguration(a)
  <2>1. /\ change # None /\ change.pc = "post" /\ change.shape \in Shapes /\ granted' = granted
        /\ changing' = ChangeTo(a, "await")
        /\ apps' = [apps EXCEPT ![a].target = [change.seen EXCEPT !.shape = change.shape]]
    BY <1>4, <1>a DEF PostReconfiguration, Changing, RolledOut
  <2>2. changing'[a] # None /\ changing'[a].pc = "await" /\ changing'[a].shape = change.shape
    <3>1. changing' = [changing EXCEPT ![a] = [change EXCEPT !.pc = "await"]] /\ [change EXCEPT !.pc = "await"] \in Change
      BY <2>1, ChangeMoves, ImageNoneAssumption
    <3> QED BY <1>a, <2>1, <3>1, ImageNoneAssumption DEF Change
  <2>3. /\ apps'[a].target \in Configuration /\ apps'[a].target.shape = change.shape
        /\ apps'[a].ceiling = app.ceiling
    BY <1>a, <2>1, Configurations DEF Application
  <2>4. granted[a].shape = None /\ ~PassAt(a)
    BY <1>b, <2>1, ImageNoneAssumption DEF Reshaped, ReconfigurationAt, Changing
  <2>5. Agrees(a)'
    BY <2>1, <2>4 DEF Agrees
  <2>6. Reshaped(a)'
    BY <2>2, <2>3, <2>4, ImageNoneAssumption DEF Reshaped, ReconfigurationAt, PassAt, RollingOut, Changing
  <2> QED BY <1>b, <2>1, <2>3, <2>5, <2>6 DEF ShapeKept
<1>5. CASE Reconfigured(a)
  <2>1. /\ change # None /\ change.pc = "await" /\ ~RollingOut(a) /\ apps' = apps
        /\ granted' = [granted EXCEPT ![a].shape = change.shape]
        /\ changing'[a] = None
    BY <1>5, <1>a DEF Reconfigured, Changing, ChangeOver
  <2>2. granted'[a].shape = change.shape /\ granted'[a].ceiling = granted[a].ceiling
    BY <1>a, <2>1
  <2>3. ~PassAt(a) /\ app.configured.shape = change.shape /\ app.running.shape = change.shape
    BY <1>a, <1>b, <2>1 DEF Reshaped, ReconfigurationAt, Changing
  <2>4. Agrees(a)'
    BY <2>1, <2>2, <2>3 DEF Agrees, RollingOut, Changing, PassAt
  <2>5. Reshaped(a)'
    BY <2>1 DEF Reshaped, ReconfigurationAt, Changing
  <2> QED BY <1>b, <2>1, <2>2, <2>4, <2>5 DEF ShapeKept
<1>6. CASE CompleteRollout(a)
  <2>1. /\ RollingOut(a) /\ ~Changing(a, "patch") /\ changing' = changing /\ granted' = granted
        /\ apps' = [apps EXCEPT ![a].configured = apps[a].target, ![a].running = apps[a].target,
                            ![a].rolled = @ \cup {apps[a].target.image}, ![a].target = None]
    BY <1>6 DEF CompleteRollout, CrossedIf
  <2>2. /\ apps'[a].configured = app.target /\ apps'[a].running = app.target /\ apps'[a].target = None
        /\ apps'[a].ceiling = app.ceiling
    BY <1>a, <2>1 DEF Application
  <2>3. Agrees(a)'
    BY <1>b, <2>1, <2>2 DEF Agrees, RollingOut, Changing
  <2>4. Reshaped(a)'
    BY <1>b, <2>1, <2>2 DEF Reshaped, ReconfigurationAt, PassAt, RollingOut, Changing
  <2> QED BY <1>b, <2>1, <2>2, <2>3, <2>4 DEF ShapeKept
<1>7. CASE StartRunner(a) \/ StopRunner(a)
  <2>1. changing' = changing /\ granted' = granted /\ \E live \in BOOLEAN : apps' = [apps EXCEPT ![a].live = live]
    BY <1>7 DEF StartRunner, StopRunner
  <2>2. /\ apps'[a].configured = app.configured /\ apps'[a].running = app.running /\ apps'[a].target = app.target
        /\ apps'[a].ceiling = app.ceiling
    BY <1>a, <2>1 DEF Application
  <2>3. Agrees(a)'
    BY <1>b, <2>1, <2>2 DEF Agrees, RollingOut, Changing
  <2>4. Reshaped(a)'
    BY <1>b, <2>1, <2>2 DEF Reshaped, ReconfigurationAt, PassAt, RollingOut, Changing
  <2> QED BY <1>b, <2>1, <2>2, <2>3, <2>4 DEF ShapeKept
<1> QED BY <1>1, <1>2, <1>3, <1>4, <1>5, <1>6, <1>7 DEF ApplicationStep

\* A pass leaves an application, or comes with what it has read of it now.
LEMMA PassSteps ==
    ASSUME Typed, NEW w \in Workflows, NEW a \in Applications, RollsOut(w, a)
    PROVE  /\ pass[w] # None /\ a \in pass[w].left /\ (pass[w].app = None \/ pass[w].app = a)
           /\ \A v \in Workflows \ {w} : pass'[v] = pass[v]
           /\ \/ PassGoes(w, a, "patch") \/ PassGoes(w, a, "reread") \/ PassGoes(w, a, "post")
              \/ \E skipped \in BOOLEAN : PassLeaves(w, a, skipped)
           /\ \E p \in Pass :
                 /\ pass' = [pass EXCEPT ![w] = p] /\ pass'[w] = p /\ p # None
                 /\ p.app = None \/ (p.app = a /\ p.seen = apps[a])
<1>a. FlowsTyped /\ ApplicationsTyped /\ pass \in [Workflows -> Pass \cup {None}]
  BY DEF Typed, FlowsTyped
<1>1. pass[w] # None /\ (pass[w].app = None => a \in pass[w].left) /\ (pass[w].app = None \/ pass[w].app = a)
  BY ImageNoneAssumption DEF RollsOut, InspectApplication, PatchApplicationImage, RereadApplication, PostImageRollout, Passes
<1>2. a \in pass[w].left
  BY <1>a, <1>1 DEF FlowsTyped, Carries
<1>3. \/ PassGoes(w, a, "patch") \/ PassGoes(w, a, "reread") \/ PassGoes(w, a, "post")
      \/ \E skipped \in BOOLEAN : PassLeaves(w, a, skipped)
  BY DEF RollsOut, InspectApplication, PatchApplicationImage, RereadApplication, PostImageRollout, InspectedAs
<1>4. \E p \in Pass : pass' = [pass EXCEPT ![w] = p] /\ (p.app = None \/ (p.app = a /\ p.seen = apps[a]))
  BY <1>a, <1>1, <1>2, <1>3, PassMoves
<1> QED BY <1>a, <1>1, <1>2, <1>3, <1>4, ImageNoneAssumption

LEMMA PassesKeepShapes ==
    ASSUME Typed, NEW w \in Workflows, NEW a \in Applications, RollsOut(w, a), ShapeKept(a), a \notin crossed',
           ~(pass[w].app = None /\ pass'[w].app = None)
    PROVE  ShapeKept(a)'
<1> DEFINE app == apps[a]
<1>a. /\ ApplicationsTyped /\ apps \in [Applications -> Application]
      /\ app \in Application /\ app.configured \in Configuration
  BY Targets DEF Typed, ApplicationsTyped
<1>b. Agrees(a) /\ Reshaped(a)
  BY DEF ShapeKept
<1>p. PICK p \in Pass : /\ pass' = [pass EXCEPT ![w] = p] /\ pass'[w] = p /\ p # None
                        /\ p.app = None \/ (p.app = a /\ p.seen = apps[a])
  BY PassSteps
<1>c. ~ReconfigurationAt(a)
  <2>1. pass[w] # None /\ (pass[w].app = None \/ pass[w].app = a)
    BY PassSteps
  <2>2. CASE pass[w].app = None
    <3>1. InspectApplication(w, a)
      BY <2>2, ImageNoneAssumption DEF RollsOut, PatchApplicationImage, RereadApplication, PostImageRollout, Passes
    <3>2. \A skipped : ~PassLeaves(w, a, skipped)
      BY <2>1, <2>2 DEF PassLeaves, Typed, FlowsTyped, Pass
    <3> QED BY <3>1, <3>2 DEF InspectApplication, CrossedIf
  <2>3. CASE pass[w].app = a
    BY <1>b, <2>1, <2>3 DEF Reshaped, PassAt
  <2> QED BY <2>1, <2>2, <2>3
<1>d. ~Changing(a, "await") /\ ~Changing(a, "post")
  BY <1>a, <1>c DEF ApplicationsTyped, Changing, ReconfigurationAt
\* No reconfiguration, what the pass reads agrees, and what it writes as well.
<1>e. ASSUME changing'[a] = changing[a], granted'[a] = granted[a], apps'[a].running = app.running,
             granted[a].shape # None => /\ apps'[a].configured.shape = granted[a].shape
                                        /\ apps'[a].target # None => apps'[a].target.shape = granted[a].shape
      PROVE  ShapeKept(a)'
  <2>1. ~ReconfigurationAt(a)' /\ ~Changing(a, "await")' /\ ~Changing(a, "post")'
    BY <1>c, <1>d, <1>e DEF ReconfigurationAt, Changing
  <2>2. Reshaped(a)'
    BY <2>1 DEF Reshaped
  <2>3. \A v \in Workflows : pass'[v] # None /\ pass'[v].app = a =>
            \/ pass'[v].seen = apps[a]
            \/ pass[v] # None /\ pass[v].app = a /\ pass'[v].seen = pass[v].seen
    BY <1>p, PassSteps, ImageNoneAssumption
  <2>4. Agrees(a)'
    BY <1>b, <1>e, <2>3 DEF Agrees, RollingOut, Changing
  <2> QED BY <1>b, <1>e, <2>2, <2>4 DEF ShapeKept
<1>1. CASE InspectApplication(w, a) \/ RereadApplication(w, a)
  <2>1. UNCHANGED <<apps, changing, granted>>
    BY <1>1 DEF InspectApplication, RereadApplication, appVars
  <2> QED BY <1>b, <1>e, <2>1 DEF Agrees, RollingOut
<1>2. pass[w] # None /\ (Passes(w, a, "patch") \/ Passes(w, a, "post")) =>
          /\ pass[w].seen.configured \in Configuration /\ flows[w].result \in Images
          /\ granted[a].shape # None => pass[w].seen.configured.shape = granted[a].shape
  <2>1. pass[w] # None => pass[w] \in Pass /\ Carries(pass[w], flows[w].result)
    BY DEF Typed, FlowsTyped
  <2> QED BY <1>b, <2>1, ImageNoneAssumption DEF Passes, Carries, Pass, Application, Agrees
<1>3. CASE PatchApplicationImage(w, a)
  <2>1. UNCHANGED <<changing, granted>> /\ Passes(w, a, "patch") /\ pass[w] # None
    BY <1>3 DEF PatchApplicationImage, Passes
  <2>2. PICK shown \in {app.configured, [pass[w].seen.configured EXCEPT !.image = flows[w].result]} :
            apps' = [apps EXCEPT ![a].configured = shown]
    BY <1>3 DEF PatchApplicationImage, PatchImage, Configured
  <2>3. granted[a].shape # None => shown.shape = granted[a].shape
    <3>1. [pass[w].seen.configured EXCEPT !.image = flows[w].result].shape = pass[w].seen.configured.shape
      BY <1>2, <2>1, Configurations
    <3> QED BY <1>b, <1>2, <2>1, <2>2, <3>1 DEF Agrees
  <2>4. /\ apps'[a].configured = shown /\ apps'[a].ceiling = app.ceiling /\ apps'[a].running = app.running
        /\ apps'[a].target = app.target
    BY <1>a, <2>2 DEF Application
  <2> QED BY <1>b, <1>e, <2>1, <2>3, <2>4 DEF Agrees, RollingOut
<1>4. CASE PostImageRollout(w, a)
  <2>1. UNCHANGED <<changing, granted>> /\ Passes(w, a, "post") /\ pass[w] # None
    BY <1>4, <1>d DEF PostImageRollout, PostImage, Passes
  <2>2. apps' = [apps EXCEPT ![a].target = [pass[w].seen.configured EXCEPT !.image = flows[w].result]]
    BY <1>4 DEF PostImageRollout, PostImage, RolledOut
  <2>3. granted[a].shape # None => [pass[w].seen.configured EXCEPT !.image = flows[w].result].shape = granted[a].shape
    BY <1>2, <2>1, Configurations
  <2>4. /\ apps'[a].configured = app.configured /\ apps'[a].ceiling = app.ceiling /\ apps'[a].running = app.running
        /\ apps'[a].target = [pass[w].seen.configured EXCEPT !.image = flows[w].result]
    BY <1>a, <2>2 DEF Application
  <2> QED BY <1>b, <1>e, <2>1, <2>3, <2>4 DEF Agrees
<1> QED BY <1>1, <1>3, <1>4 DEF RollsOut

\* Clients and Cloudflare change one application at a time.
LEMMA OneApplication ==
    ASSUME ApplicationsTyped, NEW a \in Applications, NEW b \in Applications, b # a,
           ApplicationStep(b) \/ \E w \in Workflows : RollsOut(w, b)
    PROVE  apps'[a] = apps[a] /\ changing'[a] = changing[a] /\ granted'[a] = granted[a]
<1> USE DEF ApplicationsTyped
<1>1. CASE ChangeCeiling(b) \/ Reconfigure(b, PassAt(b))
  <2>1. UNCHANGED <<apps, granted>> /\ \E c : changing' = [changing EXCEPT ![b] = c]
    BY <1>1 DEF ChangeCeiling, Reconfigure
  <2> QED BY <2>1
<1>2. CASE PatchApplication(b)
  <2>1. PICK shown \in {apps[b].configured, changing[b].seen, [changing[b].seen EXCEPT !.shape = changing[b].shape]} :
            apps' = [apps EXCEPT ![b].configured = shown, ![b].ceiling = changing[b].ceiling]
    BY <1>2 DEF PatchApplication, Configured
  <2>3. granted'[a] = granted[a]
    BY <1>2 DEF PatchApplication
  <2>2. changing' = ChangeTo(b, "post") \/ changing' = ChangeOver(b)
    BY <1>2 DEF PatchApplication
  <2> QED BY <2>1, <2>2, <2>3 DEF ChangeTo, ChangeOver
<1>3. CASE PostReconfiguration(b)
  BY <1>3 DEF PostReconfiguration, RolledOut, ChangeTo
<1>4. CASE Reconfigured(b)
  BY <1>4 DEF Reconfigured, ChangeOver
<1>5. CASE CompleteRollout(b) \/ StartRunner(b) \/ StopRunner(b)
  BY <1>5 DEF CompleteRollout, StartRunner, StopRunner
<1>6. ASSUME NEW w \in Workflows, RollsOut(w, b)
      PROVE  apps'[a] = apps[a] /\ changing'[a] = changing[a] /\ granted'[a] = granted[a]
  <2>1. CASE InspectApplication(w, b) \/ RereadApplication(w, b)
    BY <2>1 DEF InspectApplication, RereadApplication, appVars
  <2>2. CASE PatchApplicationImage(w, b)
    BY <2>2 DEF PatchApplicationImage, PatchImage
  <2>3. CASE PostImageRollout(w, b)
    BY <2>3 DEF PostImageRollout, PostImage, RolledOut, ChangeOver
  <2> QED BY <1>6, <2>1, <2>2, <2>3 DEF RollsOut
<1> QED BY <1>1, <1>2, <1>3, <1>4, <1>5, <1>6 DEF ApplicationStep

\* Whatever crosses, an application has the ceiling that it was last granted.
CeilingKept(a) == apps[a].ceiling = granted[a].ceiling

LEMMA StepsKeepCeilings ==
    ASSUME Typed, NEW a \in Applications, CeilingKept(a), ApplicationStep(a) \/ \E w \in Workflows : RollsOut(w, a)
    PROVE  CeilingKept(a)'
<1>a. /\ apps \in [Applications -> Application] /\ apps[a] \in Application
      /\ granted \in [Applications -> [shape : Shapes \cup {None}, ceiling : 1 .. MaxCeiling]]
  BY DEF Typed, ApplicationsTyped
<1>k. apps' = apps /\ granted' = granted => CeilingKept(a)'
  BY DEF CeilingKept
<1>1. CASE ChangeCeiling(a) \/ Reconfigure(a, PassAt(a))
  BY <1>1, <1>k DEF ChangeCeiling, Reconfigure
<1>2. CASE PatchApplication(a)
  <2>1. PICK shown : apps' = [apps EXCEPT ![a].configured = shown, ![a].ceiling = changing[a].ceiling]
    BY <1>2 DEF PatchApplication
  <2>2. PICK shape : granted' = [granted EXCEPT ![a].ceiling = changing[a].ceiling, ![a].shape = shape]
    BY <1>2 DEF PatchApplication
  <2>3. apps'[a].ceiling = changing[a].ceiling
    BY <1>a, <2>1 DEF Application
  <2>4. granted'[a].ceiling = changing[a].ceiling
    BY <1>a, <2>2
  <2> QED BY <2>3, <2>4 DEF CeilingKept
<1>3. CASE PostReconfiguration(a)
  <2>1. granted' = granted /\ \E target : apps' = [apps EXCEPT ![a].target = target]
    BY <1>3 DEF PostReconfiguration, RolledOut
  <2> QED BY <1>a, <2>1 DEF CeilingKept, Application
<1>4. CASE Reconfigured(a)
  <2>1. apps' = apps /\ \E shape : granted' = [granted EXCEPT ![a].shape = shape]
    BY <1>4 DEF Reconfigured
  <2> QED BY <1>a, <2>1 DEF CeilingKept
<1>5. CASE CompleteRollout(a)
  <2>1. granted' = granted /\ apps' = [apps EXCEPT ![a].configured = apps[a].target, ![a].running = apps[a].target,
                            ![a].rolled = @ \cup {apps[a].target.image}, ![a].target = None]
    BY <1>5 DEF CompleteRollout
  <2>2. apps'[a].ceiling = apps[a].ceiling
    BY <1>a, <2>1 DEF Application
  <2> QED BY <2>1, <2>2 DEF CeilingKept
<1>6. CASE StartRunner(a) \/ StopRunner(a)
  <2>1. granted' = granted /\ \E live : apps' = [apps EXCEPT ![a].live = live]
    BY <1>6 DEF StartRunner, StopRunner
  <2> QED BY <1>a, <2>1 DEF CeilingKept, Application
<1>7. ASSUME NEW w \in Workflows, RollsOut(w, a) PROVE CeilingKept(a)'
  <2>1. CASE InspectApplication(w, a) \/ RereadApplication(w, a)
    BY <2>1, <1>k DEF InspectApplication, RereadApplication, appVars
  <2>2. CASE PatchApplicationImage(w, a)
    <3>1. granted' = granted /\ \E shown : apps' = [apps EXCEPT ![a].configured = shown]
      BY <2>2 DEF PatchApplicationImage, PatchImage
    <3> QED BY <1>a, <3>1 DEF CeilingKept, Application
  <2>3. CASE PostImageRollout(w, a)
    <3>1. \E target : apps' = [apps EXCEPT ![a].target = target]
      BY <2>3 DEF PostImageRollout, PostImage, RolledOut
    <3>2. granted' = granted \/ granted' = [granted EXCEPT ![a].shape = None]
      BY <2>3 DEF PostImageRollout, PostImage
    <3> QED BY <1>a, <3>1, <3>2 DEF CeilingKept, Application
  <2> QED BY <1>7, <2>1, <2>2, <2>3 DEF RollsOut
<1> QED BY <1>1, <1>2, <1>3, <1>4, <1>5, <1>6, <1>7 DEF ApplicationStep

Granted(a) == CeilingKept(a) /\ (a \in crossed \/ ShapeKept(a))
AllGranted == \A a \in Applications : Granted(a)

\* What has crossed stays so, and a step concerns one application.
LEMMA CrossedStays ==
    ASSUME [Next]_vars
    PROVE  crossed \subseteq crossed'
<1>1. ASSUME NEW a, NEW overlap, CrossedIf(a, overlap) PROVE crossed \subseteq crossed'
  BY <1>1 DEF CrossedIf
<1>2. ASSUME NEW a \in Applications, ApplicationStep(a) PROVE crossed \subseteq crossed'
  BY <1>1, <1>2 DEF ApplicationStep, ChangeCeiling, Reconfigure, PatchApplication, PostReconfiguration, Reconfigured,
                    CompleteRollout, StartRunner, StopRunner
<1>3. ASSUME NEW w \in Workflows, NEW a \in Applications, RollsOut(w, a) PROVE crossed \subseteq crossed'
  BY <1>1, <1>3 DEF RollsOut, InspectApplication, PatchApplicationImage, RereadApplication, PostImageRollout, appVars
<1>4. ASSUME NEW w \in Workflows, Copies(w) \/ Calls(w) \/ Rolls(w) \/ GiveUp(w) \/ Interrupted(w)
      PROVE  crossed \subseteq crossed'
  BY <1>4 DEF Copies, ClaimBootstrap, Copy, CopyBlob, Publish, Swap, Swapped, RecordBootstrap, Calls, Start, Started,
              Poll, Polled, Cleanup, CleanedUp, Rolls, BeginRollOut, EndPass, PassFails, GiveUp, Interrupted, appVars
<1>5. CASE SwapEnds \/ LeaseExpires \/ BuilderKeeps \/ UNCHANGED vars
  BY <1>5 DEF SwapEnds, LeaseExpires, BuilderKeeps, vars, appVars
<1> QED BY <1>2, <1>3, <1>4, <1>5, NextKinds

LEMMA StepsKeepGranted ==
    ASSUME Typed, AllGranted, [Next]_vars
    PROVE  AllGranted'
<1> SUFFICES ASSUME NEW a \in Applications PROVE Granted(a)'
  BY DEF AllGranted
<1>a. /\ ApplicationsTyped /\ CeilingKept(a) /\ pass \in [Workflows -> Pass \cup {None}]
      /\ a \notin crossed' => a \notin crossed /\ ShapeKept(a)
  BY CrossedStays DEF Typed, FlowsTyped, AllGranted, Granted
<1>u. ASSUME apps'[a] = apps[a], changing'[a] = changing[a], granted'[a] = granted[a],
             \A w \in Workflows : pass'[w] # None /\ pass'[w].app = a => pass'[w] = pass[w]
      PROVE  Granted(a)'
  BY <1>a, <1>u, Untouched DEF Granted, CeilingKept
<1>1. ASSUME NEW b \in Applications, ApplicationStep(b), ApplicationsKeep PROVE Granted(a)'
  <2>1. CASE b # a
    BY <1>1, <1>a, <1>u, <2>1, OneApplication DEF ApplicationsKeep, flowVars
  <2>2. CASE b = a
    BY <1>1, <1>a, <2>2, ApplicationsKeepShapes, StepsKeepCeilings DEF ApplicationsKeep, flowVars, Granted
  <2> QED BY <2>1, <2>2
<1>2. ASSUME NEW w \in Workflows, NEW b \in Applications, RollsOut(w, b) PROVE Granted(a)'
  <2>1. CASE b # a
    <3>1. \A v \in Workflows : pass'[v] # None /\ pass'[v].app = a => pass'[v] = pass[v]
      BY <1>2, <2>1, PassSteps, ImageNoneAssumption
    <3> QED BY <1>2, <1>a, <1>u, <2>1, <3>1, OneApplication
  <2>2. CASE b = a /\ pass[w].app = None /\ pass'[w].app = None
    <3>1. InspectApplication(w, a)
      BY <1>2, <2>2, ImageNoneAssumption DEF RollsOut, PatchApplicationImage, RereadApplication, PostImageRollout, Passes
    <3>2. UNCHANGED <<apps, changing, granted>>
      BY <3>1 DEF InspectApplication
    <3>3. \A v \in Workflows : pass'[v] # None /\ pass'[v].app = a => pass'[v] = pass[v]
      BY <1>2, <2>2, PassSteps, ImageNoneAssumption
    <3> QED BY <1>u, <3>2, <3>3
  <2>3. CASE b = a /\ ~(pass[w].app = None /\ pass'[w].app = None)
    BY <1>2, <1>a, <2>3, PassesKeepShapes, StepsKeepCeilings DEF Granted
  <2> QED BY <2>1, <2>2, <2>3
<1>3. ASSUME NEW w \in Workflows, Copies(w) \/ Calls(w) \/ Rolls(w) \/ GiveUp(w) \/ Interrupted(w) PROVE Granted(a)'
  <2>1. UNCHANGED <<apps, changing, granted>>
    BY <1>3 DEF Copies, ClaimBootstrap, Copy, CopyBlob, Publish, Swap, Swapped, RecordBootstrap, Calls, Start, Started,
                Poll, Polled, Cleanup, CleanedUp, Rolls, BeginRollOut, EndPass, PassFails, GiveUp, Interrupted, appVars
  <2>2. CASE pass' = pass
    BY <1>u, <2>1, <2>2
  <2>3. CASE BeginRollOut(w) /\ pass' # pass
    <3>1. PICK reissue : pass' = [pass EXCEPT ![w] = [left |-> Applications, app |-> None, pc |-> "inspect",
                            seen |-> None, reissue |-> reissue, skipped |-> FALSE]]
      BY <2>3 DEF BeginRollOut
    <3>2. pass'[w].app = None /\ \A v \in Workflows \ {w} : pass'[v] = pass[v]
      BY <1>a, <3>1
    <3> QED BY <1>u, <2>1, <3>2, ImageNoneAssumption
  <2>4. CASE pass' = [pass EXCEPT ![w] = None]
    BY <1>a, <1>u, <2>1, <2>4
  <2> QED BY <1>3, <2>2, <2>3, <2>4 DEF Copies, ClaimBootstrap, Copy, CopyBlob, Publish, Swap, Swapped, RecordBootstrap,
            Calls, Start, Started, Poll, Polled, Cleanup, CleanedUp, Rolls, EndPass, PassFails, GiveUp, Interrupted
<1>4. CASE UNCHANGED <<apps, changing, granted, pass>>
  BY <1>4, <1>u
<1> QED BY <1>1, <1>2, <1>3, <1>4, NextKinds DEF BuilderKeeps, appVars, flowVars, SwapEnds, LeaseExpires, vars

LEMMA InitIsGranted == Init => AllGranted
<1> SUFFICES ASSUME Init, NEW a \in Applications PROVE CeilingKept(a) /\ ShapeKept(a)
  BY DEF AllGranted, Granted
<1>1. /\ apps[a].configured.shape = FirstShape /\ apps[a].running.shape = FirstShape /\ apps[a].target = None
      /\ apps[a].ceiling = 1 /\ granted[a].shape = FirstShape /\ granted[a].ceiling = 1 /\ changing[a] = None
  BY DEF Init, ApplicationsInit
<1>2. \A w \in Workflows : pass[w] = None
  BY DEF Init
<1> QED BY <1>1, <1>2 DEF CeilingKept, ShapeKept, Agrees, Reshaped, ReconfigurationAt, RollingOut, Changing

\* Image rollouts take back no ceiling of the scheduler's, however their requests
\* interleave; and a machine shape only of an application where the one client
\* has read what the other, or a rollout, was about to change (patchApplication,
\* patchApplicationImage, createApplicationImageRollout).
THEOREM ChangesAreOnlyCrossed == Spec => []ChangesAreLostToOverlaps
<1>1. AllGranted => ChangesAreLostToOverlaps
  BY DEF AllGranted, Granted, CeilingKept, ShapeKept, Agrees, ChangesAreLostToOverlaps
<1> QED BY <1>1, InitIsTyped, InitIsGranted, StepsKeepTypes, StepsKeepGranted, PTL DEF Spec
=============================================================================
