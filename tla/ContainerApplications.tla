------------------------ MODULE ContainerApplications ------------------------
(***************************************************************************)
(* The runner applications at Cloudflare and the two clients that change   *)
(* them (cloudflare-containers.ts): the scheduler sets ceilings and the    *)
(* machine shape of custom slots, an image build rolls out a new image.    *)
(*                                                                         *)
(* Every change is a read followed by a PATCH, and by a rollout if the     *)
(* configuration changes; the API has no conditional writes.  A PATCH may  *)
(* or may not show in the configuration that the next GET returns, a       *)
(* rollout that completes applies its target, and a new rollout replaces   *)
(* the one before.                                                         *)
(***************************************************************************)
EXTENDS Integers, FiniteSets

CONSTANTS
    Applications, Images, Shapes,
    FirstImage, FirstShape, \* what was deployed
    RolledBefore,           \* the images that were ever rolled out
    MaxCeiling,             \* bound: machines of an application
    MaxChanges,             \* bound: changes the scheduler makes
    MaxRunners,             \* bound: runners that are ever started
    None

ASSUME ApplicationsAssumption ==
    /\ FirstImage \in RolledBefore /\ RolledBefore \subseteq Images /\ FirstShape \in Shapes
    /\ MaxCeiling \in Nat \ {0} /\ MaxChanges \in Nat /\ MaxRunners \in Nat

VARIABLES
    apps,     \* application -> what Cloudflare has
    changing, \* application -> the scheduler's change in progress, or None
    granted,  \* application -> shape and ceiling the scheduler has brought about
    crossed,  \* history: applications where one client has read what the other,
              \* or a rollout, was about to change
    changes, started

appVars == <<apps, changing, granted, crossed, changes, started>>

Configuration == [image : Images, shape : Shapes]
Application == [configured : Configuration, running : Configuration, ceiling : 1 .. MaxCeiling,
                live : BOOLEAN, target : Configuration \cup {None}, rolled : SUBSET Images]
Change == [pc : {"patch", "post", "await"}, seen : Configuration, shape : Shapes \cup {None},
           ceiling : 1 .. MaxCeiling]

ApplicationsInit ==
    LET first == [image |-> FirstImage, shape |-> FirstShape]
    IN  /\ apps = [a \in Applications |->
                    [configured |-> first, running |-> first, ceiling |-> 1, live |-> FALSE,
                     target |-> None, rolled |-> RolledBefore]]
        /\ changing = [a \in Applications |-> None]
        /\ granted = [a \in Applications |-> [shape |-> FirstShape, ceiling |-> 1]]
        /\ crossed = {} /\ changes = 0 /\ started = 0

RollingOut(a) == apps[a].target # None
CrossedIf(a, overlap) == crossed' = IF overlap THEN crossed \cup {a} ELSE crossed

\* A PATCH of the configuration is accepted; whether a GET shows it is open.
Configured(a, configuration) == {apps[a].configured, configuration}

\* POST rollouts: the one in progress, if any, is replaced.
RolledOut(a, configuration) == [apps EXCEPT ![a].target = configuration]

-----------------------------------------------------------------------------
(* The scheduler: one change of an application at a time. *)

Changing(a, pc) == changing[a] # None /\ changing[a].pc = pc
ChangeTo(a, pc) == [changing EXCEPT ![a].pc = pc]
ChangeOver(a) == [changing EXCEPT ![a] = None]

\* prepareRunnerApplication without resources, or reconcileRunnerApplicationCapacity,
\* up to the PATCH: another ceiling, with the configuration that was read.
ChangeCeiling(a) ==
    /\ changing[a] = None
    /\ changes < MaxChanges
    /\ \E ceiling \in 1 .. MaxCeiling \ {apps[a].ceiling} :
          changing' = [changing EXCEPT ![a] =
              [pc |-> "patch", seen |-> apps[a].configured, shape |-> None, ceiling |-> ceiling]]
    /\ changes' = changes + 1
    /\ UNCHANGED <<apps, granted, crossed, started>>

\* prepareRunnerApplication for an idle custom slot, with its exact ceiling:
\* it joins a rollout to that shape, gives up on any other rollout, is ready if
\* there is nothing to change, or goes on to the PATCH.  An image pass may be busy
\* with the application.
Reconfigure(a, busy) ==
    /\ changing[a] = None
    /\ changes < MaxChanges
    /\ ~apps[a].live
    /\ \E shape \in Shapes, ceiling \in 1 .. MaxCeiling :
          LET change(pc) == [changing EXCEPT ![a] =
                  [pc |-> pc, seen |-> apps[a].configured, shape |-> shape, ceiling |-> ceiling]]
          IN  IF RollingOut(a)
              THEN apps[a].target.shape = shape /\ changing' = change("await")
              ELSE /\ apps[a].configured.shape # shape \/ apps[a].ceiling # ceiling
                   /\ changing' = change("patch")
    /\ changes' = changes + 1
    /\ CrossedIf(a, busy)
    /\ UNCHANGED <<apps, granted, started>>

Reshaping(a) ==
    changing[a] # None /\ changing[a].shape \notin {None, changing[a].seen.shape}

\* patchApplication: the ceiling, and the whole configuration.
PatchApplication(a) ==
    /\ Changing(a, "patch")
    /\ LET patched == IF changing[a].shape = None THEN changing[a].seen
                      ELSE [changing[a].seen EXCEPT !.shape = changing[a].shape]
       IN  \E shown \in Configured(a, patched) :
              apps' = [apps EXCEPT ![a].configured = shown, ![a].ceiling = changing[a].ceiling]
    /\ granted' = [granted EXCEPT ![a].ceiling = changing[a].ceiling,
                                  ![a].shape = IF Reshaping(a) THEN None ELSE @]
    /\ changing' = IF Reshaping(a) THEN ChangeTo(a, "post") ELSE ChangeOver(a)
    /\ UNCHANGED <<crossed, changes, started>>

PostReconfiguration(a) ==
    /\ Changing(a, "post")
    /\ apps' = RolledOut(a, [changing[a].seen EXCEPT !.shape = changing[a].shape])
    /\ changing' = ChangeTo(a, "await")
    /\ UNCHANGED <<granted, crossed, changes, started>>

\* waitForRollout has an answer.
Reconfigured(a) ==
    /\ Changing(a, "await")
    /\ ~RollingOut(a)
    /\ granted' = [granted EXCEPT ![a].shape = changing[a].shape]
    /\ changing' = ChangeOver(a)
    /\ UNCHANGED <<apps, crossed, changes, started>>

-----------------------------------------------------------------------------
(* Cloudflare. *)

CompleteRollout(a) ==
    /\ RollingOut(a)
    /\ apps' = [apps EXCEPT ![a].configured = apps[a].target, ![a].running = apps[a].target,
                            ![a].rolled = @ \cup {apps[a].target.image}, ![a].target = None]
    /\ CrossedIf(a, Changing(a, "patch"))
    /\ UNCHANGED <<changing, granted, changes, started>>

\* Jobs run on a slot that is not being reconfigured.
StartRunner(a) ==
    /\ ~apps[a].live /\ started < MaxRunners
    /\ changing[a] # None => changing[a].shape = None
    /\ apps' = [apps EXCEPT ![a].live = TRUE]
    /\ started' = started + 1
    /\ UNCHANGED <<changing, granted, crossed, changes>>

StopRunner(a) ==
    /\ apps[a].live
    /\ apps' = [apps EXCEPT ![a].live = FALSE]
    /\ UNCHANGED <<changing, granted, crossed, changes, started>>

-----------------------------------------------------------------------------
(* rolloutRunnerApplicationImages, one application: what the image build     *)
(* does with it.  A pass keeps what it read.                                 *)

\* There is nothing to do: the image is configured, and was rolled out once.
\* A pass that may follow an interrupted one does not trust this history.
AlreadyRolled(a, image, reissue) ==
    /\ ~reissue
    /\ apps[a].configured.image = image /\ image \in apps[a].rolled

\* The verdict of the read before the PATCH.
InspectedAs(a, image, reissue) ==
    IF RollingOut(a) THEN "skip"
    ELSE IF AlreadyRolled(a, image, reissue) THEN "done"
    ELSE IF apps[a].live THEN "skip"
    ELSE IF apps[a].configured.image # image THEN "patch" ELSE "reread"

\* Mutant: the PATCH of an image sends the ceiling that was read.
PatchImageAndCeiling(a, seen, image) ==
    \E shown \in Configured(a, [seen.configured EXCEPT !.image = image]) :
        apps' = [apps EXCEPT ![a].configured = shown, ![a].ceiling = seen.ceiling]

\* patchApplicationImage: the configuration that was read, with the image.
PatchImage(a, seen, image) ==
    \E shown \in Configured(a, [seen.configured EXCEPT !.image = image]) :
        apps' = [apps EXCEPT ![a].configured = shown]

\* createApplicationImageRollout, of the configuration read after the PATCH.  A
\* reconfiguration that waits for the rollout that is replaced fails.
PostImage(a, seen, image) ==
    /\ apps' = RolledOut(a, [seen.configured EXCEPT !.image = image])
    /\ changing' = IF Changing(a, "await") THEN ChangeOver(a) ELSE changing
    /\ granted' = IF Changing(a, "await") THEN [granted EXCEPT ![a].shape = None] ELSE granted
=============================================================================
