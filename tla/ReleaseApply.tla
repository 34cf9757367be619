------------------------------ MODULE ReleaseApply ------------------------------
(***************************************************************************)
(* scripts/release_orchestrator.py apply: releases every unit that changed *)
(* on origin/main since its latest tag.  One operator runs it from one set *)
(* of clones against repositories that others go on pushing to.  A run     *)
(* plans from the clones' refs, asks GitHub whether the inputs are green,  *)
(* and then edits, commits, pushes and tags unit after unit, the stack     *)
(* with its pinned component refs last.  Any git call may fail and ends    *)
(* the run where it is; a later run starts from what that left.            *)
(*                                                                         *)
(* A version is a natural number and its bump the successor.  A commit of  *)
(* main is named by its position.                                          *)
(***************************************************************************)
EXTENDS Integers, Sequences, FiniteSets, SequencesExt

CONSTANTS
    Repo,         \* REPOS
    Order,        \* RELEASE_ORDER, the stack last
    RepoOf,       \* the repository of each unit
    Trigger,      \* its trigger_units
    Edits,        \* the units whose files its release commit touches
    Pinned,       \* the repositories whose refs the stack's manifest pins
    AlwaysNeeded, \* required whatever is planned: xian-configs
    Skip,         \* the choices of --skip-unit
    MaxDevelop,   \* bound on the commits others push
    MaxRuns       \* bound on the runs that get past their plan

Unit == Range(Order)
Stack == Last(Order)
StackRepo == RepoOf[Stack]
Units(r) == {u \in Unit : RepoOf[u] = r}

ASSUME OrderAssumption == Order \in Seq(Unit) /\ Order # <<>> /\ IsInjective(Order)
ASSUME UnitAssumption ==
    /\ RepoOf \in [Unit -> Repo] /\ Trigger \in [Unit -> SUBSET Unit]
    /\ Edits \in [Unit -> SUBSET Unit]
    /\ \A u \in Unit : u \in Edits[u] /\ Edits[u] \subseteq Units(RepoOf[u])
    /\ Pinned \subseteq Repo \ {StackRepo} /\ AlwaysNeeded \subseteq Repo
    /\ Skip \subseteq SUBSET (Unit \ {Stack})
ASSUME BoundAssumption == MaxDevelop \in Nat /\ MaxRuns \in Nat

VARIABLES
    main,   \* the commits of every repository's main on GitHub
    clone,  \* the operator's clones: HEAD and origin/main, and how clean they are
    tags,   \* the tags in the clones, and whether they were pushed
    run,    \* the run under way, with its local variables
    runs    \* history: runs that got past their plan

vars == <<main, clone, tags, run, runs>>

NoVersion == 0
FirstVersion == 2

\* A commit: the units whose release-relevant files it changes, the version each
\* unit has in the source, the refs in release-manifest.json, and whether apply
\* made it.
FirstCommit(r) ==
    [touches |-> Units(r), version |-> [u \in Units(r) |-> FirstVersion],
     pins |-> [q \in Pinned |-> 1], release |-> FALSE]

NoRun == [pc |-> "idle", plans |-> <<>>, i |-> 1, checked |-> [r \in Repo |-> 0]]

\* every unit has been released once
Init ==
    /\ main = [r \in Repo |-> <<FirstCommit(r)>>]
    /\ clone = [r \in Repo |-> [head |-> 1, ahead |-> <<>>, dirty |-> FALSE, origin |-> 1]]
    /\ tags = {[unit |-> u, version |-> FirstVersion, at |-> 1, pushed |-> TRUE] : u \in Unit}
    /\ run = NoRun
    /\ runs = 0

\* what is checked out: a commit that could not be pushed, or one of main
Source(r) == IF clone[r].ahead # <<>> THEN clone[r].ahead[1] ELSE main[r][clone[r].head]

--------------------------------------------------------------------------------
(* plan_releases.  origin is the position of every origin/main.              *)

\* git describe --abbrev=0: the tag nearest to origin/main
TagsOf(u, origin) == {t \in tags : t.unit = u /\ t.at <= origin[RepoOf[u]]}
LatestTag(u, origin) ==
    CHOOSE t \in TagsOf(u, origin) :
        \A s \in TagsOf(u, origin) : s.at < t.at \/ (s.at = t.at /\ s.version <= t.version)

TagExists(u, version) == \E t \in tags : t.unit = u /\ t.version = version

\* relevant_changed_files
Changed(u, origin) ==
    \E k \in (LatestTag(u, origin).at + 1)..origin[RepoOf[u]] : u \in main[RepoOf[u]][k].touches

Planned(plans) == {plans[i].unit : i \in DOMAIN plans}

\* build_stack_manifest_updates: the HEAD of a component that is released too
PinTargets(plans, origin) ==
    [r \in Pinned |-> IF Units(r) \cap Planned(plans) # {} THEN clone[r].head ELSE origin[r]]

Reason(u, plans, origin) ==
    \/ Changed(u, origin)
    \/ Trigger[u] \cap Planned(plans) # {}
    \/ /\ u = Stack
       /\ \/ PinTargets(plans, origin) # Source(StackRepo).pins
          \/ \E v \in Planned(plans) : RepoOf[v] \in Pinned

\* Operators named ...Faulty are the operator they precede with one plausible
\* mistake; no specification uses them.  They show that a property notices it.

\* whatever version is on main is taken, unless it is tagged
TargetVersionFaulty(u, latest) ==
    LET source == IF u = Stack THEN latest ELSE Source(RepoOf[u]).version[u]
    IN  IF source # latest THEN source ELSE latest + 1

\* choose_target_version; none for a source that is behind its latest tag
TargetVersion(u, latest) ==
    LET source == IF u = Stack THEN latest ELSE Source(RepoOf[u]).version[u]
    IN  CASE source > latest -> source
          [] source = latest -> latest + 1
          [] source < latest -> NoVersion

\* one turn of the loop: acc.plans so far, acc.failed once a ReleaseError is raised
PlanUnit(acc, u, origin, skip) ==
    LET target == TargetVersion(u, LatestTag(u, origin).version)
    IN  IF u \in skip \/ ~Reason(u, acc.plans, origin) THEN acc
        ELSE [plans  |-> Append(acc.plans, [unit |-> u, version |-> target]),
              failed |-> acc.failed \/ target = NoVersion \/ TagExists(u, target)]

\* the plans once the loop has been through the first i units of the order
PlansUpTo(origin, skip) ==
    LET acc[i \in 0..Len(Order)] == IF i = 0 THEN [plans |-> <<>>, failed |-> FALSE]
                                    ELSE PlanUnit(acc[i - 1], Order[i], origin, skip)
    IN  acc

PlanReleases(origin, skip) == PlansUpTo(origin, skip)[Len(Order)]

--------------------------------------------------------------------------------
(* apply_plan.                                                               *)

\* required_repos_for_apply
Required(plans) ==
    AlwaysNeeded \cup {RepoOf[u] : u \in Planned(plans)}
                 \cup {RepoOf[d] : d \in UNION {Trigger[u] : u \in Planned(plans)}}

\* a clone that is behind is taken too
ReadyFaulty(r, origin) == ~clone[r].dirty /\ clone[r].ahead = <<>>

\* ensure_apply_ready, for a clone on main
Ready(r, origin) ==
    ~clone[r].dirty /\ clone[r].ahead = <<>> /\ clone[r].head = origin[r]

\* main: fetch, unless --no-fetch is given, and plan.  The repositories are read
\* one after the other, which makes no difference to what each of them shows.
Apply ==
    /\ run.pc = "idle"
    /\ runs < MaxRuns
    /\ \E skip \in Skip, fetch \in BOOLEAN :
          LET origin == [r \in Repo |-> IF fetch THEN Len(main[r]) ELSE clone[r].origin]
              plan == PlanReleases(origin, skip)
              plans == plan.plans
          IN  /\ clone' = [r \in Repo |-> [clone[r] EXCEPT !.origin = origin[r]]]
              /\ IF plan.failed \/ plans = <<>> \/ \E r \in Required(plans) : ~Ready(r, origin)
                 THEN UNCHANGED <<run, runs>>
                 ELSE /\ run' = [NoRun EXCEPT !.pc = "checks", !.plans = plans]
                      /\ runs' = runs + 1
    /\ UNCHANGED <<main, tags>>

\* ensure_github_checks_green; GitHub may as well say no (Abort)
CheckGreen ==
    /\ run.pc = "checks"
    /\ run' = [run EXCEPT !.pc = "sync",
                          !.checked = [r \in Repo |->
                              IF r \in Required(run.plans) THEN clone[r].origin ELSE 0]]
    /\ UNCHANGED <<main, clone, tags, runs>>

Plan == run.plans[run.i]
PlanRepo == RepoOf[Plan.unit]
Goto(pc) == run' = [run EXCEPT !.pc = pc]

Origin == [r \in Repo |-> clone[r].origin]

\* the refs that were current when the release was planned
NewPinsFaulty ==
    [r \in Pinned |-> IF run.checked[r] # 0 THEN run.checked[r] ELSE clone[r].origin]

NewPins == PinTargets(run.plans, Origin)

\* sync_unit_files: the release commit, if anything has to be edited
Prepared ==
    LET old == Source(PlanRepo)
    IN  [touches |-> Edits[Plan.unit],
         version |-> IF Plan.unit = Stack THEN old.version
                     ELSE [old.version EXCEPT ![Plan.unit] = Plan.version],
         pins    |-> IF Plan.unit = Stack THEN NewPins ELSE old.pins,
         release |-> TRUE]

NeedsEdit ==
    LET old == Source(PlanRepo)
    IN  IF Plan.unit = Stack THEN old.pins # NewPins ELSE old.version[Plan.unit] # Plan.version

\* a unit with trigger_units also names their versions, which may be new to it
SyncFiles ==
    /\ run.pc = "sync"
    /\ NeedsEdit \/ Trigger[Plan.unit] # {}
    /\ clone' = [clone EXCEPT ![PlanRepo].dirty = TRUE]
    /\ Goto("commit")
    /\ UNCHANGED <<main, tags, runs>>

NothingToSync ==
    /\ run.pc = "sync"
    /\ ~NeedsEdit
    /\ Goto("tag")
    /\ UNCHANGED <<main, clone, tags, runs>>

Commit ==
    /\ run.pc = "commit"
    /\ clone' = [clone EXCEPT ![PlanRepo] =
           [head |-> @.head, ahead |-> <<Prepared>>, dirty |-> FALSE, origin |-> @.origin]]
    /\ Goto("push")
    /\ UNCHANGED <<main, tags, runs>>

\* git push origin main
Push ==
    /\ run.pc = "push"
    /\ clone[PlanRepo].head = Len(main[PlanRepo])
    /\ main' = [main EXCEPT ![PlanRepo] = @ \o clone[PlanRepo].ahead]
    /\ clone' = [clone EXCEPT ![PlanRepo] =
           [head |-> @.head + 1, ahead |-> <<>>, dirty |-> @.dirty, origin |-> @.head + 1]]
    /\ Goto("tag")
    /\ UNCHANGED <<tags, runs>>

\* a rejected push is not noticed
PushRejectedFaulty ==
    /\ run.pc = "push"
    /\ clone[PlanRepo].head < Len(main[PlanRepo])
    /\ Goto("tag")
    /\ UNCHANGED <<main, clone, tags, runs>>

\* someone else has pushed since the fetch
PushRejected ==
    /\ run.pc = "push"
    /\ clone[PlanRepo].head < Len(main[PlanRepo])
    /\ run' = NoRun
    /\ UNCHANGED <<main, clone, tags, runs>>

Tag ==
    /\ run.pc = "tag"
    /\ IF TagExists(Plan.unit, Plan.version)
       THEN run' = NoRun /\ UNCHANGED tags
       ELSE /\ tags' = tags \cup {[unit |-> Plan.unit, version |-> Plan.version,
                                   at |-> clone[PlanRepo].head, pushed |-> FALSE]}
            /\ Goto("push_tag")
    /\ UNCHANGED <<main, clone, runs>>

PushTag ==
    /\ run.pc = "push_tag"
    /\ tags' = {IF t.unit = Plan.unit /\ t.version = Plan.version THEN [t EXCEPT !.pushed = TRUE]
                ELSE t : t \in tags}
    /\ run' = IF run.i = Len(run.plans) THEN NoRun ELSE [run EXCEPT !.pc = "sync", !.i = @ + 1]
    /\ UNCHANGED <<main, clone, runs>>

\* a git or gh call fails, a check is not green, or the run is interrupted
Abort ==
    /\ run.pc # "idle"
    /\ run' = NoRun
    /\ UNCHANGED <<main, clone, tags, runs>>

--------------------------------------------------------------------------------
(* The others, and the operator between two runs.                            *)

\* a pull request is merged: it may touch a unit, and may change its version too
Develop(r) ==
    /\ Cardinality({k \in 2..Len(main[r]) : ~main[r][k].release}) < MaxDevelop
    /\ \E touches \in {{}} \cup {{u} : u \in Units(r)}, more \in {-1, 0, 1} :
          LET last == Last(main[r])
              version == [u \in Units(r) |->
                             last.version[u] + IF u \in touches \ {Stack} THEN more ELSE 0]
          IN  main' = [main EXCEPT ![r] =
                  Append(@, [touches |-> touches, version |-> version, pins |-> last.pins,
                             release |-> FALSE])]
    /\ UNCHANGED <<clone, tags, run, runs>>

\* the operator cleans a clone and brings it to the tip of main
Pull(r) ==
    /\ run.pc = "idle"
    /\ clone' = [clone EXCEPT ![r] = [head |-> Len(main[r]), ahead |-> <<>>, dirty |-> FALSE,
                                      origin |-> Len(main[r])]]
    /\ UNCHANGED <<main, tags, run, runs>>

Next ==
    \/ Apply \/ CheckGreen \/ SyncFiles \/ NothingToSync \/ Commit \/ Push \/ PushRejected
    \/ Tag \/ PushTag \/ Abort
    \/ \E r \in Repo : Develop(r) \/ Pull(r)

Spec == Init /\ [][Next]_vars

--------------------------------------------------------------------------------
(* Properties.                                                               *)

\* A tag is on main, in the clones as on GitHub, and the source it is on has the
\* version it names: what CI builds from a pushed tag.
TagsReleasable ==
    \A t \in tags :
        /\ t.at <= Len(main[RepoOf[t.unit]])
        /\ t.unit # Stack => main[RepoOf[t.unit]][t.at].version[t.unit] = t.version

\* A version is tagged once, and a higher one never contains less than a lower.
VersionsAscend ==
    \A s, t \in tags : s.unit = t.unit /\ s.version <= t.version => s.at <= t.at /\ (s.version = t.version => s = t)

PushedTag == {t \in tags' : t.pushed} \ {t \in tags : t.pushed}

\* from position k on, there is nothing but what apply itself has committed
OnlyReleases(r, from, to) == from \in 1..to /\ \A k \in (from + 1)..to : main[r][k].release

\* However the run was planned, interrupted and resumed, what it tags is a commit
\* it has seen green with no more than release commits on top.
TaggedIsGreen ==
    [][\A t \in PushedTag :
          OnlyReleases(RepoOf[t.unit], run.checked[RepoOf[t.unit]], t.at)]_vars

\* The refs a released stack pins contain every release of the components before it.
PinsReleased ==
    [][\A t \in PushedTag :
          t.unit = Stack =>
              \A s \in tags :
                  RepoOf[s.unit] \in Pinned =>
                      s.at <= main[StackRepo][t.at].pins[RepoOf[s.unit]]]_vars

--------------------------------------------------------------------------------
(* What docs/RELEASES.md says of the checks; the code falls short of it.     *)

\* "checks the latest GitHub check runs for every `origin/main` ref it will use":
\* also for the refs it pins of components that it does not release.
UsedRefsChecked ==
    [][\A t \in PushedTag :
          t.unit = Stack =>
              \A r \in Pinned :
                  OnlyReleases(r, run.checked[r], main[StackRepo][t.at].pins[r])]_vars
================================================================================
