--------------------------- MODULE ReleaseApplyProofs ---------------------------
(***************************************************************************)
(* Proofs about ReleaseApply, for every set of repositories and units and  *)
(* any number of runs.  The inductive invariant IInv says of the store (the *)
(* mains, the clones and the tags) what the tags promise, and of the run   *)
(* under way what its earlier steps have established for its later ones:   *)
(* the planned repositories are as they were fetched, their versions are   *)
(* still to be tagged, and what will be tagged is green and has the right  *)
(* version or pins.                                                        *)
(*                                                                         *)
(* That the loop of plan_releases establishes the second is shown by a     *)
(* least counterexample: the smallest number of turns after which it fails. *)
(***************************************************************************)
EXTENDS ReleaseApply, WellFoundedInduction, TLAPS

LEMMA LeastNumber ==
  ASSUME NEW T \in SUBSET Nat, T # {}
  PROVE  \E x \in T : \A y \in T : x <= y
<1>1. PICK x \in T : \A y \in T : ~(<<y, x>> \in OpToRel(<, Nat))
  <2>1. IsWellFoundedOn(OpToRel(<, Nat), Nat)
    BY NatLessThanWellFounded
  <2> QED
    BY <2>1, WFMin
<1>2. \A y \in T : ~(y < x)
  BY <1>1 DEF OpToRel
<1> QED
  BY <1>2

\* the loop of plan_releases: Loop(f, i, ..) is its i-th value when f has those before
NoPlans == [plans |-> <<>>, failed |-> FALSE]
Loop(f, i, origin, skip) == IF i = 0 THEN NoPlans ELSE PlanUnit(f[i - 1], Order[i], origin, skip)
IsLoop(f, n, origin, skip) == f = [i \in 0..n |-> Loop(f, i, origin, skip)]

LEMMA LoopExists ==
  ASSUME NEW origin, NEW skip, NEW n \in Nat PROVE \E f : IsLoop(f, n, origin, skip)
<1> DEFINE T == {k \in Nat : ~ \E f : IsLoop(f, k, origin, skip)}
<1>1. SUFFICES ASSUME T # {} PROVE FALSE
  OBVIOUS
<1>2. PICK m \in T : \A y \in T : m <= y
  BY <1>1, LeastNumber
<1>3. CASE m = 0
  <2>1. PICK f : f = [i \in 0..0 |-> NoPlans]
    OBVIOUS
  <2>2. IsLoop(f, 0, origin, skip)
    BY <2>1 DEF IsLoop, Loop
  <2> QED
    BY <1>3, <2>2
<1>4. CASE m # 0
  <2>1. m - 1 \in Nat /\ m - 1 \notin T /\ m \in Nat
    BY <1>2, <1>4
  <2>2. PICK f : IsLoop(f, m - 1, origin, skip)
    BY <2>1
  <2>3. PICK v : v = PlanUnit(f[m - 1], Order[m], origin, skip)
    OBVIOUS
  <2>4. PICK g : g = [i \in 0..m |-> IF i = m THEN v ELSE f[i]]
    OBVIOUS
  <2>5. ASSUME NEW i \in 0..m PROVE g[i] = Loop(g, i, origin, skip)
    <3>1. CASE i = m
      <4>1. g[m - 1] = f[m - 1] /\ g[m] = v
        BY <2>1, <2>4
      <4> QED
        BY <1>4, <2>3, <3>1, <4>1 DEF Loop
    <3>2. CASE i # m /\ i # 0
      <4>1. i \in 0..(m - 1) /\ i - 1 \in 0..(m - 1)
        BY <2>1, <3>2
      <4>2. g[i] = f[i] /\ g[i - 1] = f[i - 1]
        BY <2>1, <2>4, <3>2, <4>1
      <4>3. f[i] = Loop(f, i, origin, skip)
        BY <2>2, <4>1 DEF IsLoop
      <4> QED
        BY <3>2, <4>2, <4>3 DEF Loop
    <3>3. CASE i # m /\ i = 0
      <4>1. 0 \in 0..m /\ 0 \in 0..(m - 1)
        BY <2>1
      <4>2. f[0] = Loop(f, 0, origin, skip)
        BY <2>2, <4>1 DEF IsLoop
      <4>3. g[0] = f[0]
        BY <1>4, <2>4, <4>1
      <4> QED
        BY <3>3, <4>2, <4>3 DEF Loop
    <3> QED
      BY <3>1, <3>2, <3>3
  <2>6. IsLoop(g, m, origin, skip)
    <3>1. g = [i \in 0..m |-> g[i]]
      BY <2>4
    <3> QED
      BY <2>5, <3>1 DEF IsLoop
  <2> QED
    BY <2>6
<1> QED
  BY <1>3, <1>4

LEMMA PlansLoop ==
  ASSUME NEW origin, NEW skip
  PROVE  IsLoop(PlansUpTo(origin, skip), Len(Order), origin, skip)
<1>1. Len(Order) \in Nat
  BY OrderAssumption
<1>2. PICK f : IsLoop(f, Len(Order), origin, skip)
  BY <1>1, LoopExists
<1>3. PlansUpTo(origin, skip) = CHOOSE g : IsLoop(g, Len(Order), origin, skip)
  BY DEF PlansUpTo, IsLoop, Loop, NoPlans
<1> QED
  BY <1>2, <1>3

--------------------------------------------------------------------------------
(* The invariant.                                                            *)

\* types of the records
Commits(r) == [touches : SUBSET Unit, version : [Units(r) -> Int], pins : [Pinned -> Nat],
               release : BOOLEAN]
CloneRecords(r) == [head : Nat, ahead : Seq(Commits(r)), dirty : BOOLEAN, origin : Nat]
TagRecord == [unit : Unit, version : Int, at : Nat, pushed : BOOLEAN]
PlanRecord == [unit : Unit, version : Int]

Mains == main = [r \in Repo |-> main[r]] /\ \A r \in Repo : main[r] \in Seq(Commits(r))
Clones == /\ clone = [r \in Repo |-> clone[r]]
          /\ \A r \in Repo : /\ clone[r] \in CloneRecords(r)
                             /\ clone[r].head \in 1..Len(main[r])
                             /\ clone[r].origin \in 1..Len(main[r])
Tags == /\ tags \subseteq TagRecord
        /\ \E b \in Int : \A t \in tags : t.version <= b
        /\ \A u \in Unit : \E t \in tags : t.unit = u
        /\ \A t \in tags : t.at \in 1..clone[RepoOf[t.unit]].origin

\* of the store
StoreInv == Mains /\ Clones /\ Tags /\ TagsReleasable /\ VersionsAscend

\* of the run under way, from its checks to its last tag
PlannedRepo == {RepoOf[run.plans[k].unit] : k \in DOMAIN run.plans}

Phase == {"idle", "checks", "sync", "commit", "push", "tag", "push_tag"}
Runs == run \in [pc : Phase, plans : Seq(PlanRecord), i : Nat, checked : [Repo -> Nat]]
DistinctPlans(plans) == \A j, k \in DOMAIN plans : plans[j].unit = plans[k].unit => j = k
Progress == run.pc # "idle" => run.i \in DOMAIN run.plans /\ DistinctPlans(run.plans)
UpToDate == run.pc # "idle" =>
               \A r \in PlannedRepo :
                  /\ clone[r].head = clone[r].origin
                  /\ clone[r].ahead = <<>> \/ (run.pc = "push" /\ r = PlanRepo)
NewVersion(plan) == \A t \in tags : t.unit = plan.unit => t.version < plan.version
Newer == run.pc # "idle" =>
            \A k \in DOMAIN run.plans :
               k > run.i \/ (k = run.i /\ run.pc # "push_tag") => NewVersion(run.plans[k])
Green == run.pc \notin {"idle", "checks"} =>
            \A r \in PlannedRepo : OnlyReleases(r, run.checked[r], clone[r].head)
Right(c) == IF Plan.unit = Stack THEN \A r \in Pinned : c.pins[r] = clone[r].origin
            ELSE c.version[Plan.unit] = Plan.version
AtPush == run.pc = "push" =>
             /\ Len(clone[PlanRepo].ahead) = 1
             /\ clone[PlanRepo].ahead[1].release /\ Right(clone[PlanRepo].ahead[1])
AtTag == run.pc \in {"tag", "push_tag"} => Right(main[PlanRepo][clone[PlanRepo].head])
AtPushTag == run.pc = "push_tag" =>
                \A t \in tags : t.unit = Plan.unit /\ t.version = Plan.version =>
                                   t.at = clone[PlanRepo].head

RunInv == Runs /\ Progress /\ UpToDate /\ Newer /\ Green /\ AtPush /\ AtTag /\ AtPushTag

IInv == StoreInv /\ RunInv

LEMMA Orders ==
  /\ Len(Order) \in Nat \ {0} /\ \A i \in 1..Len(Order) : Order[i] \in Unit
  /\ \A i, j \in 1..Len(Order) : Order[i] = Order[j] => i = j
  /\ Stack \in Unit /\ StackRepo \in Repo
<1>1. Order \in Seq(Unit) /\ Order # <<>>
  BY OrderAssumption
<1>2. Len(Order) \in Nat \ {0} /\ \A i \in 1..Len(Order) : Order[i] \in Unit
  BY <1>1
<1>3. Stack = Order[Len(Order)]
  BY DEF Stack, Last
<1>4. \A i, j \in DOMAIN Order : Order[i] = Order[j] => i = j
  BY OrderAssumption DEF IsInjective
<1>5. DOMAIN Order = 1..Len(Order)
  BY <1>1
<1> QED
  BY <1>2, <1>3, <1>4, <1>5, UnitAssumption DEF StackRepo

LEMMA InitInv == Init => IInv
<1> SUFFICES ASSUME Init PROVE IInv
  OBVIOUS
<1> DEFINE FirstTag(u) == [unit |-> u, version |-> FirstVersion, at |-> 1, pushed |-> TRUE]
<1>1. /\ main = [r \in Repo |-> <<FirstCommit(r)>>]
      /\ clone = [r \in Repo |-> [head |-> 1, ahead |-> <<>>, dirty |-> FALSE, origin |-> 1]]
      /\ tags = {FirstTag(u) : u \in Unit} /\ run = NoRun
  BY DEF Init
<1>2. \A r \in Repo : FirstCommit(r) \in Commits(r)
  BY DEF FirstCommit, Commits, FirstVersion, Units
<1>3. \A r \in Repo : main[r] \in Seq(Commits(r)) /\ Len(main[r]) = 1 /\ main[r][1] = FirstCommit(r)
  BY <1>1, <1>2
<1>4. Mains
  BY <1>1, <1>3 DEF Mains
<1>5. \A r \in Repo : clone[r] = [head |-> 1, ahead |-> <<>>, dirty |-> FALSE, origin |-> 1]
  BY <1>1
<1>6. Clones
  <2>1. \A r \in Repo : <<>> \in Seq(Commits(r))
    OBVIOUS
  <2>2. ASSUME NEW r \in Repo PROVE clone[r] \in CloneRecords(r)
    <3> DEFINE Q == Seq(Commits(r))
    <3>1. clone[r] = [head |-> 1, ahead |-> <<>>, dirty |-> FALSE, origin |-> 1] /\ <<>> \in Q
      BY <1>5, <2>1
    <3>2. CloneRecords(r) = [head : Nat, ahead : Q, dirty : BOOLEAN, origin : Nat]
      BY DEF CloneRecords
    <3> HIDE DEF Q
    <3> QED
      BY <3>1, <3>2
  <2>3. \A r \in Repo : clone[r].head \in 1..Len(main[r]) /\ clone[r].origin \in 1..Len(main[r])
    BY <1>3, <1>5
  <2>4. clone = [r \in Repo |-> clone[r]]
    BY <1>1
  <2> QED
    BY <2>2, <2>3, <2>4 DEF Clones
<1>7. Tags
  <2>2. \E b \in Int : \A t \in tags : t.version <= b
    <3>1. \A t \in tags : t.version <= 2
      BY <1>1 DEF FirstVersion
    <3> QED
      BY <3>1
  <2>3. \A u \in Unit : FirstTag(u) \in tags /\ FirstTag(u).unit = u
    BY <1>1
  <2>4. ASSUME NEW t \in tags PROVE t \in TagRecord /\ t.at = 1
    <3>1. PICK u \in Unit : t = FirstTag(u)
      BY <1>1
    <3> QED
      BY <3>1 DEF TagRecord, FirstVersion
  <2>5. \A u \in Unit : RepoOf[u] \in Repo
    BY UnitAssumption
  <2>6. \A t \in tags : t.at \in 1..clone[RepoOf[t.unit]].origin
    BY <1>5, <2>4, <2>5 DEF TagRecord
  <2> QED
    BY <2>2, <2>3, <2>4, <2>6 DEF Tags
<1>8. TagsReleasable /\ VersionsAscend
  <2>1. ASSUME NEW t \in tags PROVE t.unit \in Unit /\ t = FirstTag(t.unit) /\ t.at = 1 /\ t.version = 2
    <3>1. PICK u \in Unit : t = FirstTag(u)
      BY <1>1
    <3> QED
      BY <3>1 DEF FirstVersion
  <2>2. \A u \in Unit : RepoOf[u] \in Repo /\ u \in Units(RepoOf[u])
    BY UnitAssumption DEF Units
  <2>3. ASSUME NEW u \in Unit PROVE main[RepoOf[u]][1].version[u] = 2 /\ Len(main[RepoOf[u]]) = 1
    <3>1. main[RepoOf[u]][1] = FirstCommit(RepoOf[u]) /\ Len(main[RepoOf[u]]) = 1
      BY <1>3, <2>2
    <3>2. FirstCommit(RepoOf[u]).version = [v \in Units(RepoOf[u]) |-> 2]
      BY DEF FirstCommit, FirstVersion
    <3> QED
      BY <2>2, <3>1, <3>2
  <2>4. TagsReleasable
    BY <2>1, <2>3 DEF TagsReleasable
  <2>5. VersionsAscend
    <3>1. \A s, t \in tags : s.unit = t.unit => s = t
      BY <2>1
    <3>2. \A t \in tags : t.at <= t.at
      BY <2>1
    <3> QED
      BY <3>1, <3>2 DEF VersionsAscend
  <2> QED
    BY <2>4, <2>5
<1>9. run = NoRun /\ NoRun.pc = "idle"
  BY <1>1 DEF NoRun
<1>10. RunInv
  <2>1. Runs
    <3> DEFINE P == Seq(PlanRecord)
    <3>1. run = [pc |-> "idle", plans |-> <<>>, i |-> 1, checked |-> [r \in Repo |-> 0]] /\ <<>> \in P
      BY <1>9 DEF NoRun
    <3>2. Runs <=> run \in [pc : Phase, plans : P, i : Nat, checked : [Repo -> Nat]]
      BY DEF Runs
    <3>3. [r \in Repo |-> 0] \in [Repo -> Nat]
      OBVIOUS
    <3> HIDE DEF P
    <3>4. "idle" \in Phase /\ 1 \in Nat
      BY DEF Phase
    <3> QED
      BY <3>1, <3>2, <3>3, <3>4
  <2> QED
    BY <1>9, <2>1 DEF RunInv, Progress, UpToDate, Newer, Green, AtPush, AtTag, AtPushTag
<1> QED
  BY <1>4, <1>6, <1>7, <1>8, <1>10 DEF IInv, StoreInv

--------------------------------------------------------------------------------
(* What a run plans.                                                         *)

\* origin as the plan reads it: not behind what the clones know
Known(origin) == \A u \in Unit : \A t \in tags : t.unit = u => t.at <= origin[RepoOf[u]]

\* git describe finds the highest version
LEMMA Latest ==
  ASSUME Tags, VersionsAscend, NEW origin, Known(origin), NEW u \in Unit
  PROVE  /\ LatestTag(u, origin) \in TagRecord
         /\ \A t \in tags : t.unit = u => t.version <= LatestTag(u, origin).version
<1> DEFINE S == TagsOf(u, origin)
           Nearest(t) == \A s \in S : s.at < t.at \/ (s.at = t.at /\ s.version <= t.version)
<1>1. S = {t \in tags : t.unit = u}
  BY DEF TagsOf, Known
<1>2. \A t \in S : t \in TagRecord /\ t.version \in Int /\ t.at \in Nat
  BY <1>1 DEF Tags, TagRecord
<1>3. \E t \in S : Nearest(t)
  <2>1. PICK b \in Int : \A t \in tags : t.version <= b
    BY DEF Tags
  <2>2. PICK t0 \in S : TRUE
    BY <1>1 DEF Tags
  <2> DEFINE T == {n \in Nat : \E t \in S : n = b - t.version}
  <2>3. b - t0.version \in T
    BY <1>1, <1>2, <2>1
  <2>4. PICK x \in T : \A y \in T : x <= y
    BY <2>3, LeastNumber
  <2>5. PICK t \in S : x = b - t.version
    BY <2>4
  <2>6. ASSUME NEW s \in S PROVE s.version <= t.version
    <3>1. b - s.version \in T
      BY <1>1, <1>2, <2>1
    <3> QED
      BY <1>2, <2>1, <2>4, <2>5, <3>1
  <2>7. \A s \in S : s.at <= t.at
    BY <1>1, <2>6 DEF VersionsAscend
  <2>8. Nearest(t)
    BY <1>2, <2>6, <2>7
  <2> QED
    BY <2>8
<1>4. LatestTag(u, origin) = CHOOSE t \in S : Nearest(t)
  BY DEF LatestTag
<1>5. PICK m : m = LatestTag(u, origin) /\ m \in S /\ Nearest(m)
  BY <1>3, <1>4
<1>6. ASSUME NEW t \in tags, t.unit = u PROVE t.version <= m.version
  <2>1. t \in S /\ t \in tags /\ m \in tags /\ m.unit = u
    BY <1>1, <1>5, <1>6
  <2>2. ~(m.version <= t.version) \/ m.at <= t.at
    BY <1>6, <2>1 DEF VersionsAscend
  <2> QED
    BY <1>2, <1>5, <2>1, <2>2
<1> QED
  BY <1>2, <1>5, <1>6

LEMMA SourceType ==
  ASSUME Mains, Clones, NEW r \in Repo
  PROVE  Source(r) \in Commits(r)
<1>1. main[r] \in Seq(Commits(r)) /\ clone[r].head \in 1..Len(main[r])
  BY DEF Mains, Clones
<1>2. clone[r].ahead \in Seq(Commits(r))
  BY DEF Clones, CloneRecords
<1>3. main[r][clone[r].head] \in Commits(r)
  BY <1>1
<1>4. clone[r].ahead # <<>> => clone[r].ahead[1] \in Commits(r)
  BY <1>2
<1> QED
  BY <1>3, <1>4 DEF Source

Good(acc, i) ==
  /\ acc.plans \in Seq(PlanRecord)
  /\ \A k \in DOMAIN acc.plans : \E j \in 1..i : acc.plans[k].unit = Order[j]
  /\ DistinctPlans(acc.plans)
  /\ acc.failed \/ \A k \in DOMAIN acc.plans : NewVersion(acc.plans[k])

LEMMA TargetIsNew ==
  ASSUME StoreInv, NEW origin, Known(origin), NEW u \in Unit, NEW v,
         v = TargetVersion(u, LatestTag(u, origin).version)
  PROVE  /\ v \in Int
         /\ v # NoVersion => \A t \in tags : t.unit = u => t.version < v
<1> DEFINE latest == LatestTag(u, origin).version
<1>1. latest \in Int /\ \A t \in tags : t.unit = u => t.version <= latest /\ t.version \in Int
  BY Latest DEF StoreInv, Tags, TagRecord
<1>2. PICK source : source = IF u = Stack THEN latest ELSE Source(RepoOf[u]).version[u]
  OBVIOUS
<1>3. source \in Int
  <2>1. RepoOf[u] \in Repo /\ u \in Units(RepoOf[u])
    BY UnitAssumption DEF Units
  <2>2. Source(RepoOf[u]) \in Commits(RepoOf[u])
    BY <2>1, SourceType DEF StoreInv
  <2>3. Source(RepoOf[u]).version \in [Units(RepoOf[u]) -> Int]
    BY <2>2 DEF Commits
  <2> QED
    BY <1>1, <1>2, <2>1, <2>3
<1>4. v = CASE source > latest -> source [] source = latest -> latest + 1 [] source < latest -> NoVersion
  BY <1>2 DEF TargetVersion
<1> HIDE DEF latest
<1>5. CASE source > latest
  BY <1>1, <1>3, <1>4, <1>5
<1>6. CASE source = latest
  BY <1>1, <1>3, <1>4, <1>6
<1>7. CASE source < latest
  BY <1>1, <1>3, <1>4, <1>7 DEF NoVersion
<1> QED
  BY <1>1, <1>3, <1>5, <1>6, <1>7

LEMMA PlanUnitGood ==
  ASSUME StoreInv, NEW origin, Known(origin), NEW skip, NEW i \in 1..Len(Order), NEW acc,
         Good(acc, i - 1)
  PROVE  Good(PlanUnit(acc, Order[i], origin, skip), i)
<1> DEFINE u == Order[i]
           target == TargetVersion(u, LatestTag(u, origin).version)
           item == [unit |-> u, version |-> target]
           next == [plans |-> Append(acc.plans, item),
                    failed |-> acc.failed \/ target = NoVersion \/ TagExists(u, target)]
<1>1. u \in Unit /\ i \in Nat /\ i - 1 \in Nat
  BY Orders
<1>2. target \in Int /\ (target # NoVersion => \A t \in tags : t.unit = u => t.version < target)
  BY <1>1, TargetIsNew
<1>3. item \in PlanRecord /\ item.unit = u /\ item.version = target
  BY <1>1, <1>2 DEF PlanRecord
<1>4. PlanUnit(acc, u, origin, skip) = acc \/ PlanUnit(acc, u, origin, skip) = next
  BY DEF PlanUnit
<1>5. Good(acc, i)
  BY <1>1 DEF Good
<1> HIDE DEF item, target, u
<1>6. Good(next, i)
  <2> DEFINE q == Append(acc.plans, item)
             n == Len(acc.plans)
  <2>1. acc.plans \in Seq(PlanRecord) /\ n \in Nat /\ DOMAIN acc.plans = 1..n
    BY DEF Good
  <2>2. q \in Seq(PlanRecord) /\ DOMAIN q = 1..(n + 1) /\ q[n + 1] = item
        /\ \A k \in 1..n : q[k] = acc.plans[k]
    BY <1>3, <2>1
  <2>3. \A k \in 1..n : \E j \in 1..(i - 1) : q[k].unit = Order[j]
    BY <2>1, <2>2 DEF Good
  <2>4. \A k \in 1..(n + 1) : k = n + 1 \/ k \in 1..n
    BY <2>1
  <2>5. ASSUME NEW k \in DOMAIN q PROVE \E j \in 1..i : q[k].unit = Order[j]
    <3>1. q[n + 1].unit = Order[i] /\ i \in 1..i /\ \A j \in 1..(i - 1) : j \in 1..i
      BY <1>1, <1>3, <2>2 DEF u
    <3> QED
      BY <2>2, <2>3, <2>4, <3>1
  <2>6. \A k \in 1..n : q[k].unit # u
    <3>1. \A j \in 1..(i - 1) : j \in 1..Len(Order) /\ j # i
      BY Orders
    <3>2. \A j \in 1..(i - 1) : Order[j] # Order[i]
      BY <3>1, Orders
    <3> QED
      BY <2>3, <3>2 DEF u
  <2>7. DistinctPlans(q)
    <3>1. \A j, k \in 1..n : q[j].unit = q[k].unit => j = k
      BY <2>1, <2>2 DEF Good, DistinctPlans
    <3> QED
      BY <1>3, <2>2, <2>4, <2>6, <3>1 DEF DistinctPlans
  <2>8. next.failed \/ \A k \in DOMAIN q : NewVersion(q[k])
    <3>1. SUFFICES ASSUME ~next.failed, NEW k \in DOMAIN q PROVE NewVersion(q[k])
      OBVIOUS
    <3>2. ~acc.failed /\ target # NoVersion
      BY <3>1
    <3>3. CASE k = n + 1
      BY <1>2, <1>3, <2>2, <3>2, <3>3 DEF NewVersion
    <3>4. CASE k # n + 1
      <4>1. k \in 1..n
        BY <2>2, <2>4, <3>4
      <4>2. NewVersion(acc.plans[k])
        BY <2>1, <3>2, <4>1 DEF Good
      <4> QED
        BY <2>2, <4>1, <4>2
    <3> QED
      BY <3>3, <3>4
  <2> QED
    BY <2>2, <2>5, <2>7, <2>8 DEF Good
<1> QED
  BY <1>4, <1>5, <1>6 DEF u

LEMMA PlansGood ==
  ASSUME StoreInv, NEW origin, Known(origin), NEW skip
  PROVE  Good(PlanReleases(origin, skip), Len(Order))
<1> DEFINE f == PlansUpTo(origin, skip)
           T == {k \in Nat : k <= Len(Order) /\ ~Good(f[k], k)}
<1>1. Len(Order) \in Nat
  BY Orders
<1>2. \A k \in 0..Len(Order) : f[k] = Loop(f, k, origin, skip)
  BY <1>1, PlansLoop DEF IsLoop
<1> HIDE DEF f
<1>3. T = {}
  <2>1. SUFFICES ASSUME T # {} PROVE FALSE
    OBVIOUS
  <2>2. PICK m \in T : \A y \in T : m <= y
    BY <2>1, LeastNumber
  <2>3. m \in 0..Len(Order) /\ ~Good(f[m], m)
    BY <1>1, <2>2
  <2>4. CASE m = 0
    <3>1. f[m] = NoPlans
      BY <1>2, <2>3, <2>4 DEF Loop
    <3>2. <<>> \in Seq(PlanRecord) /\ DOMAIN <<>> = {}
      OBVIOUS
    <3>3. NoPlans.plans = <<>>
      BY DEF NoPlans
    <3>4. Good(NoPlans, m)
      BY <3>2, <3>3 DEF Good, DistinctPlans
    <3> QED
      BY <2>3, <3>1, <3>4
  <2>5. CASE m # 0
    <3>1. m \in 1..Len(Order) /\ m - 1 \in Nat /\ m - 1 < m /\ m - 1 <= Len(Order)
      BY <1>1, <2>3, <2>5
    <3>2. m - 1 \notin T
      BY <2>2, <3>1
    <3>3. Good(f[m - 1], m - 1)
      BY <3>1, <3>2
    <3>4. f[m] = PlanUnit(f[m - 1], Order[m], origin, skip)
      BY <1>2, <2>3, <2>5 DEF Loop
    <3>5. Good(f[m], m)
      BY <3>1, <3>3, <3>4, PlanUnitGood
    <3> QED
      BY <2>3, <3>5
  <2> QED
    BY <2>4, <2>5
<1>4. Good(f[Len(Order)], Len(Order))
  BY <1>1, <1>3
<1> QED
  BY <1>4 DEF PlanReleases, f

--------------------------------------------------------------------------------
(* What the steps have in common.                                            *)

LEMMA IdleRun ==
  ASSUME Runs', run'.pc = "idle"
  PROVE  RunInv'
BY DEF RunInv, Progress, UpToDate, Newer, Green, AtPush, AtTag, AtPushTag

LEMMA NoRunIdle ==
  ASSUME run' = NoRun
  PROVE  RunInv'
<1> DEFINE P == Seq(PlanRecord)
<1>1. run' = [pc |-> "idle", plans |-> <<>>, i |-> 1, checked |-> [r \in Repo |-> 0]] /\ <<>> \in P
  BY DEF NoRun
<1>2. [r \in Repo |-> 0] \in [Repo -> Nat] /\ "idle" \in Phase /\ 1 \in Nat
  BY DEF Phase
<1>3. Runs' <=> run' \in [pc : Phase, plans : P, i : Nat, checked : [Repo -> Nat]]
  BY DEF Runs
<1> HIDE DEF P
<1>4. Runs' /\ run'.pc = "idle"
  BY <1>1, <1>2, <1>3
<1> QED
  BY <1>4, IdleRun

LEMMA StoreSame ==
  ASSUME StoreInv, UNCHANGED <<main, clone, tags>>
  PROVE  StoreInv'
BY DEF StoreInv, Mains, Clones, Tags, TagsReleasable, VersionsAscend

\* a step of the clones alone, which forgets nothing of GitHub
LEMMA StoreClones ==
  ASSUME StoreInv, UNCHANGED <<main, tags>>, clone' = [r \in Repo |-> clone'[r]],
         \A r \in Repo : clone'[r] \in CloneRecords(r),
         \A r \in Repo : /\ clone'[r].head \in 1..Len(main[r])
                         /\ clone'[r].origin \in clone[r].origin..Len(main[r])
  PROVE  StoreInv'
<1>1. \A r \in Repo : clone[r].origin \in Nat \ {0} /\ clone'[r].origin \in Int
  BY DEF StoreInv, Clones, CloneRecords
<1>2. Clones'
  BY <1>1 DEF Clones
<1>3. Tags'
  <2>1. ASSUME NEW t \in tags PROVE t.at \in 1..clone'[RepoOf[t.unit]].origin
    <3>1. t \in TagRecord /\ t.at \in 1..clone[RepoOf[t.unit]].origin
      BY DEF StoreInv, Tags
    <3>2. RepoOf[t.unit] \in Repo
      BY <3>1, UnitAssumption DEF TagRecord
    <3> QED
      BY <1>1, <3>1, <3>2
  <2> QED
    BY <2>1 DEF StoreInv, Tags
<1> QED
  BY <1>2, <1>3 DEF StoreInv, Mains, TagsReleasable, VersionsAscend

\* what the edits of a clone's record come to
LEMMA OriginSet ==
  ASSUME NEW r \in Repo, NEW c \in CloneRecords(r), NEW x \in Nat, NEW e,
         e = [c EXCEPT !.origin = x]
  PROVE  e \in CloneRecords(r) /\ e.origin = x /\ e.head = c.head /\ e.ahead = c.ahead /\ e.dirty = c.dirty
<1> DEFINE Q == Seq(Commits(r))
           B == BOOLEAN
<1>1. /\ CloneRecords(r) = [head : Nat, ahead : Q, dirty : B, origin : Nat]
      /\ x \in Nat
  BY DEF CloneRecords
<1> HIDE DEF Q, B
<1>2. c.head \in Nat /\ c.ahead \in Q /\ c.dirty \in B /\ c.origin \in Nat
  BY <1>1
<1>3. e = [head |-> c.head, ahead |-> c.ahead, dirty |-> c.dirty, origin |-> x]
  BY <1>1, SMT
<1> QED
  BY <1>1, <1>2, <1>3

CloneRecord(h, a, d, o) == [head |-> h, ahead |-> a, dirty |-> d, origin |-> o]

LEMMA EditedClone ==
  ASSUME NEW r \in Repo, NEW c \in CloneRecords(r), NEW e, e = [c EXCEPT !.dirty = TRUE]
  PROVE  e \in CloneRecords(r) /\ e.head = c.head /\ e.ahead = c.ahead /\ e.origin = c.origin
<1> DEFINE Q == Seq(Commits(r))
           B == BOOLEAN
<1>1. /\ CloneRecords(r) = [head : Nat, ahead : Q, dirty : B, origin : Nat]
      /\ TRUE \in B
  BY DEF CloneRecords
<1> HIDE DEF Q, B
<1>2. c.head \in Nat /\ c.ahead \in Q /\ c.dirty \in B /\ c.origin \in Nat
  BY <1>1
<1>3. ASSUME NEW d \in B
      PROVE  /\ [c EXCEPT !.dirty = d] = CloneRecord(c.head, c.ahead, d, c.origin)
             /\ CloneRecord(c.head, c.ahead, d, c.origin) \in CloneRecords(r)
  <2>1. [c EXCEPT !.dirty = d] = CloneRecord(c.head, c.ahead, d, c.origin)
    BY <1>1, SMT DEF CloneRecord
  <2> QED
    BY <1>1, <1>2, <2>1 DEF CloneRecord
<1>4. /\ e = CloneRecord(c.head, c.ahead, TRUE, c.origin)
      /\ CloneRecord(c.head, c.ahead, TRUE, c.origin) \in CloneRecords(r)
  BY <1>1, <1>3, Zenon
<1> QED
  BY <1>4 DEF CloneRecord

LEMMA CloneUpdate ==
  ASSUME Clones, NEW R \in Repo, NEW c \in CloneRecords(R), clone' = [clone EXCEPT ![R] = c]
  PROVE  /\ clone'[R] = c /\ \A r \in Repo : r # R => clone'[r] = clone[r]
         /\ \A r \in Repo : clone'[r] \in CloneRecords(r)
         /\ clone' = [r \in Repo |-> clone'[r]]
<1>1. DOMAIN clone = Repo
  BY DEF Clones
<1>2. clone'[R] = c /\ \A r \in Repo : r # R => clone'[r] = clone[r]
  BY <1>1
<1>3. \A r \in Repo : clone[r] \in CloneRecords(r)
  BY DEF Clones
<1>4. clone' = [r \in Repo |-> clone'[r]]
  BY <1>1
<1> QED
  BY <1>2, <1>3, <1>4

LEMMA PlanFacts ==
  ASSUME IInv, run.pc # "idle"
  PROVE  /\ run.i \in DOMAIN run.plans /\ Plan \in PlanRecord /\ Plan.unit \in Unit
         /\ PlanRepo \in Repo /\ PlanRepo \in PlannedRepo /\ PlannedRepo \subseteq Repo
         /\ Plan.unit \in Units(PlanRepo) /\ (Plan.unit = Stack => PlanRepo = StackRepo)
         /\ clone[PlanRepo].head = clone[PlanRepo].origin
<1>1. run.plans \in Seq(PlanRecord) /\ run.i \in DOMAIN run.plans
  BY DEF IInv, RunInv, Runs, Progress
<1>2. \A k \in DOMAIN run.plans : run.plans[k] \in PlanRecord /\ run.plans[k].unit \in Unit
  <2>1. \A k \in DOMAIN run.plans : run.plans[k] \in PlanRecord
    BY <1>1
  <2>2. \A x \in PlanRecord : x.unit \in Unit
    BY DEF PlanRecord
  <2> QED
    BY <2>1, <2>2
<1>3. \A k \in DOMAIN run.plans : RepoOf[run.plans[k].unit] \in Repo
  BY <1>2, UnitAssumption
<1>4. PlanRepo \in PlannedRepo /\ PlannedRepo \subseteq Repo
  BY <1>1, <1>3 DEF PlanRepo, PlannedRepo, Plan
<1>5. Plan.unit \in Units(PlanRepo) /\ (Plan.unit = Stack => PlanRepo = StackRepo)
  BY <1>1, <1>2 DEF Plan, PlanRepo, Units, StackRepo
<1> QED
  BY <1>1, <1>2, <1>4, <1>5 DEF IInv, RunInv, UpToDate, Plan

LEMMA GotoFacts ==
  ASSUME Runs, NEW pc \in Phase, Goto(pc)
  PROVE  /\ run'.pc = pc /\ run'.plans = run.plans /\ run'.i = run.i /\ run'.checked = run.checked
         /\ Runs' /\ Plan' = Plan /\ PlanRepo' = PlanRepo /\ PlannedRepo' = PlannedRepo
<1> DEFINE P == Seq(PlanRecord)
<1>1. run \in [pc : Phase, plans : P, i : Nat, checked : [Repo -> Nat]]
  BY DEF Runs
<1>2. run' = [run EXCEPT !.pc = pc]
  BY DEF Goto
<1>3. Runs' <=> run' \in [pc : Phase, plans : P, i : Nat, checked : [Repo -> Nat]]
  BY DEF Runs
<1> HIDE DEF P
<1>4. run'.pc = pc /\ run'.plans = run.plans /\ run'.i = run.i /\ run'.checked = run.checked
  BY <1>1, <1>2
<1>5. Runs'
  BY <1>1, <1>2, <1>3
<1> QED
  BY <1>4, <1>5 DEF Plan, PlanRepo, PlannedRepo

--------------------------------------------------------------------------------
(* The steps of a run, and the others'.                                      *)

LEMMA AbortInv == ASSUME IInv, Abort \/ PushRejected PROVE IInv'
<1>1. run' = NoRun /\ UNCHANGED <<main, clone, tags>>
  BY DEF Abort, PushRejected
<1> QED
  BY <1>1, NoRunIdle, StoreSame DEF IInv

LEMMA CheckGreenInv == ASSUME IInv, CheckGreen PROVE IInv'
<1> DEFINE seen == [r \in Repo |-> IF r \in Required(run.plans) THEN clone[r].origin ELSE 0]
           P == Seq(PlanRecord)
<1>1. run.pc = "checks" /\ run' = [run EXCEPT !.pc = "sync", !.checked = seen]
      /\ UNCHANGED <<main, clone, tags>>
  BY DEF CheckGreen
<1>2. StoreInv'
  BY <1>1, StoreSame DEF IInv
<1>3. \A r \in Repo : clone[r].origin \in Nat \ {0} /\ clone[r].head \in Nat
  BY DEF IInv, StoreInv, Clones, CloneRecords
<1>4. run \in [pc : Phase, plans : P, i : Nat, checked : [Repo -> Nat]]
  BY DEF IInv, RunInv, Runs
<1>5. seen \in [Repo -> Nat] /\ "sync" \in Phase
  BY <1>3 DEF Phase
<1>6. Runs' <=> run' \in [pc : Phase, plans : P, i : Nat, checked : [Repo -> Nat]]
  BY DEF Runs
<1>7. run'.pc = "sync" /\ run'.plans = run.plans /\ run'.i = run.i /\ run'.checked = seen
  <2> HIDE DEF P, seen
  <2> QED
    BY <1>1, <1>4
<1>8. Runs'
  <2> HIDE DEF P, seen
  <2> QED
    BY <1>1, <1>4, <1>5, <1>6
<1>9. PlannedRepo' = PlannedRepo /\ PlannedRepo \subseteq Repo
  BY <1>1, <1>7, PlanFacts DEF PlannedRepo
<1>10. \A r \in PlannedRepo : r \in Required(run.plans)
  BY DEF PlannedRepo, Required, Planned
<1>11. Green'
  <2>1. SUFFICES ASSUME NEW r \in PlannedRepo PROVE OnlyReleases(r, run.checked[r], clone[r].head)'
    BY <1>9 DEF Green
  <2>2. run'.checked[r] = clone[r].origin /\ clone[r].head = clone[r].origin
    BY <1>1, <1>7, <1>9, <1>10 DEF IInv, RunInv, UpToDate
  <2>3. clone[r].head \in Nat \ {0}
    BY <1>3, <1>9, <2>2
  <2> QED
    BY <1>1, <2>2, <2>3 DEF OnlyReleases
<1>12. Progress' /\ UpToDate' /\ Newer'
  BY <1>1, <1>7, <1>9 DEF IInv, RunInv, Progress, UpToDate, Newer, NewVersion
<1>13. AtPush' /\ AtTag' /\ AtPushTag'
  BY <1>7 DEF AtPush, AtTag, AtPushTag
<1> QED
  BY <1>2, <1>8, <1>11, <1>12, <1>13 DEF IInv, RunInv

LEMMA SyncFilesInv == ASSUME IInv, SyncFiles PROVE IInv'
<1>1. run.pc = "sync" /\ clone' = [clone EXCEPT ![PlanRepo].dirty = TRUE] /\ Goto("commit")
      /\ UNCHANGED <<main, tags>>
  BY DEF SyncFiles
<1>2. "commit" \in Phase /\ Runs
  BY DEF Phase, IInv, RunInv
<1>3. /\ run'.pc = "commit" /\ run'.plans = run.plans /\ run'.i = run.i /\ run'.checked = run.checked
      /\ Runs' /\ Plan' = Plan /\ PlanRepo' = PlanRepo /\ PlannedRepo' = PlannedRepo
  BY <1>1, <1>2, GotoFacts
<1>4. clone[PlanRepo] \in CloneRecords(PlanRepo) /\ PlanRepo \in Repo /\ Clones
  BY <1>1, PlanFacts DEF IInv, StoreInv, Clones
<1>5. /\ \A r \in Repo : /\ clone'[r] \in CloneRecords(r) /\ clone'[r].head = clone[r].head
                         /\ clone'[r].origin = clone[r].origin /\ clone'[r].ahead = clone[r].ahead
      /\ clone' = [r \in Repo |-> clone'[r]]
  <2>1. PICK c : c = [clone[PlanRepo] EXCEPT !.dirty = TRUE]
    OBVIOUS
  <2>2. clone' = [clone EXCEPT ![PlanRepo] = c]
    BY <1>1, <2>1, Zenon
  <2>3. /\ c \in CloneRecords(PlanRepo) /\ c.head = clone[PlanRepo].head
        /\ c.ahead = clone[PlanRepo].ahead /\ c.origin = clone[PlanRepo].origin
    BY <1>4, <2>1, EditedClone
  <2> QED
    BY <1>4, <2>2, <2>3, CloneUpdate
<1>6. StoreInv'
  <2>1. \A r \in Repo : clone[r].head \in 1..Len(main[r]) /\ clone[r].origin \in 1..Len(main[r])
    BY DEF IInv, StoreInv, Clones
  <2>2. \A r \in Repo : /\ clone'[r].head \in 1..Len(main[r])
                        /\ clone'[r].origin \in clone[r].origin..Len(main[r])
    BY <1>5, <2>1
  <2> QED
    BY <1>1, <1>5, <2>2, StoreClones DEF IInv
<1>7. PlannedRepo \subseteq Repo
  BY <1>1, PlanFacts
<1>8. Progress' /\ UpToDate' /\ Newer'
  BY <1>1, <1>3, <1>5, <1>7 DEF IInv, RunInv, Progress, UpToDate, Newer, NewVersion
<1>9. Green'
  BY <1>1, <1>3, <1>5, <1>7 DEF IInv, RunInv, Green, OnlyReleases
<1>10. AtPush' /\ AtTag' /\ AtPushTag'
  BY <1>3 DEF AtPush, AtTag, AtPushTag
<1> QED
  BY <1>3, <1>6, <1>8, <1>9, <1>10 DEF IInv, RunInv

\* the refs that the stack pins are those the clones have of origin/main
LEMMA PinsCurrent ==
  ASSUME IInv, run.pc # "idle"
  PROVE  NewPins \in [Pinned -> Nat] /\ \A r \in Pinned : NewPins[r] = clone[r].origin
<1>1. Pinned \subseteq Repo
  BY UnitAssumption
<1>2. \A r \in Repo : clone[r].origin \in Nat /\ clone[r].head \in Nat
  BY DEF IInv, StoreInv, Clones, CloneRecords
<1>3. NewPins = [r \in Pinned |-> IF Units(r) \cap Planned(run.plans) # {} THEN clone[r].head
                                  ELSE Origin[r]]
  BY DEF NewPins, PinTargets
<1>4. ASSUME NEW r \in Pinned, Units(r) \cap Planned(run.plans) # {}
      PROVE  clone[r].head = clone[r].origin
  <2>1. r \in PlannedRepo
    BY <1>4 DEF Planned, PlannedRepo, Units
  <2> QED
    BY <2>1 DEF IInv, RunInv, UpToDate
<1>5. \A r \in Pinned : Origin[r] = clone[r].origin
  BY <1>1 DEF Origin
<1>6. \A r \in Pinned : NewPins[r] = clone[r].origin
  BY <1>3, <1>4, <1>5
<1> QED
  BY <1>1, <1>2, <1>3, <1>6

LEMMA NothingToSyncInv == ASSUME IInv, NothingToSync PROVE IInv'
<1>1. run.pc = "sync" /\ ~NeedsEdit /\ Goto("tag") /\ UNCHANGED <<main, clone, tags>>
  BY DEF NothingToSync
<1>2. "tag" \in Phase /\ Runs
  BY DEF Phase, IInv, RunInv
<1>3. /\ run'.pc = "tag" /\ run'.plans = run.plans /\ run'.i = run.i /\ run'.checked = run.checked
      /\ Runs' /\ Plan' = Plan /\ PlanRepo' = PlanRepo /\ PlannedRepo' = PlannedRepo
  BY <1>1, <1>2, GotoFacts
<1>4. StoreInv'
  BY <1>1, StoreSame DEF IInv
<1>5. Progress' /\ UpToDate' /\ Newer'
  BY <1>1, <1>3 DEF IInv, RunInv, Progress, UpToDate, Newer, NewVersion
<1>6. Green'
  BY <1>1, <1>3 DEF IInv, RunInv, Green, OnlyReleases
<1>7. AtTag'
  <2> DEFINE c == main[PlanRepo][clone[PlanRepo].head]
  <2>1. clone[PlanRepo].ahead = <<>>
    BY <1>1, PlanFacts DEF IInv, RunInv, UpToDate
  <2>2. Source(PlanRepo) = c
    BY <2>1 DEF Source
  <2>3. IF Plan.unit = Stack THEN c.pins = NewPins ELSE c.version[Plan.unit] = Plan.version
    BY <1>1, <2>2 DEF NeedsEdit
  <2>4. Right(c)
    BY <1>1, <2>3, PinsCurrent DEF Right
  <2> QED
    BY <1>1, <1>3, <2>4 DEF AtTag, Right
<1>8. AtPush' /\ AtPushTag'
  BY <1>3 DEF AtPush, AtPushTag
<1> QED
  BY <1>3, <1>4, <1>5, <1>6, <1>7, <1>8 DEF IInv, RunInv

LEMMA PreparedRight ==
  ASSUME IInv, run.pc = "commit"
  PROVE  Prepared \in Commits(PlanRepo) /\ Prepared.release /\ Right(Prepared)
<1>1. PICK old : old = Source(PlanRepo)
  OBVIOUS
<1>2. /\ Plan \in PlanRecord /\ Plan.unit \in Unit /\ Plan.unit \in Units(PlanRepo)
      /\ PlanRepo \in Repo
  BY PlanFacts
<1>3. old \in Commits(PlanRepo)
  BY <1>1, <1>2, SourceType DEF IInv, StoreInv
<1>4. old.version \in [Units(PlanRepo) -> Int] /\ old.pins \in [Pinned -> Nat]
  BY <1>3 DEF Commits
<1>5. PICK v : v = IF Plan.unit = Stack THEN old.version ELSE [old.version EXCEPT ![Plan.unit] = Plan.version]
  OBVIOUS
<1>6. PICK w : w = IF Plan.unit = Stack THEN NewPins ELSE old.pins
  OBVIOUS
<1>7. Plan.version \in Int
  BY <1>2 DEF PlanRecord
<1>8. v \in [Units(PlanRepo) -> Int] /\ (Plan.unit # Stack => v[Plan.unit] = Plan.version)
  BY <1>2, <1>4, <1>5, <1>7
<1>9. w \in [Pinned -> Nat] /\ (Plan.unit = Stack => \A r \in Pinned : w[r] = clone[r].origin)
  BY <1>4, <1>6, PinsCurrent
<1>10. Edits[Plan.unit] \in SUBSET Unit
  BY <1>2, UnitAssumption
<1>11. Prepared = [touches |-> Edits[Plan.unit], version |-> v, pins |-> w, release |-> TRUE]
  BY <1>1, <1>5, <1>6, Zenon DEF Prepared
<1>12. Prepared \in Commits(PlanRepo) /\ Prepared.release
  BY <1>8, <1>9, <1>10, <1>11 DEF Commits
<1>13. Prepared.version = v /\ Prepared.pins = w
  BY <1>11
<1> QED
  BY <1>8, <1>9, <1>12, <1>13 DEF Right

LEMMA CommitInv == ASSUME IInv, Commit PROVE IInv'
<1>1. run.pc = "commit" /\ Goto("push") /\ UNCHANGED <<main, tags>>
      /\ clone' = [clone EXCEPT ![PlanRepo] =
             [head |-> clone[PlanRepo].head, ahead |-> <<Prepared>>, dirty |-> FALSE,
              origin |-> clone[PlanRepo].origin]]
  BY DEF Commit
<1>2. "push" \in Phase /\ Runs
  BY DEF Phase, IInv, RunInv
<1>3. /\ run'.pc = "push" /\ run'.plans = run.plans /\ run'.i = run.i /\ run'.checked = run.checked
      /\ Runs' /\ Plan' = Plan /\ PlanRepo' = PlanRepo /\ PlannedRepo' = PlannedRepo
  BY <1>1, <1>2, GotoFacts
<1>4. clone[PlanRepo] \in CloneRecords(PlanRepo) /\ PlanRepo \in Repo /\ Clones /\ DOMAIN clone = Repo
  BY <1>1, PlanFacts DEF IInv, StoreInv, Clones
<1>5. Prepared \in Commits(PlanRepo) /\ Prepared.release /\ Right(Prepared)
  BY <1>1, PreparedRight
<1>6. <<Prepared>> \in Seq(Commits(PlanRepo)) /\ Len(<<Prepared>>) = 1 /\ <<Prepared>>[1] = Prepared
  BY <1>5
<1>7. /\ \A r \in Repo : /\ clone'[r] \in CloneRecords(r) /\ clone'[r].head = clone[r].head
                         /\ clone'[r].origin = clone[r].origin
                         /\ r # PlanRepo => clone'[r].ahead = clone[r].ahead
      /\ clone' = [r \in Repo |-> clone'[r]] /\ clone'[PlanRepo].ahead = <<Prepared>>
  <2>1. PICK a : a = <<Prepared>>
    OBVIOUS
  <2>2. PICK c : c = [head |-> clone[PlanRepo].head, ahead |-> a, dirty |-> FALSE,
                      origin |-> clone[PlanRepo].origin]
    OBVIOUS
  <2>3. clone' = [clone EXCEPT ![PlanRepo] = c]
    BY <1>1, <2>1, <2>2
  <2>4. /\ c \in CloneRecords(PlanRepo) /\ c.head = clone[PlanRepo].head /\ c.ahead = a
        /\ c.origin = clone[PlanRepo].origin
    <3> DEFINE Q == Seq(Commits(PlanRepo))
    <3>1. CloneRecords(PlanRepo) = [head : Nat, ahead : Q, dirty : BOOLEAN, origin : Nat] /\ a \in Q
      BY <1>6, <2>1 DEF CloneRecords
    <3> HIDE DEF Q
    <3>2. clone[PlanRepo].head \in Nat /\ clone[PlanRepo].origin \in Nat
      BY <1>4, <3>1
    <3> QED
      BY <2>2, <3>1, <3>2
  <2> QED
    BY <1>4, <2>1, <2>3, <2>4, CloneUpdate
<1>8. StoreInv'
  <2>1. \A r \in Repo : clone[r].head \in 1..Len(main[r]) /\ clone[r].origin \in 1..Len(main[r])
    BY DEF IInv, StoreInv, Clones
  <2>2. \A r \in Repo : /\ clone'[r].head \in 1..Len(main[r])
                        /\ clone'[r].origin \in clone[r].origin..Len(main[r])
    BY <1>7, <2>1
  <2> QED
    BY <1>1, <1>7, <2>2, StoreClones DEF IInv
<1>9. PlannedRepo \subseteq Repo
  BY <1>1, PlanFacts
<1>10. Progress' /\ UpToDate' /\ Newer'
  <2>1. Progress'
    BY <1>1, <1>3 DEF IInv, RunInv, Progress
  <2>2. \A r \in PlannedRepo : clone[r].head = clone[r].origin /\ clone[r].ahead = <<>>
    BY <1>1 DEF IInv, RunInv, UpToDate
  <2>3. UpToDate'
    BY <1>3, <1>7, <1>9, <2>2 DEF UpToDate
  <2>4. Newer'
    BY <1>1, <1>3 DEF IInv, RunInv, Newer, NewVersion
  <2> QED
    BY <2>1, <2>3, <2>4
<1>11. Green'
  BY <1>1, <1>3, <1>7, <1>9 DEF IInv, RunInv, Green, OnlyReleases
<1>12. AtPush'
  <2>1. Pinned \subseteq Repo
    BY UnitAssumption
  <2>2. PICK c : c = Prepared
    OBVIOUS
  <2>3. IF Plan.unit = Stack THEN \A r \in Pinned : c.pins[r] = clone'[r].origin
        ELSE c.version[Plan.unit] = Plan.version
    BY <1>5, <1>7, <2>1, <2>2 DEF Right
  <2>4. clone'[PlanRepo].ahead[1] = c /\ Len(clone'[PlanRepo].ahead) = 1 /\ c.release
    BY <1>5, <1>6, <1>7, <2>2
  <2> QED
    BY <1>3, <2>3, <2>4 DEF AtPush, Right
<1>13. AtTag' /\ AtPushTag'
  BY <1>3 DEF AtTag, AtPushTag
<1> QED
  BY <1>3, <1>8, <1>10, <1>11, <1>12, <1>13 DEF IInv, RunInv

\* a commit on top of one main: what is below it stays
LEMMA Appended ==
  ASSUME StoreInv, NEW R \in Repo, NEW c \in Commits(R), main' = [main EXCEPT ![R] = Append(@, c)],
         UNCHANGED tags
  PROVE  /\ Mains' /\ TagsReleasable' /\ VersionsAscend'
         /\ main'[R][Len(main[R]) + 1] = c /\ Len(main'[R]) = Len(main[R]) + 1
         /\ \A r \in Repo : /\ Len(main[r]) \in Nat /\ Len(main'[r]) \in Nat /\ Len(main[r]) <= Len(main'[r])
                            /\ \A k \in 1..Len(main[r]) : main'[r][k] = main[r][k]
                            /\ r # R => main'[r] = main[r]
<1>1. DOMAIN main = Repo /\ \A r \in Repo : main[r] \in Seq(Commits(r))
  BY DEF StoreInv, Mains
<1>2. main'[R] = Append(main[R], c) /\ \A r \in Repo : r # R => main'[r] = main[r]
  BY <1>1
<1>3. /\ main'[R] \in Seq(Commits(R)) /\ Len(main'[R]) = Len(main[R]) + 1 /\ Len(main[R]) \in Nat
      /\ main'[R][Len(main[R]) + 1] = c /\ \A k \in 1..Len(main[R]) : main'[R][k] = main[R][k]
  BY <1>1, <1>2
<1>4. \A r \in Repo : Len(main[r]) \in Nat
  BY <1>1
<1>5. \A r \in Repo : /\ Len(main[r]) \in Nat /\ Len(main'[r]) \in Nat /\ Len(main[r]) <= Len(main'[r])
                     /\ \A k \in 1..Len(main[r]) : main'[r][k] = main[r][k]
                     /\ r # R => main'[r] = main[r]
  BY <1>2, <1>3, <1>4
<1>6. Mains'
  <2>1. main' = [r \in Repo |-> main'[r]]
    BY <1>1
  <2>2. \A r \in Repo : main'[r] \in Seq(Commits(r))
    BY <1>1, <1>2, <1>3
  <2> QED
    BY <2>1, <2>2 DEF Mains
<1>7. TagsReleasable'
  <2>1. ASSUME NEW t \in tags
        PROVE  /\ t.at <= Len(main'[RepoOf[t.unit]])
               /\ t.unit # Stack => main'[RepoOf[t.unit]][t.at].version[t.unit] = t.version
    <3>1. t \in TagRecord /\ t.at \in 1..clone[RepoOf[t.unit]].origin
      BY DEF StoreInv, Tags
    <3>2. RepoOf[t.unit] \in Repo /\ t.at \in Nat
      BY <3>1, UnitAssumption DEF TagRecord
    <3>3. t.at <= Len(main[RepoOf[t.unit]])
      BY DEF StoreInv, TagsReleasable
    <3>4. t.at \in 1..Len(main[RepoOf[t.unit]]) /\ t.at <= Len(main'[RepoOf[t.unit]])
      BY <1>5, <3>1, <3>2, <3>3
    <3> QED
      BY <1>5, <3>2, <3>4 DEF StoreInv, TagsReleasable
  <2> QED
    BY <2>1 DEF TagsReleasable
<1>8. VersionsAscend'
  BY DEF StoreInv, VersionsAscend
<1> QED
  BY <1>3, <1>5, <1>6, <1>7, <1>8

LEMMA DevelopInv == ASSUME IInv, NEW r \in Repo, Develop(r) PROVE IInv'
<1>1. PICK touches \in {{}} \cup {{u} : u \in Units(r)}, more \in {-1, 0, 1} :
        main' = [main EXCEPT ![r] =
           Append(@, [touches |-> touches,
                      version |-> [u \in Units(r) |->
                         Last(main[r]).version[u] + IF u \in touches \ {Stack} THEN more ELSE 0],
                      pins |-> Last(main[r]).pins, release |-> FALSE])]
  BY DEF Develop
<1>2. UNCHANGED <<clone, tags, run>>
  BY DEF Develop
<1>3. PICK last : last = Last(main[r])
  OBVIOUS
<1>4. PICK v : v = [u \in Units(r) |-> last.version[u] + IF u \in touches \ {Stack} THEN more ELSE 0]
  OBVIOUS
<1>5. PICK c : c = [touches |-> touches, version |-> v, pins |-> last.pins, release |-> FALSE]
  OBVIOUS
<1>6. main' = [main EXCEPT ![r] = Append(@, c)]
  BY <1>1, <1>3, <1>4, <1>5
<1>7. last \in Commits(r)
  <2>1. main[r] \in Seq(Commits(r)) /\ clone[r].head \in 1..Len(main[r])
    BY DEF IInv, StoreInv, Mains, Clones
  <2>2. Len(main[r]) \in 1..Len(main[r])
    BY <2>1
  <2> QED
    BY <1>3, <2>1, <2>2 DEF Last
<1>8. c \in Commits(r)
  <2>1. last.version \in [Units(r) -> Int] /\ last.pins \in [Pinned -> Nat]
    BY <1>7 DEF Commits
  <2>2. \A u \in Units(r) : last.version[u] + (IF u \in touches \ {Stack} THEN more ELSE 0) \in Int
    BY <2>1
  <2>3. v \in [Units(r) -> Int]
    BY <1>4, <2>2
  <2>4. touches \in SUBSET Unit
    BY DEF Units
  <2> QED
    BY <1>5, <2>1, <2>3, <2>4 DEF Commits
<1>9. /\ Mains' /\ TagsReleasable' /\ VersionsAscend'
      /\ \A q \in Repo : /\ Len(main[q]) \in Nat /\ Len(main'[q]) \in Nat /\ Len(main[q]) <= Len(main'[q])
                         /\ \A k \in 1..Len(main[q]) : main'[q][k] = main[q][k]
  BY <1>2, <1>6, <1>8, Appended DEF IInv
<1>10. \A q \in Repo : clone[q].head \in 1..Len(main[q]) /\ clone[q].origin \in 1..Len(main[q])
  BY DEF IInv, StoreInv, Clones
<1>11. StoreInv'
  <2>1. \A q \in Repo : clone[q].head \in 1..Len(main'[q]) /\ clone[q].origin \in 1..Len(main'[q])
    BY <1>9, <1>10
  <2>2. Clones' /\ Tags'
    BY <1>2, <2>1 DEF IInv, StoreInv, Clones, Tags
  <2> QED
    BY <1>9, <2>2 DEF StoreInv
<1>12. Runs' /\ Progress' /\ UpToDate' /\ Newer' /\ PlannedRepo' = PlannedRepo /\ Plan' = Plan /\ PlanRepo' = PlanRepo
  <2>1. PlannedRepo' = PlannedRepo /\ Plan' = Plan /\ PlanRepo' = PlanRepo
    BY <1>2 DEF PlannedRepo, Plan, PlanRepo
  <2> QED
    BY <1>2, <2>1 DEF IInv, RunInv, Runs, Progress, UpToDate, Newer, NewVersion
<1>13. Green'
  <2>1. SUFFICES ASSUME run.pc \notin {"idle", "checks"}, NEW q \in PlannedRepo
                 PROVE  OnlyReleases(q, run.checked[q], clone[q].head)'
    BY <1>2, <1>12 DEF Green
  <2>2. q \in Repo /\ OnlyReleases(q, run.checked[q], clone[q].head)
    BY <2>1, PlanFacts DEF IInv, RunInv, Green
  <2>3. run.checked[q] \in Nat /\ clone[q].head \in Nat /\ clone[q].head <= Len(main[q])
    BY <1>9, <1>10, <2>2 DEF IInv, RunInv, Runs
  <2>4. \A k \in (run.checked[q] + 1)..clone[q].head : k \in 1..Len(main[q])
    BY <1>9, <2>2, <2>3
  <2> QED
    BY <1>2, <1>9, <2>2, <2>4 DEF OnlyReleases
<1>14. AtPush' /\ AtPushTag'
  BY <1>2, <1>12 DEF IInv, RunInv, AtPush, AtPushTag, Right
<1>15. AtTag'
  <2>1. SUFFICES ASSUME run.pc \in {"tag", "push_tag"}
                 PROVE  Right(main[PlanRepo][clone[PlanRepo].head])'
    BY <1>2 DEF AtTag
  <2>2. PlanRepo \in Repo /\ Right(main[PlanRepo][clone[PlanRepo].head])
    BY <2>1, PlanFacts DEF IInv, RunInv, AtTag
  <2>3. main'[PlanRepo][clone[PlanRepo].head] = main[PlanRepo][clone[PlanRepo].head]
    BY <1>9, <1>10, <2>2
  <2> QED
    BY <1>2, <1>12, <2>2, <2>3 DEF Right
<1> QED
  BY <1>11, <1>12, <1>13, <1>14, <1>15 DEF IInv, RunInv

LEMMA PushInv == ASSUME IInv, Push PROVE IInv'
<1> DEFINE R == PlanRepo
           n == Len(main[R])
<1>1. /\ run.pc = "push" /\ Goto("tag") /\ UNCHANGED tags /\ clone[R].head = n
      /\ main' = [main EXCEPT ![R] = @ \o clone[R].ahead]
      /\ clone' = [clone EXCEPT ![R] = [head |-> clone[R].head + 1, ahead |-> <<>>, dirty |-> clone[R].dirty,
                                       origin |-> clone[R].head + 1]]
  BY DEF Push
<1>2. "tag" \in Phase /\ Runs
  BY DEF Phase, IInv, RunInv
<1>3. /\ run'.pc = "tag" /\ run'.plans = run.plans /\ run'.i = run.i /\ run'.checked = run.checked
      /\ Runs' /\ Plan' = Plan /\ PlanRepo' = PlanRepo /\ PlannedRepo' = PlannedRepo
  BY <1>1, <1>2, GotoFacts
<1>4. clone[R] \in CloneRecords(R) /\ R \in Repo /\ Clones /\ clone[R].head = clone[R].origin
  BY <1>1, PlanFacts DEF IInv, StoreInv, Clones
<1>5. PICK c : c = clone[R].ahead[1]
  OBVIOUS
<1>6. c \in Commits(R) /\ clone[R].ahead = <<c>> /\ c.release /\ Right(c)
  <2>1. clone[R].ahead \in Seq(Commits(R))
    BY <1>4 DEF CloneRecords
  <2>2. Len(clone[R].ahead) = 1 /\ c.release /\ Right(c)
    BY <1>1, <1>5 DEF IInv, RunInv, AtPush
  <2> QED
    BY <1>5, <2>1, <2>2
<1>7. main' = [main EXCEPT ![R] = Append(@, c)]
  <2>1. main[R] \in Seq(Commits(R)) /\ DOMAIN main = Repo
    BY <1>4 DEF IInv, StoreInv, Mains
  <2>2. main[R] \o <<c>> = Append(main[R], c)
    BY <1>6, <2>1
  <2> QED
    BY <1>1, <1>6, <2>2
<1>8. /\ Mains' /\ TagsReleasable' /\ VersionsAscend'
      /\ main'[R][n + 1] = c /\ Len(main'[R]) = n + 1
      /\ \A r \in Repo : /\ Len(main[r]) \in Nat /\ Len(main'[r]) \in Nat /\ Len(main[r]) <= Len(main'[r])
                         /\ \A k \in 1..Len(main[r]) : main'[r][k] = main[r][k]
                         /\ r # R => main'[r] = main[r]
  BY <1>1, <1>4, <1>6, <1>7, Appended DEF IInv
<1>9. /\ clone'[R] \in CloneRecords(R) /\ clone'[R].head = n + 1 /\ clone'[R].origin = n + 1
      /\ clone'[R].ahead = <<>> /\ \A r \in Repo : r # R => clone'[r] = clone[r]
      /\ \A r \in Repo : clone'[r] \in CloneRecords(r)
      /\ clone' = [r \in Repo |-> clone'[r]]
  <2>1. PICK e : e = [head |-> clone[R].head + 1, ahead |-> <<>>, dirty |-> clone[R].dirty,
                      origin |-> clone[R].head + 1]
    OBVIOUS
  <2>2. clone' = [clone EXCEPT ![R] = e]
    BY <1>1, <2>1
  <2>3. /\ e \in CloneRecords(R) /\ e.head = n + 1 /\ e.ahead = <<>> /\ e.origin = n + 1
    <3> DEFINE Q == Seq(Commits(R))
    <3>1. CloneRecords(R) = [head : Nat, ahead : Q, dirty : BOOLEAN, origin : Nat] /\ <<>> \in Q
      BY DEF CloneRecords
    <3> HIDE DEF Q
    <3>2. clone[R].head \in Nat /\ clone[R].dirty \in BOOLEAN
      BY <1>4, <3>1
    <3> QED
      BY <1>1, <2>1, <3>1, <3>2
  <2> QED
    BY <1>4, <2>2, <2>3, CloneUpdate
<1>10. \A r \in Repo : clone[r].head \in 1..Len(main[r]) /\ clone[r].origin \in 1..Len(main[r])
  BY DEF IInv, StoreInv, Clones
<1>11. StoreInv'
  <2>1. \A r \in Repo : /\ clone'[r].head \in 1..Len(main'[r]) /\ clone'[r].origin \in 1..Len(main'[r])
                        /\ clone[r].origin <= clone'[r].origin
    BY <1>4, <1>8, <1>9, <1>10
  <2>2. Clones'
    BY <1>9, <2>1 DEF Clones
  <2>3. ASSUME NEW t \in tags PROVE t.at \in 1..clone'[RepoOf[t.unit]].origin
    <3>1. t \in TagRecord /\ t.at \in 1..clone[RepoOf[t.unit]].origin
      BY DEF IInv, StoreInv, Tags
    <3>2. RepoOf[t.unit] \in Repo
      BY <3>1, UnitAssumption DEF TagRecord
    <3> QED
      BY <1>8, <1>10, <2>1, <3>1, <3>2
  <2>4. Tags'
    BY <1>1, <2>3 DEF IInv, StoreInv, Tags
  <2> QED
    BY <1>8, <2>2, <2>4 DEF StoreInv
<1>12. PlannedRepo \subseteq Repo
  BY <1>1, PlanFacts
<1>13. Progress' /\ UpToDate' /\ Newer'
  <2>1. Progress'
    BY <1>1, <1>3 DEF IInv, RunInv, Progress
  <2>2. \A r \in PlannedRepo : clone[r].head = clone[r].origin /\ (r # R => clone[r].ahead = <<>>)
    BY <1>1 DEF IInv, RunInv, UpToDate
  <2>3. UpToDate'
    BY <1>3, <1>9, <1>12, <2>2 DEF UpToDate
  <2>4. Newer'
    BY <1>1, <1>3 DEF IInv, RunInv, Newer, NewVersion
  <2> QED
    BY <2>1, <2>3, <2>4
<1>14. Green'
  <2>1. SUFFICES ASSUME NEW q \in PlannedRepo PROVE OnlyReleases(q, run.checked[q], clone[q].head)'
    BY <1>3 DEF Green
  <2>2. q \in Repo /\ OnlyReleases(q, run.checked[q], clone[q].head)
    BY <1>1, <1>12 DEF IInv, RunInv, Green
  <2>3. run.checked[q] \in Nat /\ clone[q].head \in Nat /\ clone[q].head <= Len(main[q])
    BY <1>8, <1>10, <2>2 DEF IInv, RunInv, Runs
  <2>4. \A k \in (run.checked[q] + 1)..clone[q].head : k \in 1..Len(main[q]) /\ main'[q][k].release
    BY <1>8, <2>2, <2>3 DEF OnlyReleases
  <2>5. CASE q # R
    BY <1>3, <1>9, <2>2, <2>4, <2>5 DEF OnlyReleases
  <2>6. CASE q = R
    <3>1. \A k \in (run.checked[q] + 1)..(n + 1) : k = n + 1 \/ k \in (run.checked[q] + 1)..n
      BY <2>3, <2>6, <1>1
    <3>2. \A k \in (run.checked[q] + 1)..(n + 1) : main'[q][k].release
      BY <1>1, <1>6, <1>8, <2>4, <2>6, <3>1
    <3>3. run.checked[q] \in 1..(n + 1)
      BY <1>1, <2>2, <2>3, <2>6 DEF OnlyReleases
    <3> QED
      BY <1>3, <1>9, <2>6, <3>2, <3>3 DEF OnlyReleases
  <2> QED
    BY <2>5, <2>6
<1>15. AtTag'
  <2>1. main'[R][clone'[R].head] = c
    BY <1>8, <1>9
  <2>2. Plan.unit = Stack => R \notin Pinned
    BY <1>1, PlanFacts, UnitAssumption
  <2>3. IF Plan.unit = Stack THEN \A r \in Pinned : c.pins[r] = clone'[r].origin
        ELSE c.version[Plan.unit] = Plan.version
    BY <1>6, <1>9, <2>2, UnitAssumption DEF Right
  <2> QED
    BY <1>3, <2>1, <2>3 DEF AtTag, Right
<1>16. AtPush' /\ AtPushTag'
  BY <1>3 DEF AtPush, AtPushTag
<1> QED
  BY <1>3, <1>11, <1>13, <1>14, <1>15, <1>16 DEF IInv, RunInv

LEMMA PullInv == ASSUME IInv, NEW R \in Repo, Pull(R) PROVE IInv'
<1>1. /\ run.pc = "idle" /\ UNCHANGED <<main, tags, run>>
      /\ clone' = [clone EXCEPT ![R] = [head |-> Len(main[R]), ahead |-> <<>>, dirty |-> FALSE,
                                       origin |-> Len(main[R])]]
  BY DEF Pull
<1>2. Clones /\ \A r \in Repo : /\ clone[r].head \in 1..Len(main[r]) /\ clone[r].origin \in 1..Len(main[r])
                               /\ Len(main[r]) \in Nat
  BY DEF IInv, StoreInv, Clones, Mains
<1>3. PICK e : e = [head |-> Len(main[R]), ahead |-> <<>>, dirty |-> FALSE, origin |-> Len(main[R])]
  OBVIOUS
<1>4. e \in CloneRecords(R) /\ e.head = Len(main[R]) /\ e.origin = Len(main[R])
  <2> DEFINE Q == Seq(Commits(R))
  <2>1. CloneRecords(R) = [head : Nat, ahead : Q, dirty : BOOLEAN, origin : Nat] /\ <<>> \in Q
    BY DEF CloneRecords
  <2> HIDE DEF Q
  <2> QED
    BY <1>2, <1>3, <2>1
<1>5. clone' = [clone EXCEPT ![R] = e]
  BY <1>1, <1>3
<1>6. /\ clone'[R] = e /\ \A r \in Repo : r # R => clone'[r] = clone[r]
      /\ \A r \in Repo : clone'[r] \in CloneRecords(r)
      /\ clone' = [r \in Repo |-> clone'[r]]
  BY <1>2, <1>4, <1>5, CloneUpdate
<1>7. \A r \in Repo : /\ clone'[r].head \in 1..Len(main[r])
                     /\ clone'[r].origin \in clone[r].origin..Len(main[r])
  BY <1>2, <1>4, <1>6
<1>8. StoreInv'
  BY <1>1, <1>6, <1>7, StoreClones DEF IInv
<1>9. Runs' /\ run'.pc = "idle"
  BY <1>1 DEF IInv, RunInv, Runs
<1> QED
  BY <1>8, <1>9, IdleRun DEF IInv

LEMMA TagInv == ASSUME IInv, Tag PROVE IInv'
<1> DEFINE R == PlanRepo
<1>1. run.pc = "tag" /\ UNCHANGED <<main, clone, runs>>
  BY DEF Tag
<1>2. CASE TagExists(Plan.unit, Plan.version)
  <2>1. run' = NoRun /\ UNCHANGED tags
    BY <1>2 DEF Tag
  <2> QED
    BY <1>1, <2>1, NoRunIdle, StoreSame DEF IInv
<1>3. CASE ~TagExists(Plan.unit, Plan.version)
  <2>1. PICK new : new = [unit |-> Plan.unit, version |-> Plan.version, at |-> clone[R].head, pushed |-> FALSE]
    OBVIOUS
  <2>2. tags' = tags \cup {new} /\ Goto("push_tag")
    BY <1>3, <2>1 DEF Tag
  <2>3. "push_tag" \in Phase /\ Runs
    BY DEF Phase, IInv, RunInv
  <2>4. /\ run'.pc = "push_tag" /\ run'.plans = run.plans /\ run'.i = run.i /\ run'.checked = run.checked
        /\ Runs' /\ Plan' = Plan /\ PlanRepo' = PlanRepo /\ PlannedRepo' = PlannedRepo
    BY <2>2, <2>3, GotoFacts
  <2>5. /\ Plan \in PlanRecord /\ Plan.unit \in Unit /\ Plan.version \in Int /\ R \in Repo
        /\ clone[R].head = clone[R].origin /\ run.i \in DOMAIN run.plans /\ R = RepoOf[Plan.unit]
    BY <1>1, PlanFacts DEF PlanRecord, PlanRepo
  <2>6. clone[R].head \in 1..Len(main[R]) /\ clone[R].head \in Nat /\ Len(main[R]) \in Nat
    BY <2>5 DEF IInv, StoreInv, Clones, CloneRecords, Mains
  <2>7. /\ new \in TagRecord /\ new.unit = Plan.unit /\ new.version = Plan.version /\ new.at = clone[R].head
    BY <2>1, <2>5, <2>6 DEF TagRecord
  <2>8. \A t \in tags : t.unit = Plan.unit => t.version < Plan.version
    BY <1>1, <2>5 DEF IInv, RunInv, Newer, NewVersion, Plan
  <2>9. \A t \in tags : t \in TagRecord /\ t.version \in Int /\ t.at \in 1..clone[RepoOf[t.unit]].origin
    BY DEF IInv, StoreInv, Tags, TagRecord
  <2>10. Tags'
    <3>1. PICK b \in Int : \A t \in tags : t.version <= b
      BY DEF IInv, StoreInv, Tags
    <3>2. PICK d \in Int : b <= d /\ Plan.version <= d
      BY <2>5
    <3>3. \A t \in tags' : t.version <= d
      BY <2>2, <2>7, <2>9, <3>1, <3>2
    <3>4. \A t \in tags' : t \in TagRecord /\ t.at \in 1..clone[RepoOf[t.unit]].origin
      BY <2>2, <2>5, <2>6, <2>7, <2>9
    <3>5. \A u \in Unit : \E t \in tags' : t.unit = u
      BY <2>2 DEF IInv, StoreInv, Tags
    <3> QED
      BY <1>1, <3>3, <3>4, <3>5 DEF Tags
  <2>11. TagsReleasable'
    <3>1. Right(main[R][clone[R].head])
      BY <1>1 DEF IInv, RunInv, AtTag
    <3>2. new.unit # Stack => main[R][new.at].version[new.unit] = new.version
      BY <2>7, <3>1 DEF Right
    <3>3. new.at <= Len(main[R])
      BY <2>6, <2>7
    <3> QED
      BY <1>1, <2>2, <2>5, <2>7, <3>2, <3>3 DEF IInv, StoreInv, TagsReleasable
  <2>12. VersionsAscend'
    <3>1. \A t \in tags : t.unit = new.unit => t.version < new.version /\ t.at <= new.at
      BY <2>5, <2>6, <2>7, <2>8, <2>9
    <3>2. \A t \in tags : t.unit = new.unit => ~(new.version <= t.version) /\ t.version # new.version
      BY <2>5, <2>7, <2>9, <3>1
    <3>3. new.at <= new.at
      BY <2>6, <2>7
    <3>4. SUFFICES ASSUME NEW s \in tags', NEW t \in tags', s.unit = t.unit, s.version <= t.version
                   PROVE  s.at <= t.at /\ (s.version = t.version => s = t)
      BY DEF VersionsAscend
    <3>5. CASE s = new /\ t = new
      BY <3>3, <3>5
    <3>6. CASE s \in tags /\ t = new
      BY <3>1, <3>2, <3>4, <3>6
    <3>7. CASE s = new /\ t \in tags
      BY <3>2, <3>4, <3>7
    <3>8. CASE s \in tags /\ t \in tags
      BY <3>4, <3>8 DEF IInv, StoreInv, VersionsAscend
    <3> QED
      BY <2>2, <3>5, <3>6, <3>7, <3>8
  <2>13. StoreInv'
    BY <1>1, <2>10, <2>11, <2>12 DEF IInv, StoreInv, Mains, Clones
  <2>14. Progress' /\ UpToDate' /\ Green'
    <3>1. Progress' /\ UpToDate'
      BY <1>1, <2>4 DEF IInv, RunInv, Progress, UpToDate
    <3>2. Green'
      BY <1>1, <2>4 DEF IInv, RunInv, Green, OnlyReleases
    <3> QED
      BY <3>1, <3>2
  <2>15. Newer'
    <3>1. SUFFICES ASSUME NEW k \in DOMAIN run.plans, k > run.i PROVE NewVersion(run.plans[k])'
      BY <2>4 DEF Newer
    <3>2. NewVersion(run.plans[k])
      BY <1>1, <3>1 DEF IInv, RunInv, Newer
    <3>3. run.plans[k].unit # Plan.unit
      <4>1. run.plans \in Seq(PlanRecord) /\ run.i \in Nat
        BY DEF IInv, RunInv, Runs
      <4>2. k # run.i
        BY <3>1, <4>1
      <4> QED
        BY <1>1, <2>5, <4>2 DEF IInv, RunInv, Progress, DistinctPlans, Plan
    <3>4. \A t \in tags' : t.unit = run.plans[k].unit => t.version < run.plans[k].version
      BY <2>2, <2>7, <3>2, <3>3 DEF NewVersion
    <3> QED
      BY <2>4, <3>4 DEF NewVersion
  <2>16. AtTag'
    BY <1>1, <2>4 DEF IInv, RunInv, AtTag, Right
  <2>17. AtPushTag'
    <3>1. \A t \in tags' : t.unit = Plan.unit /\ t.version = Plan.version => t = new
      <4>1. \A t \in tags : ~(t.unit = Plan.unit /\ t.version = Plan.version)
        BY <1>3 DEF TagExists
      <4> QED
        BY <2>2, <4>1
    <3> QED
      BY <1>1, <2>4, <2>7, <3>1 DEF AtPushTag
  <2>18. AtPush'
    BY <2>4 DEF AtPush
  <2> QED
    BY <2>4, <2>13, <2>14, <2>15, <2>16, <2>17, <2>18 DEF IInv, RunInv
<1> QED
  BY <1>2, <1>3

\* a tag that is pushed is otherwise what it was
LEMMA PushedTags ==
  ASSUME Tags, PushTag
  PROVE  /\ \A s \in tags' : \E t \in tags :
               /\ s \in TagRecord /\ s.unit = t.unit /\ s.version = t.version /\ s.at = t.at
               /\ s = t \/ (t.unit = Plan.unit /\ t.version = Plan.version)
               /\ s = IF t.unit = Plan.unit /\ t.version = Plan.version THEN [t EXCEPT !.pushed = TRUE] ELSE t
         /\ \A t \in tags : \E s \in tags' : s.unit = t.unit
<1> DEFINE B == BOOLEAN
           image(t) == IF t.unit = Plan.unit /\ t.version = Plan.version THEN [t EXCEPT !.pushed = TRUE] ELSE t
<1>1. TagRecord = [unit : Unit, version : Int, at : Nat, pushed : B] /\ TRUE \in B
  BY DEF TagRecord
<1>2. \A t \in tags : t \in TagRecord
  BY DEF Tags
<1>3. ASSUME NEW t \in tags
      PROVE  /\ image(t) \in TagRecord /\ image(t).unit = t.unit /\ image(t).version = t.version
             /\ image(t).at = t.at
  <2> HIDE DEF B
  <2>1. t \in [unit : Unit, version : Int, at : Nat, pushed : B]
    BY <1>1, <1>2
  <2>2. ASSUME NEW b \in B
        PROVE  [t EXCEPT !.pushed = b] = [unit |-> t.unit, version |-> t.version, at |-> t.at, pushed |-> b]
    BY <2>1, SMT
  <2>3. ASSUME NEW b \in B
        PROVE  /\ [t EXCEPT !.pushed = b] \in TagRecord /\ [t EXCEPT !.pushed = b].unit = t.unit
               /\ [t EXCEPT !.pushed = b].version = t.version /\ [t EXCEPT !.pushed = b].at = t.at
    <3>1. PICK e : e = [t EXCEPT !.pushed = b]
      OBVIOUS
    <3>2. e = [unit |-> t.unit, version |-> t.version, at |-> t.at, pushed |-> b]
      BY <2>2, <3>1, Zenon
    <3>3. e \in TagRecord /\ e.unit = t.unit /\ e.version = t.version /\ e.at = t.at
      BY <1>1, <2>1, <3>2
    <3> QED
      BY <3>1, <3>3, Zenon
  <2>4. /\ [t EXCEPT !.pushed = TRUE] \in TagRecord /\ [t EXCEPT !.pushed = TRUE].unit = t.unit
        /\ [t EXCEPT !.pushed = TRUE].version = t.version /\ [t EXCEPT !.pushed = TRUE].at = t.at
    BY <1>1, <2>3, Zenon
  <2>5. CASE t.unit = Plan.unit /\ t.version = Plan.version
    BY <2>4, <2>5, Zenon
  <2>6. CASE ~(t.unit = Plan.unit /\ t.version = Plan.version)
    BY <1>2, <2>6, Zenon
  <2> QED
    BY <2>5, <2>6
<1>4. tags' = {image(t) : t \in tags}
  BY DEF PushTag
<1>5. \A t \in tags : image(t) = t \/ (t.unit = Plan.unit /\ t.version = Plan.version)
  OBVIOUS
<1>6. ASSUME NEW s \in tags'
      PROVE  \E t \in tags :
               /\ s \in TagRecord /\ s.unit = t.unit /\ s.version = t.version /\ s.at = t.at
               /\ s = t \/ (t.unit = Plan.unit /\ t.version = Plan.version)
               /\ s = image(t)
  <2>1. PICK t \in tags : s = image(t)
    BY <1>4, Zenon
  <2> HIDE DEF image
  <2> QED
    BY <1>3, <1>5, <2>1, Zenon
<1>7. \A t \in tags : image(t) \in tags'
  BY <1>4, Zenon
<1>8. \A t \in tags : image(t).unit = t.unit
  BY <1>3, Zenon
<1> QED
  BY <1>6, <1>7, <1>8, Zenon

LEMMA PushTagInv == ASSUME IInv, PushTag PROVE IInv'
<1>1. run.pc = "push_tag" /\ UNCHANGED <<main, clone, runs>>
  BY DEF PushTag
<1>2. Tags
  BY DEF IInv, StoreInv
<1>3. \A s \in tags' : \E t \in tags :
         /\ s \in TagRecord /\ s.unit = t.unit /\ s.version = t.version /\ s.at = t.at
         /\ s = IF t.unit = Plan.unit /\ t.version = Plan.version THEN [t EXCEPT !.pushed = TRUE] ELSE t
  BY <1>2, PushedTags, Zenon
<1>4. \A s \in tags' : \E t \in tags :
         s \in TagRecord /\ s.unit = t.unit /\ s.version = t.version /\ s.at = t.at
  BY <1>3, Zenon
<1>5. \A t \in tags : \E s \in tags' : s.unit = t.unit
  BY <1>2, PushedTags, Zenon
<1>6. Tags'
  <2>1. PICK b \in Int : \A t \in tags : t.version <= b
    BY <1>2 DEF Tags
  <2>2. \A s \in tags' : s.version <= b
    BY <1>4, <2>1
  <2>3. \A s \in tags' : s \in TagRecord /\ s.at \in 1..clone[RepoOf[s.unit]].origin
    BY <1>2, <1>4 DEF Tags
  <2>4. \A u \in Unit : \E s \in tags' : s.unit = u
    BY <1>2, <1>5 DEF Tags
  <2> QED
    BY <1>1, <2>2, <2>3, <2>4 DEF Tags
<1>7. TagsReleasable'
  BY <1>1, <1>4 DEF IInv, StoreInv, TagsReleasable
<1>8. VersionsAscend'
  <2>1. SUFFICES ASSUME NEW s1 \in tags', NEW s2 \in tags', s1.unit = s2.unit, s1.version <= s2.version
                 PROVE  s1.at <= s2.at /\ (s1.version = s2.version => s1 = s2)
    BY DEF VersionsAscend
  <2>2. PICK t1 \in tags :
          /\ s1.unit = t1.unit /\ s1.version = t1.version /\ s1.at = t1.at
          /\ s1 = IF t1.unit = Plan.unit /\ t1.version = Plan.version THEN [t1 EXCEPT !.pushed = TRUE] ELSE t1
    BY <1>3, Zenon
  <2>3. PICK t2 \in tags :
          /\ s2.unit = t2.unit /\ s2.version = t2.version /\ s2.at = t2.at
          /\ s2 = IF t2.unit = Plan.unit /\ t2.version = Plan.version THEN [t2 EXCEPT !.pushed = TRUE] ELSE t2
    BY <1>3, Zenon
  <2>4. t1.unit = t2.unit /\ t1.version <= t2.version
    BY <2>1, <2>2, <2>3
  <2>5. t1.at <= t2.at /\ (t1.version = t2.version => t1 = t2)
    BY <2>4 DEF IInv, StoreInv, VersionsAscend
  <2>6. s1.version = s2.version => t1 = t2
    BY <2>2, <2>3, <2>5
  <2>7. t1 = t2 => s1 = s2
    BY <2>2, <2>3, Zenon
  <2> QED
    BY <2>2, <2>3, <2>5, <2>6, <2>7
<1>9. StoreInv'
  BY <1>1, <1>6, <1>7, <1>8 DEF IInv, StoreInv, Mains, Clones
<1>10. CASE run.i = Len(run.plans)
  <2>1. run' = NoRun
    BY <1>10 DEF PushTag
  <2> QED
    BY <1>9, <2>1, NoRunIdle DEF IInv
<1>11. CASE run.i # Len(run.plans)
  <2> DEFINE P == Seq(PlanRecord)
  <2>1. PICK j : j = run.i + 1
    OBVIOUS
  <2>2. run' = [run EXCEPT !.pc = "sync", !.i = j]
    BY <1>11, <2>1 DEF PushTag
  <2>3. run \in [pc : Phase, plans : P, i : Nat, checked : [Repo -> Nat]]
    BY DEF IInv, RunInv, Runs
  <2>4. run.i \in Nat /\ run.i \in DOMAIN run.plans /\ j \in DOMAIN run.plans /\ j \in Nat
    <3>1. run.plans \in Seq(PlanRecord) /\ run.i \in Nat
      BY <2>3
    <3>2. run.i \in 1..Len(run.plans) /\ Len(run.plans) \in Nat
      BY <1>1, <3>1 DEF IInv, RunInv, Progress
    <3> QED
      BY <1>11, <2>1, <3>1, <3>2
  <2>5. Runs' <=> run' \in [pc : Phase, plans : P, i : Nat, checked : [Repo -> Nat]]
    BY DEF Runs
  <2>6. "sync" \in Phase
    BY DEF Phase
  <2>7. run'.pc = "sync" /\ run'.plans = run.plans /\ run'.i = j /\ run'.checked = run.checked
    <3> HIDE DEF P
    <3> QED
      BY <2>2, <2>3
  <2>8. Runs'
    <3> HIDE DEF P
    <3> QED
      BY <2>2, <2>3, <2>4, <2>5, <2>6
  <2>9. PlannedRepo' = PlannedRepo
    BY <2>7 DEF PlannedRepo
  <2>10. Progress'
    BY <1>1, <2>4, <2>7 DEF IInv, RunInv, Progress
  <2>11. UpToDate'
    BY <1>1, <2>7, <2>9 DEF IInv, RunInv, UpToDate
  <2>12. Green'
    BY <1>1, <2>7, <2>9 DEF IInv, RunInv, Green, OnlyReleases
  <2>13. Newer'
    <3>1. SUFFICES ASSUME NEW k \in DOMAIN run.plans, k > j \/ k = j PROVE NewVersion(run.plans[k])'
      BY <2>7 DEF Newer
    <3>2. run.plans \in Seq(PlanRecord)
      BY <2>3
    <3>3. k \in Nat
      BY <3>2
    <3>4. k > run.i
      BY <2>1, <2>4, <3>1, <3>3
    <3>5. \A t \in tags : t.unit = run.plans[k].unit => t.version < run.plans[k].version
      BY <1>1, <3>4 DEF IInv, RunInv, Newer, NewVersion
    <3>6. \A s \in tags' : s.unit = run.plans[k].unit => s.version < run.plans[k].version
      BY <1>4, <3>5
    <3> QED
      BY <2>7, <3>6 DEF NewVersion
  <2>14. AtPush' /\ AtTag' /\ AtPushTag'
    BY <2>7 DEF AtPush, AtTag, AtPushTag
  <2> QED
    BY <1>9, <2>8, <2>10, <2>11, <2>12, <2>13, <2>14 DEF IInv, RunInv
<1> QED
  BY <1>10, <1>11

LEMMA ApplyInv == ASSUME IInv, Apply PROVE IInv'
<1>1. PICK skip \in Skip, fetch \in BOOLEAN :
        LET origin == [r \in Repo |-> IF fetch THEN Len(main[r]) ELSE clone[r].origin]
            plan == PlanReleases(origin, skip)
            plans == plan.plans
        IN  /\ clone' = [r \in Repo |-> [clone[r] EXCEPT !.origin = origin[r]]]
            /\ IF plan.failed \/ plans = <<>> \/ \E r \in Required(plans) : ~Ready(r, origin)
               THEN UNCHANGED <<run, runs>>
               ELSE /\ run' = [NoRun EXCEPT !.pc = "checks", !.plans = plans]
                    /\ runs' = runs + 1
  BY DEF Apply
<1>2. run.pc = "idle" /\ UNCHANGED <<main, tags>>
  BY DEF Apply
<1>3. PICK origin : origin = [r \in Repo |-> IF fetch THEN Len(main[r]) ELSE clone[r].origin]
  OBVIOUS
<1>4. PICK plan : plan = PlanReleases(origin, skip)
  OBVIOUS
<1>5. PICK plans : plans = plan.plans
  OBVIOUS
<1>6. /\ clone' = [r \in Repo |-> [clone[r] EXCEPT !.origin = origin[r]]]
      /\ IF plan.failed \/ plans = <<>> \/ \E r \in Required(plans) : ~Ready(r, origin)
         THEN UNCHANGED <<run, runs>>
         ELSE run' = [NoRun EXCEPT !.pc = "checks", !.plans = plans]
  BY <1>1, <1>3, <1>4, <1>5
<1>7. \A r \in Repo : /\ clone[r] \in CloneRecords(r) /\ Len(main[r]) \in Nat
                     /\ clone[r].head \in 1..Len(main[r]) /\ clone[r].origin \in 1..Len(main[r])
  BY DEF IInv, StoreInv, Clones, Mains
<1>8. \A r \in Repo : origin[r] \in clone[r].origin..Len(main[r]) /\ origin[r] \in Nat
  BY <1>3, <1>7
<1>9. \A r \in Repo : /\ clone'[r] \in CloneRecords(r) /\ clone'[r].head = clone[r].head
                     /\ clone'[r].ahead = clone[r].ahead /\ clone'[r].origin = origin[r]
  <2>1. SUFFICES ASSUME NEW r \in Repo
                 PROVE  /\ clone'[r] \in CloneRecords(r) /\ clone'[r].head = clone[r].head
                        /\ clone'[r].ahead = clone[r].ahead /\ clone'[r].origin = origin[r]
    OBVIOUS
  <2>2. PICK e : e = [clone[r] EXCEPT !.origin = origin[r]]
    OBVIOUS
  <2>3. clone'[r] = e
    BY <1>6, <2>2
  <2>4. /\ e \in CloneRecords(r) /\ e.head = clone[r].head /\ e.ahead = clone[r].ahead
        /\ e.origin = origin[r]
    BY <1>7, <1>8, <2>2, OriginSet
  <2> QED
    BY <2>3, <2>4
<1>10. StoreInv'
  <2>1. clone' = [r \in Repo |-> clone'[r]]
    BY <1>6
  <2>2. \A r \in Repo : /\ clone'[r].head \in 1..Len(main[r])
                        /\ clone'[r].origin \in clone[r].origin..Len(main[r])
    BY <1>7, <1>8, <1>9
  <2> QED
    BY <1>2, <1>9, <2>1, <2>2, StoreClones DEF IInv
<1>11. CASE UNCHANGED run
  BY <1>2, <1>10, <1>11, IdleRun DEF IInv, RunInv, Runs
<1>12. CASE ~UNCHANGED run
  <2>1. /\ ~plan.failed /\ plans # <<>> /\ \A r \in Required(plans) : Ready(r, origin)
        /\ run' = [NoRun EXCEPT !.pc = "checks", !.plans = plans]
    BY <1>6, <1>12
  <2>2. Known(origin)
    <3>1. ASSUME NEW t \in tags PROVE t.at <= origin[RepoOf[t.unit]]
      <4>1. t \in TagRecord /\ t.at \in 1..clone[RepoOf[t.unit]].origin
        BY DEF IInv, StoreInv, Tags
      <4>2. RepoOf[t.unit] \in Repo /\ t.at \in Nat
        BY <4>1, UnitAssumption DEF TagRecord
      <4> QED
        BY <1>7, <1>8, <4>1, <4>2
    <3> QED
      BY <3>1 DEF Known
  <2>3. Good(plan, Len(Order))
    BY <1>4, <2>2, PlansGood DEF IInv
  <2>4. plans \in Seq(PlanRecord) /\ DistinctPlans(plans) /\ \A k \in DOMAIN plans : NewVersion(plans[k])
    BY <1>5, <2>1, <2>3 DEF Good
  <2> DEFINE P == Seq(PlanRecord)
             none == [r \in Repo |-> 0]
  <2>5. none \in [Repo -> Nat] /\ "checks" \in Phase /\ "idle" \in Phase /\ 1 \in Nat /\ <<>> \in P
    BY DEF Phase
  <2>6. NoRun = [pc |-> "idle", plans |-> <<>>, i |-> 1, checked |-> none]
    BY DEF NoRun
  <2>7. run' = [pc |-> "checks", plans |-> plans, i |-> 1, checked |-> none]
    <3> HIDE DEF P, none
    <3>1. NoRun \in [pc : Phase, plans : P, i : Nat, checked : [Repo -> Nat]]
      BY <2>5, <2>6
    <3>2. plans \in P
      BY <2>4 DEF P
    <3> QED
      BY <2>1, <2>5, <2>6, <3>1, <3>2
  <2>8. /\ run'.pc = "checks" /\ run'.plans = plans /\ run'.i = 1
    BY <2>7
  <2>9. Runs'
    <3>1. Runs' <=> run' \in [pc : Phase, plans : P, i : Nat, checked : [Repo -> Nat]]
      BY DEF Runs
    <3>2. plans \in P
      BY <2>4
    <3> HIDE DEF P, none
    <3> QED
      BY <2>5, <2>7, <3>1, <3>2
  <2>10. Progress'
    <3>1. 1 \in DOMAIN plans
      BY <2>1, <2>4
    <3> QED
      BY <2>4, <2>8, <3>1 DEF Progress
  <2>11. UpToDate'
    <3>1. SUFFICES ASSUME NEW r \in PlannedRepo'
                   PROVE  clone'[r].head = clone'[r].origin /\ clone'[r].ahead = <<>>
      BY DEF UpToDate
    <3>2. PICK k \in DOMAIN plans : r = RepoOf[plans[k].unit]
      BY <2>8 DEF PlannedRepo
    <3>3. r \in Required(plans)
      BY <3>2 DEF Required, Planned
    <3>4. r \in Repo
      <4>1. plans[k] \in PlanRecord
        BY <2>4
      <4> QED
        BY <3>2, <4>1, UnitAssumption DEF PlanRecord
    <3> QED
      BY <1>9, <2>1, <3>3, <3>4 DEF Ready
  <2>12. Newer'
    BY <1>2, <2>4, <2>8 DEF Newer, NewVersion
  <2>13. Green' /\ AtPush' /\ AtTag' /\ AtPushTag'
    BY <2>8 DEF Green, AtPush, AtTag, AtPushTag
  <2> QED
    BY <1>10, <2>9, <2>10, <2>11, <2>12, <2>13 DEF IInv, RunInv
<1> QED
  BY <1>11, <1>12

--------------------------------------------------------------------------------
(* The theorems.                                                             *)

LEMMA NextInv == ASSUME IInv, [Next]_vars PROVE IInv'
<1>1. CASE Apply
  BY <1>1, ApplyInv
<1>2. CASE CheckGreen
  BY <1>2, CheckGreenInv
<1>3. CASE SyncFiles
  BY <1>3, SyncFilesInv
<1>4. CASE NothingToSync
  BY <1>4, NothingToSyncInv
<1>5. CASE Commit
  BY <1>5, CommitInv
<1>6. CASE Push
  BY <1>6, PushInv
<1>7. CASE PushRejected \/ Abort
  BY <1>7, AbortInv
<1>8. CASE Tag
  BY <1>8, TagInv
<1>9. CASE PushTag
  BY <1>9, PushTagInv
<1>10. ASSUME NEW r \in Repo, Develop(r) PROVE IInv'
  BY <1>10, DevelopInv
<1>11. ASSUME NEW r \in Repo, Pull(r) PROVE IInv'
  BY <1>11, PullInv
<1>12. CASE UNCHANGED vars
  <2>1. StoreInv'
    BY <1>12, StoreSame DEF IInv, vars
  <2>2. PlannedRepo' = PlannedRepo /\ Plan' = Plan /\ PlanRepo' = PlanRepo
    BY <1>12 DEF vars, PlannedRepo, Plan, PlanRepo
  <2>3. RunInv'
    BY <1>12, <2>2 DEF vars, IInv, RunInv, Runs, Progress, UpToDate, Newer, NewVersion, Green,
      OnlyReleases, AtPush, AtTag, AtPushTag, Right
  <2> QED
    BY <2>1, <2>3 DEF IInv
<1> QED
  BY <1>1, <1>2, <1>3, <1>4, <1>5, <1>6, <1>7, <1>8, <1>9, <1>10, <1>11, <1>12 DEF Next

\* what every reachable state of the clones, GitHub and the run satisfies
THEOREM Invariant == Spec => []IInv
<1>1. IInv /\ [Next]_vars => IInv'
  BY NextInv
<1> QED
  BY <1>1, InitInv, PTL DEF Spec

\* Every tag, pushed or not, is on a commit of main whose source has the version
\* it names, however runs of apply were cut short and whatever others pushed.
THEOREM TagsReleasableHolds == Spec => []TagsReleasable
<1>1. IInv => TagsReleasable
  BY DEF IInv, StoreInv
<1> QED
  BY <1>1, Invariant, PTL

\* No version is tagged twice, and a higher version of a unit is never on an
\* earlier commit than a lower one.
THEOREM VersionsAscendHolds == Spec => []VersionsAscend
<1>1. IInv => VersionsAscend
  BY DEF IInv, StoreInv
<1> QED
  BY <1>1, Invariant, PTL

\* only PushTag pushes a tag, and it is the one that the plan names
LEMMA WhatIsPushed ==
  ASSUME IInv, [Next]_vars, NEW t \in PushedTag
  PROVE  /\ PushTag /\ run.pc = "push_tag" /\ t.unit = Plan.unit /\ t.at = clone[PlanRepo].head
         /\ UNCHANGED main
<1>1. t \in tags' /\ t.pushed /\ t \notin tags
  BY DEF PushedTag
<1>2. CASE UNCHANGED tags
  BY <1>1, <1>2
<1>3. CASE Tag /\ ~UNCHANGED tags
  <2>1. PICK new : /\ new = [unit |-> Plan.unit, version |-> Plan.version,
                             at |-> clone[PlanRepo].head, pushed |-> FALSE]
                   /\ tags' = tags \cup {new}
    BY <1>3 DEF Tag
  <2>2. t = new
    BY <1>1, <2>1
  <2>3. ~new.pushed
    BY <2>1
  <2> QED
    BY <1>1, <2>2, <2>3
<1>4. CASE PushTag
  <2>1. Tags
    BY DEF IInv, StoreInv
  <2>2. PICK s \in tags : /\ t.unit = s.unit /\ t.version = s.version /\ t.at = s.at
                          /\ t = s \/ (s.unit = Plan.unit /\ s.version = Plan.version)
    BY <1>1, <1>4, <2>1, PushedTags, Zenon
  <2>3. s.unit = Plan.unit /\ s.version = Plan.version
    BY <1>1, <2>2
  <2>4. run.pc = "push_tag" /\ UNCHANGED main
    BY <1>4 DEF PushTag
  <2>5. s.at = clone[PlanRepo].head
    BY <2>3, <2>4 DEF IInv, RunInv, AtPushTag
  <2> QED
    BY <1>4, <2>2, <2>3, <2>4, <2>5
<1>5. UNCHANGED tags \/ Tag \/ PushTag
  BY DEF Next, vars, Apply, CheckGreen, SyncFiles, NothingToSync, Commit, Push, PushRejected, Abort, Develop, Pull
<1> QED
  BY <1>2, <1>3, <1>4, <1>5

\* What a pushed tag is on was seen green by its own run, but for release commits
\* on top of it, whatever was planned, interrupted or pushed meanwhile.
THEOREM TaggedIsGreenHolds == Spec => TaggedIsGreen
<1> DEFINE Step == \A t \in PushedTag : OnlyReleases(RepoOf[t.unit], run.checked[RepoOf[t.unit]], t.at)
<1>1. IInv /\ [Next]_vars => Step
  <2>1. SUFFICES ASSUME IInv, [Next]_vars, NEW t \in PushedTag
                 PROVE  OnlyReleases(RepoOf[t.unit], run.checked[RepoOf[t.unit]], t.at)
    OBVIOUS
  <2>2. run.pc = "push_tag" /\ t.unit = Plan.unit /\ t.at = clone[PlanRepo].head
    BY <2>1, WhatIsPushed
  <2>3. PlanRepo \in PlannedRepo /\ RepoOf[t.unit] = PlanRepo
    BY <2>1, <2>2, PlanFacts DEF PlanRepo
  <2> QED
    BY <2>1, <2>2, <2>3 DEF IInv, RunInv, Green
<1>2. IInv /\ [Next]_vars => [Step]_vars
  BY <1>1
<1> QED
  BY <1>2, Invariant, PTL DEF Spec, TaggedIsGreen

\* The refs that a released stack pins contain every tag of the components there
\* is at that moment, the ones of the same run included.
THEOREM PinsReleasedHolds == Spec => PinsReleased
<1> DEFINE Step == \A t \in PushedTag :
                     t.unit = Stack =>
                        \A s \in tags :
                           RepoOf[s.unit] \in Pinned =>
                              s.at <= main[StackRepo][t.at].pins[RepoOf[s.unit]]
<1>1. IInv /\ [Next]_vars => Step
  <2>1. SUFFICES ASSUME IInv, [Next]_vars, NEW t \in PushedTag, t.unit = Stack,
                        NEW s \in tags, RepoOf[s.unit] \in Pinned
                 PROVE  s.at <= main[StackRepo][t.at].pins[RepoOf[s.unit]]
    OBVIOUS
  <2>2. run.pc = "push_tag" /\ t.unit = Plan.unit /\ t.at = clone[PlanRepo].head
    BY <2>1, WhatIsPushed
  <2>3. PlanRepo = StackRepo
    BY <2>1, <2>2, PlanFacts
  <2>4. Right(main[PlanRepo][clone[PlanRepo].head])
    BY <2>1, <2>2 DEF IInv, RunInv, AtTag
  <2>5. main[StackRepo][t.at].pins[RepoOf[s.unit]] = clone[RepoOf[s.unit]].origin
    BY <2>1, <2>2, <2>3, <2>4 DEF Right
  <2>6. RepoOf[s.unit] \in Repo /\ s.at \in 1..clone[RepoOf[s.unit]].origin
    BY <2>1, UnitAssumption DEF IInv, StoreInv, Tags
  <2>7. clone[RepoOf[s.unit]].origin \in Nat
    BY <2>1, <2>6 DEF IInv, StoreInv, Clones, CloneRecords
  <2> QED
    BY <2>5, <2>6, <2>7
<1>2. IInv /\ [Next]_vars => [Step]_vars
  BY <1>1
<1> QED
  BY <1>2, Invariant, PTL DEF Spec, PinsReleased
================================================================================
