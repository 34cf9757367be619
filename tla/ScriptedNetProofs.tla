----------------------------- MODULE ScriptedNetProofs -----------------------------
(***************************************************************************)
(* Whatever nodes a phase talks to and however these lag behind one        *)
(* another, no check of it fails that should hold, no check passes without *)
(* what it is a check of, and all is put back.                             *)
(*                                                                         *)
(* The argument has two parts.  What a step needs can be read off the      *)
(* script (Careful and Tidy of ScriptRules), from what the course says is  *)
(* known before the step; and what the course says is the case, in every   *)
(* state that is reached there (Shown).  The second is the invariant: each *)
(* fact of the course (Facts) is kept by all that nodes and indexer do,    *)
(* and a step leads from the facts before it to the facts after it, unless *)
(* it raises the alarm, and its rule excludes that.                        *)
(***************************************************************************)
EXTENDS ScriptRules, SequenceTheorems, WellFoundedInduction, TLAPS

--------------------------------------------------------------------------------
(* Least and greatest numbers, and what is beyond all that is counted.       *)

\* A set of natural numbers that is not empty has a least one.
LEMMA LeastOf ==
  ASSUME NEW T \in SUBSET Nat, T # {}
  PROVE  Min(T) \in T /\ \A y \in T : Min(T) <= y
<1>1. PICK x \in T : \A y \in T : ~(<<y, x>> \in OpToRel(<, Nat))
  <2>1. IsWellFoundedOn(OpToRel(<, Nat), Nat)
    BY NatLessThanWellFounded
  <2> QED
    BY <2>1, WFMin
<1>2. \A y \in T : ~(y < x)
  BY <1>1 DEF OpToRel
<1>3. \A y \in T : y \in Nat /\ x \in Nat /\ x <= y
  BY <1>2
<1> QED
  BY <1>3 DEF Min

\* One that has a bound has a greatest one.
LEMMA GreatestOf ==
  ASSUME NEW T \in SUBSET Nat, T # {}, NEW b \in Nat, \A y \in T : y <= b
  PROVE  Max(T) \in T /\ \A y \in T : y <= Max(T)
<1> DEFINE U == {k \in Nat : \E y \in T : y = b - k}
<1>1. \A y \in T : b - y \in U
  BY DEF U
<1>2. PICK k \in U : \A l \in U : ~(<<l, k>> \in OpToRel(<, Nat))
  <2>1. IsWellFoundedOn(OpToRel(<, Nat), Nat)
    BY NatLessThanWellFounded
  <2>2. U # {} /\ U \in SUBSET Nat
    BY <1>1
  <2> HIDE DEF U
  <2> QED
    BY <2>1, <2>2, WFMin
<1>3. \A l \in U : ~(l < k)
  BY <1>2 DEF OpToRel
<1>4. PICK x \in T : x = b - k
  BY DEF U
<1>5. ASSUME NEW y \in T PROVE y <= x
  <2>1. ~(b - y < k) /\ k \in Nat /\ x \in Nat /\ y \in Nat
    BY <1>1, <1>3
  <2> QED
    BY <1>4, <2>1
<1> QED
  BY <1>4, <1>5 DEF Max

\* The greater of two numbers.
LEMMA MaxOfTwo ==
  ASSUME NEW a \in Int, NEW b \in Int
  PROVE  Max({a, b}) = IF a >= b THEN a ELSE b
<1> DEFINE m == IF a >= b THEN a ELSE b
<1>1. m \in {a, b} /\ \A y \in {a, b} : m >= y
  OBVIOUS
<1>2. \A x \in {a, b} : (\A y \in {a, b} : x >= y) => x = m
  OBVIOUS
<1> HIDE DEF m
<1>3. Max({a, b}) = m
  BY <1>1, <1>2 DEF Max
<1> QED
  BY <1>3 DEF m

\* the horizon is behind every node
Beyond(f, u) == 1 + Max({f[n] : n \in Node} \cup {u})

\* It is beyond every age and lag, and beyond what is not indexed.
LEMMA BeyondAll ==
  ASSUME NEW f \in [Node -> Nat], NEW u \in Nat
  PROVE  /\ Beyond(f, u) \in Nat \ {0}
         /\ \A n \in Node : f[n] < Beyond(f, u)
         /\ u < Beyond(f, u)
<1> DEFINE T == {f[n] : n \in Node} \cup {u}
           b == f[0] + f[1] + f[2] + f[3] + f[4] + u
<1>1. Node = {0, 1, 2, 3, 4}
  BY DEF Node
<1>2. b \in Nat /\ \A y \in T : y <= b
  BY <1>1
<1>3. T # {} /\ T \in SUBSET Nat
  OBVIOUS
<1> HIDE DEF T, b
<1>4. Max(T) \in T /\ \A y \in T : y <= Max(T)
  BY <1>2, <1>3, GreatestOf
<1>5. Max(T) \in Nat
  BY <1>3, <1>4
<1>6. /\ \A n \in Node : f[n] \in Nat /\ f[n] <= Max(T)
      /\ u <= Max(T)
  BY <1>4 DEF T
<1>7. Beyond(f, u) = 1 + Max(T)
  BY DEF Beyond, T
<1> QED
  BY <1>5, <1>6, <1>7

\* what a block does to an age, and to what is counted down
LEMMA OlderIs ==
  ASSUME NEW a \in Nat, NEW h \in Nat
  PROVE  /\ Older(a, h) \in Nat /\ Older(a, h) <= a
         /\ Older(a, h) = a \/ Older(a, h) = h
BY DEF Older

--------------------------------------------------------------------------------
(* The kinds of the variables.                                               *)

\* the powers that a phase gives; what sets and ballot are made of
PowersIn(s) == {Same, s.powers} \cup {s.steps[i].power : i \in DOMAIN s.steps}
Change(s) == [in : Int, power : PowersIn(s)]
Ballot(s) == [needs : Nat, key : {Nothing} \cup {s.steps[i].key : i \in DOMAIN s.steps}, power : PowersIn(s)]

RunKinds ==
    /\ phase \in DOMAIN Script /\ pc \in DOMAIN script.steps
    /\ status \in {"running", "ok", "raised", "alarm"} /\ begun \in BOOLEAN
    /\ hollow \in BOOLEAN /\ due \in Int
NetKinds ==
    /\ up \subseteq Node /\ cut \subseteq Node
    /\ lag \in [Node -> Nat] /\ unindexed \in Nat
    /\ DOMAIN age = Keys(script.steps) /\ \A k \in DOMAIN age : age[k] \in Nat
PowerKinds ==
    /\ ballot \in Ballot(script)
    /\ sets \in Seq(Change(script)) /\ Len(sets) > 0
    /\ \A n \in Node : sets[1].in + lag[n] <= 1
Kinds == RunKinds /\ NetKinds /\ PowerKinds

\* what is said of the script of a phase
LEMMA ScriptIs ==
  ASSUME RunKinds
  PROVE  /\ Lag[phase] \in Nat
         /\ Len(script.steps) \in Nat \ {0} /\ DOMAIN script.steps = 1..Len(script.steps)
         /\ IsStep(step) /\ step.power \in PowersIn(script)
         /\ step.key \in {Nothing} \cup {script.steps[i].key : i \in DOMAIN script.steps}
         /\ script.revived \subseteq Node
BY ScriptAssumption, LagAssumption DEF RunKinds, IsPhase, script, step, PowersIn

\* What a block does to the heights and the ages.
LEMMA ChainIs ==
  ASSUME RunKinds, NetKinds, NEW at \in Connected, NEW keys, Chain(at, keys)
  PROVE  /\ Horizon \in Nat \ {0} /\ lag' \in [Node -> Nat] /\ unindexed' \in Nat
         /\ \A n \in Node : lag'[n] < Horizon /\ (lag'[n] = 0 \/ lag'[n] = lag[n] + 1)
         /\ lag'[at] = 0
         /\ \A n \in Connected : lag'[n] <= Lag[phase]
         /\ DOMAIN age' = DOMAIN age
         /\ \A k \in DOMAIN age : /\ age'[k] \in Nat
                                  /\ k \in keys \ {Nothing} => age'[k] = 0
                                  /\ k \notin keys \ {Nothing} => age'[k] = Older(age[k] + 1, Horizon)
         /\ due' = IF due - 1 >= -Horizon THEN due - 1 ELSE -Horizon
<1>1. at \in Node /\ Connected \subseteq Node
  BY DEF Connected, NetKinds
<1>2. Lag[phase] \in Nat
  BY ScriptIs
<1>3. lag' = [n \in Node |-> IF n \in AtOnce(at) THEN 0 ELSE lag[n] + 1]
  BY DEF Chain
<1>4. lag' \in [Node -> Nat] /\ unindexed' \in Nat
  BY <1>3 DEF Chain, NetKinds
<1>5. Horizon = Beyond(lag', unindexed')
  BY DEF Horizon, Beyond
<1>6. Horizon \in Nat \ {0} /\ \A n \in Node : lag'[n] < Horizon
  BY <1>4, <1>5, BeyondAll
<1>7. lag'[at] = 0
  BY <1>1, <1>3 DEF AtOnce
<1>8. ASSUME NEW n \in Connected PROVE lag'[n] <= Lag[phase]
  <2>1. n \in AtOnce(at) \/ lag[n] < Lag[phase]
    BY DEF Chain, KeepUp, AtOnce
  <2> QED
    BY <1>1, <1>2, <1>3, <2>1 DEF NetKinds
<1>9. /\ age' = [k \in DOMAIN age |-> IF k \in keys \ {Nothing} THEN 0 ELSE Older(age[k] + 1, Horizon)]
      /\ due' = Max({due - 1, -Horizon})
  BY DEF Chain
<1>10. ASSUME NEW k \in DOMAIN age PROVE Older(age[k] + 1, Horizon) \in Nat
  <2>1. age[k] + 1 \in Nat
    BY DEF NetKinds
  <2> QED
    BY <1>6, <2>1, OlderIs
<1>11. due' = IF due - 1 >= -Horizon THEN due - 1 ELSE -Horizon
  <2>1. due - 1 \in Int /\ -Horizon \in Int
    BY <1>6 DEF RunKinds
  <2> QED
    BY <1>9, <2>1, MaxOfTwo
<1> QED
  BY <1>1, <1>3, <1>4, <1>6, <1>7, <1>8, <1>9, <1>10, <1>11

\* What it does to the powers: those that were given last stay so.
LEMMA SoonerIs ==
  ASSUME NEW X, NEW s \in Seq([in : Int, power : X]), Len(s) > 0, Horizon \in Nat \ {0}
  PROVE  /\ Sooner(s) \in Seq([in : Int, power : X]) /\ Len(Sooner(s)) > 0
         /\ Last(Sooner(s)).power = Last(s).power
         /\ Last(Sooner(s)).in = IF Last(s).in - 1 >= -Horizon THEN Last(s).in - 1 ELSE -Horizon
         /\ \/ Sooner(s)[1].in = -Horizon
            \/ Sooner(s)[1].in = s[1].in - 1
<1> DEFINE C == [in : Int, power : X]
           on == [i \in DOMAIN s |-> [s[i] EXCEPT !.in = Max({@ - 1, -Horizon})]]
           firsts == {i \in DOMAIN on : i = 1 \/ on[i].in = -Horizon}
           first == Max(firsts)
<1>1. Len(s) \in Nat \ {0} /\ DOMAIN s = 1..Len(s)
  OBVIOUS
<1>2. ASSUME NEW i \in DOMAIN s
      PROVE  /\ on[i] \in C /\ on[i].power = s[i].power
             /\ on[i].in = IF s[i].in - 1 >= -Horizon THEN s[i].in - 1 ELSE -Horizon
  <2>1. s[i] \in C /\ s[i].in - 1 \in Int /\ -Horizon \in Int
    <3>1. s[i] \in C
      BY <1>1, ElementOfSeq
    <3>2. s[i].in \in Int
      BY <3>1
    <3> QED
      BY <3>1, <3>2
  <2>2. Max({s[i].in - 1, -Horizon}) = IF s[i].in - 1 >= -Horizon THEN s[i].in - 1 ELSE -Horizon
    BY <2>1, MaxOfTwo
  <2>3. on[i] = [s[i] EXCEPT !.in = Max({s[i].in - 1, -Horizon})]
    OBVIOUS
  <2> QED
    BY <2>1, <2>2, <2>3
<1>3. DOMAIN on = 1..Len(s) /\ on = [i \in 1..Len(s) |-> on[i]]
  BY <1>1
<1>4. Sooner(s) = SubSeq(on, first, Len(on))
  BY DEF Sooner
<1> HIDE DEF on
<1>5. on \in Seq(C) /\ Len(on) = Len(s)
  BY <1>1, <1>2, <1>3
<1>6. first \in firsts
  <2>1. firsts \in SUBSET Nat /\ 1 \in firsts /\ \A y \in firsts : y <= Len(s)
    BY <1>1, <1>3
  <2> QED
    BY <1>1, <2>1, GreatestOf
<1>7. first \in 1..Len(s) /\ (first = 1 \/ on[first].in = -Horizon)
  BY <1>3, <1>6
<1> HIDE DEF first, firsts
<1> DEFINE t == SubSeq(on, first, Len(s))
<1>8. t \in Seq(C) /\ Len(t) = Len(s) - first + 1 /\ \A i \in 1..Len(t) : t[i] = on[first + i - 1]
  <2>1. \A i \in first..Len(s) : on[i] \in C
    BY <1>1, <1>2, <1>7
  <2>2. first \in Int /\ Len(s) \in Int /\ first <= Len(s)
    BY <1>1, <1>7
  <2> HIDE DEF C
  <2> QED
    BY <2>1, <2>2, SubSeqProperties
<1>9. Len(t) > 0 /\ t[1] = on[first] /\ t[Len(t)] = on[Len(s)]
  BY <1>1, <1>7, <1>8
<1>10. Sooner(s) = t
  BY <1>4, <1>5
<1> HIDE DEF t
<1>11. 1 \in DOMAIN s /\ Len(s) \in DOMAIN s
  BY <1>1
<1> QED
  BY <1>2, <1>7, <1>8, <1>9, <1>10, <1>11 DEF Last

--------------------------------------------------------------------------------
(* What the parts of a step do to them.                                      *)

\* The parts of Kinds that a step leaves as they are.
LEMMA SameNet ==
  ASSUME NetKinds, UNCHANGED <<phase, lag, unindexed, age>>, up' \subseteq Node, cut' \subseteq Node
  PROVE  NetKinds'
BY DEF NetKinds, script

\* And the powers, while no block is made.
LEMMA SamePowers ==
  ASSUME PowerKinds, UNCHANGED <<phase, lag, ballot, sets>>
  PROVE  PowerKinds'
<1>1. script' = script
  BY DEF script
<1> QED
  BY <1>1 DEF PowerKinds

\* The step after this one, or the end.
LEMMA NextKinds ==
  ASSUME RunKinds, NextStep, hollow' \in BOOLEAN, due' \in Int
  PROVE  RunKinds' /\ UNCHANGED phase
<1>1. phase' = phase /\ script' = script /\ begun' = FALSE
  BY DEF NextStep, script
<1>2. Len(script.steps) \in Nat \ {0} /\ DOMAIN script.steps = 1..Len(script.steps)
  BY ScriptIs
<1>3. status' \in {"running", "ok", "raised", "alarm"} /\ pc' \in DOMAIN script.steps
  BY <1>2 DEF NextStep, RunKinds
<1> QED
  BY <1>1, <1>3 DEF RunKinds

\* A step that is done, with the next one or the end of the phase.
LEMMA ContinueKinds ==
  ASSUME Kinds, Continue
  PROVE  Kinds'
<1>1. RunKinds' /\ UNCHANGED phase
  BY NextKinds DEF Continue, Advance, Kinds, RunKinds
<1>2. NetKinds'
  BY <1>1, SameNet DEF Continue, chainVars, Kinds, NetKinds
<1>3. PowerKinds'
  BY <1>1, SamePowers DEF Continue, chainVars, Kinds
<1> QED
  BY <1>1, <1>2, <1>3 DEF Kinds

\* A step that passes because what it would have tested cannot be tested.
LEMMA PassKinds ==
  ASSUME Kinds, PassUntested
  PROVE  Kinds'
<1>1. RunKinds' /\ UNCHANGED phase
  BY NextKinds DEF PassUntested, Kinds, RunKinds
<1>2. NetKinds'
  BY <1>1, SameNet DEF PassUntested, chainVars, Kinds, NetKinds
<1>3. PowerKinds'
  BY <1>1, SamePowers DEF PassUntested, chainVars, Kinds
<1> QED
  BY <1>1, <1>2, <1>3 DEF Kinds

\* A phase that ends early, by an error or by a check that does not hold.
LEMMA LeaveKinds ==
  ASSUME Kinds, NEW how \in {"raised", "alarm"}, Leave(how)
  PROVE  Kinds'
<1>1. /\ UNCHANGED <<phase, pc, begun, hollow, due, lag, unindexed, age, ballot, sets>>
      /\ status' = how
  BY DEF Leave, chainVars
<1>2. RunKinds'
  BY <1>1 DEF Kinds, RunKinds, script
<1>3. up' \subseteq Node /\ cut' \subseteq Node
  BY ScriptIs DEF Leave, Kinds, NetKinds
<1> QED
  BY <1>1, <1>2, <1>3, SameNet, SamePowers DEF Kinds

\* A check that is made and does or does not hold.
LEMMA CheckKinds ==
  ASSUME Kinds, NEW holds, Check(holds)
  PROVE  Kinds'
BY ContinueKinds, LeaveKinds DEF Check

\* A block keeps all, whatever powers it gives.
LEMMA ChainKinds ==
  ASSUME Kinds, NEW at \in Connected, NEW keys, Chain(at, keys), UNCHANGED <<phase, up, cut>>
  PROVE  NetKinds' /\ due' \in Int
<1>1. script' = script
  BY DEF script
<1> QED
  BY <1>1, ChainIs DEF Kinds, NetKinds, RunKinds

\* One block later all powers are in force one block sooner.
LEMMA SoonerKinds ==
  ASSUME Kinds, NEW at \in Connected, NEW keys, Chain(at, keys)
  PROVE  /\ Sooner(sets) \in Seq(Change(script)) /\ Len(Sooner(sets)) > 0
         /\ \A n \in Node : Sooner(sets)[1].in + lag'[n] <= 1
<1>1. sets \in Seq([in : Int, power : PowersIn(script)]) /\ Len(sets) > 0
  BY DEF Kinds, PowerKinds, Change
<1>2. Horizon \in Nat \ {0}
  BY ChainIs DEF Kinds
<1>3. /\ Sooner(sets) \in Seq(Change(script)) /\ Len(Sooner(sets)) > 0
      /\ Sooner(sets)[1].in = -Horizon \/ Sooner(sets)[1].in = sets[1].in - 1
  BY <1>1, <1>2, SoonerIs DEF Change
<1>4. sets[1].in \in Int
  <2>1. 1 \in 1..Len(sets)
    BY <1>1
  <2>2. sets[1] \in [in : Int, power : PowersIn(script)]
    BY <1>1, <2>1, ElementOfSeq
  <2> QED
    BY <2>2
<1>5. ASSUME NEW n \in Node PROVE Sooner(sets)[1].in + lag'[n] <= 1
  <2>1. /\ lag[n] \in Nat /\ lag'[n] \in Nat /\ lag'[n] < Horizon
        /\ lag'[n] = 0 \/ lag'[n] = lag[n] + 1
    BY ChainIs DEF Kinds, NetKinds
  <2>2. sets[1].in + lag[n] <= 1
    BY DEF Kinds, PowerKinds
  <2> QED
    BY <1>2, <1>3, <1>4, <2>1, <2>2
<1> QED
  BY <1>3, <1>5

\* New powers are added to those that are in force or will be.
LEMMA GiveKinds ==
  ASSUME Kinds, NEW at \in Connected, NEW keys, Chain(at, keys),
         NEW power \in PowersIn(script), Give(power) \/ sets' = Sooner(sets),
         UNCHANGED phase, ballot' \in Ballot(script)
  PROVE  PowerKinds'
<1>1. script' = script
  BY DEF script
<1> DEFINE s == Sooner(sets)
           new == [in |-> 2, power |-> power]
<1>2. /\ s \in Seq(Change(script)) /\ Len(s) > 0
      /\ \A n \in Node : s[1].in + lag'[n] <= 1
  BY SoonerKinds
<1>3. sets' = s \/ sets' = Append(s, new)
  BY DEF Give
<1>4. new \in Change(script)
  BY DEF Change
<1> HIDE DEF s, new
<1>5. sets' \in Seq(Change(script)) /\ Len(sets') > 0 /\ sets'[1] = s[1]
  BY <1>2, <1>3, <1>4, AppendProperties
<1> QED
  BY <1>1, <1>2, <1>5 DEF PowerKinds

\* A block that ends its step, or is one of several of it.
LEMMA BlockKinds ==
  ASSUME Kinds, NEW at \in Connected, NEW keys, Block(at, keys),
         UNCHANGED <<phase, up, cut>>, due' \in Int => RunKinds'
  PROVE  Kinds'
<1>1. Chain(at, keys) /\ sets' = Sooner(sets) /\ ballot' = ballot
  BY DEF Block
<1>2. NetKinds' /\ due' \in Int
  BY <1>1, ChainKinds
<1>3. Same \in PowersIn(script) /\ ballot' \in Ballot(script)
  BY <1>1 DEF PowersIn, Kinds, PowerKinds
<1>4. PowerKinds'
  BY <1>1, <1>3, GiveKinds
<1> QED
  BY <1>2, <1>4 DEF Kinds

--------------------------------------------------------------------------------
(* The steps that send transactions.                                         *)

\* A block after which the script goes on with its next step.
LEMMA BlockAdvances ==
  ASSUME Kinds, NEW at \in Connected, NEW keys, Chain(at, keys),
         NEW power \in PowersIn(script), Give(power) \/ sets' = Sooner(sets),
         ballot' \in Ballot(script), NextStep, hollow' \in BOOLEAN, UNCHANGED <<up, cut>>
  PROVE  Kinds'
<1>1. UNCHANGED phase
  BY DEF NextStep
<1>2. NetKinds' /\ due' \in Int
  BY <1>1, ChainKinds
<1>3. RunKinds'
  BY <1>2, NextKinds DEF Kinds
<1>4. PowerKinds'
  BY <1>1, GiveKinds
<1> QED
  BY <1>2, <1>3, <1>4 DEF Kinds

\* A block in the middle of a step, or while one waits.
LEMMA BlockStays ==
  ASSUME Kinds, NEW at \in Connected, NEW keys, Block(at, keys),
         UNCHANGED <<phase, pc, status, begun, hollow, up, cut>>
  PROVE  Kinds'
<1>1. due' \in Int => RunKinds'
  BY DEF Kinds, RunKinds, script
<1> QED
  BY <1>1, BlockKinds

\* One transaction of a step is sent with its nonce.
LEMMA SendTxKinds == ASSUME Kinds, SendTx PROVE Kinds'
<1>1. PICK t \in step.txs \ sent :
          /\ t.at \in Connected
          /\ IF Knows(t.at, t.who)
             THEN /\ Block(t.at, {t.who, t.key})
                  /\ IF step.txs = sent \cup {t} THEN Advance
                     ELSE sent' = sent \cup {t} /\ UNCHANGED <<phase, pc, status, begun, hollow>>
                  /\ UNCHANGED <<taken, up, cut>>
             ELSE IF step.lenient THEN PassUntested ELSE Leave("alarm")
  BY DEF SendTx
<1>2. CASE Knows(t.at, t.who) /\ step.txs = sent \cup {t}
  <2>1. /\ Chain(t.at, {t.who, t.key}) /\ sets' = Sooner(sets) /\ ballot' = ballot
        /\ NextStep /\ hollow' = hollow /\ UNCHANGED <<up, cut>>
    BY <1>1, <1>2 DEF Block, Advance
  <2>2. Same \in PowersIn(script) /\ ballot' \in Ballot(script) /\ hollow' \in BOOLEAN
    BY <2>1 DEF PowersIn, Kinds, PowerKinds, RunKinds
  <2> QED
    BY <1>1, <2>1, <2>2, BlockAdvances
<1>3. CASE Knows(t.at, t.who) /\ step.txs # sent \cup {t}
  BY <1>1, <1>3, BlockStays
<1>4. CASE ~Knows(t.at, t.who)
  BY <1>1, <1>4, PassKinds, LeaveKinds
<1> QED
  BY <1>2, <1>3, <1>4

\* A transaction is sent over whichever node takes it.
LEMMA SendOverKinds == ASSUME Kinds, SendOver PROVE Kinds'
<1>1. PICK n \in Node, r \in Node :
          /\ n \in Healthy(step.excluded)
          /\ r \in Connected \ (step.excluded \cup {Bds})
          /\ IF ~Knows(n, step.who) THEN Leave("alarm")
             ELSE /\ Block(r, {step.who, step.key})
                  /\ Advance
                  /\ UNCHANGED <<taken, up, cut>>
  BY DEF SendOver
<1>2. CASE Knows(n, step.who)
  <2>1. /\ Chain(r, {step.who, step.key}) /\ sets' = Sooner(sets) /\ ballot' = ballot
        /\ NextStep /\ hollow' = hollow /\ UNCHANGED <<up, cut>>
    BY <1>1, <1>2 DEF Block, Advance
  <2>2. Same \in PowersIn(script) /\ ballot' \in Ballot(script) /\ hollow' \in BOOLEAN
    BY <2>1 DEF PowersIn, Kinds, PowerKinds, RunKinds
  <2> QED
    BY <1>1, <2>1, <2>2, BlockAdvances
<1> QED
  BY <1>1, <1>2, LeaveKinds

\* A vote is proposed.
LEMMA ProposeKinds == ASSUME Kinds, ProposeVote PROVE Kinds'
<1>1. /\ Doing("propose") /\ step.at \in Connected
      /\ IF ~Knows(step.at, step.who) THEN Leave("alarm")
         ELSE /\ Chain(step.at, {step.who}) /\ sets' = Sooner(sets)
              /\ \E k \in 1..step.votes :
                    ballot' = [needs |-> k, key |-> step.key, power |-> step.power]
              /\ Advance
              /\ UNCHANGED <<taken, up, cut>>
  BY DEF ProposeVote
<1>2. CASE Knows(step.at, step.who)
  <2>1. PICK k \in 1..step.votes : ballot' = [needs |-> k, key |-> step.key, power |-> step.power]
    BY <1>1, <1>2
  <2>2. /\ step.votes \in Nat /\ step.power \in PowersIn(script)
        /\ step.key \in {Nothing} \cup {script.steps[i].key : i \in DOMAIN script.steps}
    BY <1>1, ScriptIs DEF Kinds, IsStep, Doing
  <2>3. ballot' \in Ballot(script)
    BY <2>1, <2>2 DEF Ballot
  <2>4. Same \in PowersIn(script) /\ hollow' \in BOOLEAN /\ NextStep
    BY <1>1, <1>2 DEF PowersIn, Kinds, RunKinds, Advance
  <2> QED
    BY <1>1, <1>2, <2>3, <2>4, BlockAdvances
<1> QED
  BY <1>1, <1>2, LeaveKinds

\* New powers are decided without a vote.
LEMMA ElectKinds == ASSUME Kinds, ElectValidators PROVE Kinds'
<1>1. /\ step.at \in Connected
      /\ IF ~Knows(step.at, step.who) THEN Leave("alarm")
         ELSE /\ Chain(step.at, {step.who, step.key}) /\ Give(step.power)
              /\ Advance
              /\ UNCHANGED <<ballot, taken, up, cut>>
  BY DEF ElectValidators
<1>2. CASE Knows(step.at, step.who)
  <2>1. /\ step.power \in PowersIn(script) /\ ballot' \in Ballot(script)
        /\ hollow' \in BOOLEAN /\ NextStep
    BY <1>1, <1>2, ScriptIs DEF Kinds, RunKinds, PowerKinds, Advance
  <2> QED
    BY <1>1, <1>2, <2>1, BlockAdvances
<1> QED
  BY <1>1, <1>2, LeaveKinds

\* A vote is cast if the ballot is not known to be decided, and the last one decides it.
LEMMA CastKinds == ASSUME Kinds, CastVote PROVE Kinds'
<1>1. /\ step.at \in Connected
      /\ \/ SeenApproved(step.readers) /\ Continue
         \/ /\ ~SeenApproved(step.asked)
            /\ IF ~Knows(step.at, step.who) \/ ballot.needs = 0 THEN Leave("alarm")
               ELSE /\ IF ballot.needs = 1 THEN Decide
                       ELSE Chain(step.at, {step.who}) /\ sets' = Sooner(sets)
                    /\ ballot' = [ballot EXCEPT !.needs = @ - 1]
                    /\ Advance
                    /\ UNCHANGED <<taken, up, cut>>
  BY DEF CastVote
<1>2. ASSUME /\ Knows(step.at, step.who) /\ ballot.needs # 0
             /\ IF ballot.needs = 1 THEN Decide
                ELSE Chain(step.at, {step.who}) /\ sets' = Sooner(sets)
             /\ ballot' = [ballot EXCEPT !.needs = @ - 1]
             /\ Advance
             /\ UNCHANGED <<taken, up, cut>>
      PROVE  Kinds'
  <2>1. ballot \in Ballot(script) /\ ballot.power \in PowersIn(script) /\ ballot.needs \in Nat
    BY DEF Kinds, PowerKinds, Ballot
  <2>2. ballot' \in Ballot(script)
    BY <1>2, <2>1 DEF Ballot
  <2>3. hollow' \in BOOLEAN /\ NextStep /\ UNCHANGED <<up, cut>>
    BY <1>2 DEF Kinds, RunKinds, Advance
  <2>4. PICK keys : Chain(step.at, keys) /\ (Give(ballot.power) \/ sets' = Sooner(sets))
    BY <1>2 DEF Decide
  <2> QED
    BY <1>1, <2>1, <2>2, <2>3, <2>4, BlockAdvances
<1> QED
  BY <1>1, <1>2, ContinueKinds, LeaveKinds

--------------------------------------------------------------------------------
(* The steps that look, wait, stop, start, take and put back.                *)

\* the steps that only look
Looks ==
    \/ Refuse \/ SkipTopUp \/ ReadOne \/ ReadAllNodes \/ ReadAnyNode \/ PickNode \/ AwaitOne
    \/ AgreeAll \/ CompareHashes \/ Settled \/ ReachMark \/ NoProgress \/ AwaitIndexed
    \/ CountValidators \/ AwaitApproved

\* The checks that only look at nodes go on or raise the alarm.
LEMMA LookIs == ASSUME Looks PROVE Continue \/ Leave("alarm")
<1>1. CASE Refuse \/ SkipTopUp \/ ReadOne \/ ReadAllNodes \/ ReadAnyNode \/ PickNode \/ AwaitOne
  BY <1>1 DEF Refuse, SkipTopUp, ReadOne, ReadAllNodes, ReadAnyNode, PickNode, AwaitOne, Await, Check
<1>2. CASE AgreeAll \/ CompareHashes \/ Settled \/ ReachMark \/ NoProgress
  BY <1>2 DEF AgreeAll, CompareHashes, Settled, ReachMark, NoProgress, Await, Check
<1>3. CASE AwaitIndexed \/ CountValidators \/ AwaitApproved
  BY <1>3 DEF AwaitIndexed, CountValidators, AwaitApproved, Await, Check
<1> QED
  BY <1>1, <1>2, <1>3 DEF Looks

\* the least height of some nodes
LEMMA LowestLag ==
  ASSUME NetKinds, NEW nodes \in SUBSET Node, nodes # {}
  PROVE  \E m \in nodes : Min({lag[n] : n \in nodes}) = lag[m] /\ \A n \in nodes : lag[m] <= lag[n]
<1> DEFINE T == {lag[n] : n \in nodes}
<1>1. T \in SUBSET Nat /\ T # {}
  BY DEF NetKinds
<1>2. Min(T) \in T /\ \A y \in T : Min(T) <= y
  BY <1>1, LeastOf
<1>3. PICK m \in nodes : Min(T) = lag[m]
  BY <1>2
<1> QED
  BY <1>2, <1>3

\* the key that a step is about
LEMMA KeyOfStep ==
  ASSUME Kinds, "key" \in DOMAIN step
  PROVE  step.key \in DOMAIN age
<1>1. step.key \in Mentioned(script.steps[pc])
  BY DEF Mentioned, step
<1>2. pc \in DOMAIN script.steps
  BY DEF Kinds, RunKinds
<1>3. step.key \in Keys(script.steps)
  BY <1>1, <1>2 DEF Keys
<1> QED
  BY <1>3 DEF Kinds, NetKinds

\* A step that sets the height that is remembered, or changes which nodes run.
LEMMA TurnKinds ==
  ASSUME Kinds, due' \in Int, up' \subseteq Node, cut' \subseteq Node, UNCHANGED chainVars,
         Advance \/ (UNCHANGED <<phase, pc, status, hollow>> /\ begun' \in BOOLEAN)
  PROVE  Kinds'
<1>1. UNCHANGED <<phase, lag, unindexed, age, ballot, sets, hollow>>
  BY DEF Advance, NextStep, chainVars
<1>2. RunKinds'
  <2>1. CASE Advance
    BY <1>1, <2>1, NextKinds DEF Kinds, RunKinds, Advance
  <2>2. CASE UNCHANGED <<phase, pc, status, hollow>> /\ begun' \in BOOLEAN
    BY <2>2 DEF Kinds, RunKinds, script
  <2> QED
    BY <2>1, <2>2
<1> QED
  BY <1>1, <1>2, SameNet, SamePowers DEF Kinds

\* Before nodes are waited for, the height of one is remembered.
LEMMA SnapshotKinds == ASSUME Kinds, Snapshot PROVE Kinds'
<1> DEFINE top == Min({lag[n] : n \in Connected})
<1>1. Connected # {} /\ Connected \subseteq Node
  BY DEF Snapshot, Connected
<1>2. top \in Nat
  BY <1>1, LowestLag DEF Kinds, NetKinds
<1>3. step.advance \in Nat
  BY ScriptIs DEF Kinds, IsStep, Snapshot, Doing
<1>4. due' \in {step.advance - top, 0 - top}
  BY DEF Snapshot
<1> HIDE DEF top
<1>5. due' \in Int
  BY <1>2, <1>3, <1>4
<1>6. begun' = TRUE /\ UNCHANGED <<phase, pc, status, hollow, up, cut, chainVars>>
  BY DEF Snapshot
<1> QED
  BY <1>5, <1>6, TurnKinds DEF Kinds, NetKinds

\* A height is remembered, with some blocks added.
LEMMA MarkKinds == ASSUME Kinds, MarkHeight PROVE Kinds'
<1>1. Advance /\ UNCHANGED <<up, cut, chainVars>>
  BY DEF MarkHeight
<1>2. IsStep(step) /\ step.op \in {"mark", "marker", "due"}
  BY ScriptIs DEF Kinds, MarkHeight, Doing
<1>3. step.more \in Nat
  BY <1>2 DEF IsStep
<1>4. CASE step.at \in Node /\ due' = step.more - lag[step.at]
  <2>1. lag[step.at] \in Nat
    BY <1>4 DEF Kinds, NetKinds
  <2>2. due' \in Int
    BY <1>3, <1>4, <2>1
  <2> QED
    BY <1>1, <2>2, TurnKinds DEF Kinds, NetKinds
<1>5. CASE Doing("due") /\ due' = step.more - age[step.key]
  <2>1. step.key \in DOMAIN age
    BY <1>2, <1>5, KeyOfStep DEF IsStep, Doing
  <2>2. due' \in Int
    BY <1>3, <1>5, <2>1 DEF Kinds, NetKinds
  <2> QED
    BY <1>1, <2>2, TurnKinds DEF Kinds, NetKinds
<1> QED
  BY <1>2, <1>4, <1>5 DEF MarkHeight, Doing, IsStep, Connected

\* The nodes are started again, and waited for.
LEMMA RestartKinds == ASSUME Kinds, Restart PROVE Kinds'
<1>1. CASE Continue
  BY <1>1, ContinueKinds
<1>2. CASE ~Continue
  <2>1. /\ step.op = "restart" /\ up' = Node /\ begun' = TRUE
        /\ due' = step.more - Min({lag[n] : n \in Node})
        /\ UNCHANGED <<phase, pc, status, hollow, chainVars, cut>>
    BY <1>2 DEF Restart, Await, Doing
  <2>2. step.more \in Nat
    BY <2>1, ScriptIs DEF Kinds, IsStep
  <2>3. Min({lag[n] : n \in Node}) \in Nat
    <3>1. Node # {}
      BY DEF Node
    <3> QED
      BY <3>1, LowestLag DEF Kinds, NetKinds
  <2>4. due' \in Int
    BY <2>1, <2>2, <2>3
  <2> QED
    BY <2>1, <2>4, TurnKinds DEF Kinds, NetKinds
<1> QED
  BY <1>1, <1>2

\* the steps that stop, start, cut off, take or put back
LEMMA NodesKinds ==
  ASSUME Kinds, StopNodes \/ StartNodes \/ CutOff \/ Rejoin \/ TakeAway \/ GiveBack
  PROVE  Kinds'
<1>1. CASE Continue
  BY <1>1, ContinueKinds
<1>2. CASE ~Continue
  <2>1. step.op \in {"start", "partition"} => step.nodes \subseteq Node
    BY ScriptIs DEF Kinds, IsStep
  <2>2. /\ due' = due /\ UNCHANGED chainVars
        /\ Advance \/ (UNCHANGED <<phase, pc, status, hollow>> /\ begun' \in BOOLEAN)
    BY <1>2 DEF StopNodes, StartNodes, CutOff, Rejoin, TakeAway, GiveBack, Await
  <2>3. up' \subseteq Node /\ cut' \subseteq Node
    BY <1>2, <2>1 DEF StopNodes, StartNodes, CutOff, Rejoin, TakeAway, GiveBack, Await, Doing, Kinds, NetKinds
  <2> QED
    BY <2>2, <2>3, TurnKinds DEF Kinds, RunKinds
<1> QED
  BY <1>1, <1>2

--------------------------------------------------------------------------------
(* The nodes by themselves, and all steps together.                          *)

\* A node executes a block.
LEMMA CatchUpIs ==
  ASSUME NetKinds, NEW n \in Node, CatchUp(n)
  PROVE  /\ lag' \in [Node -> Nat] /\ Horizon \in Nat \ {0}
         /\ \A m \in Node : lag'[m] <= lag[m] /\ lag'[m] < Horizon
         /\ DOMAIN age' = DOMAIN age
         /\ \A k \in DOMAIN age : age'[k] \in Nat /\ age'[k] = Older(age[k], Horizon)
         /\ UNCHANGED <<runVars, unindexed, ballot, sets, up, cut>>
<1>1. /\ lag' = [lag EXCEPT ![n] = @ - 1] /\ lag[n] > 0
      /\ UNCHANGED <<runVars, unindexed, ballot, sets, up, cut>>
      /\ age' = [k \in DOMAIN age |-> Older(age[k], Horizon)]
  BY DEF CatchUp
<1>2. lag' \in [Node -> Nat] /\ \A m \in Node : lag'[m] <= lag[m]
  BY <1>1 DEF NetKinds
<1>3. Horizon = Beyond(lag', unindexed')
  BY DEF Horizon, Beyond
<1>4. unindexed' \in Nat
  BY <1>1 DEF NetKinds
<1>5. Horizon \in Nat \ {0} /\ \A m \in Node : lag'[m] < Horizon
  BY <1>2, <1>3, <1>4, BeyondAll
<1>6. ASSUME NEW k \in DOMAIN age PROVE Older(age[k], Horizon) \in Nat
  BY <1>5, OlderIs DEF NetKinds
<1> QED
  BY <1>1, <1>2, <1>5, <1>6

\* A node executes the blocks it lacks.
LEMMA CatchUpKinds == ASSUME Kinds, NEW n \in Node, CatchUp(n) PROVE Kinds'
<1>1. /\ UNCHANGED <<runVars, unindexed, ballot, sets, up, cut>>
      /\ lag' \in [Node -> Nat] /\ \A m \in Node : lag'[m] <= lag[m]
      /\ DOMAIN age' = DOMAIN age /\ \A k \in DOMAIN age : age'[k] \in Nat
  BY CatchUpIs DEF Kinds
<1>2. script' = script
  BY <1>1 DEF script, runVars
<1>3. RunKinds'
  BY <1>1, <1>2 DEF Kinds, RunKinds, runVars
<1>4. NetKinds'
  BY <1>1, <1>2 DEF Kinds, NetKinds
<1>5. PowerKinds'
  <2>1. sets[1].in \in Int
    <3>1. 1 \in 1..Len(sets) /\ sets \in Seq(Change(script))
      BY DEF Kinds, PowerKinds
    <3>2. sets[1] \in Change(script)
      BY <3>1, ElementOfSeq
    <3> QED
      BY <3>2 DEF Change
  <2>2. \A m \in Node : lag[m] \in Nat /\ lag'[m] \in Nat /\ lag'[m] <= lag[m] /\ sets[1].in + lag[m] <= 1
    BY <1>1 DEF Kinds, NetKinds, PowerKinds
  <2>3. \A m \in Node : sets[1].in + lag'[m] <= 1
    BY <2>1, <2>2
  <2> QED
    BY <1>1, <1>2, <2>3 DEF Kinds, PowerKinds
<1> QED
  BY <1>3, <1>4, <1>5 DEF Kinds

\* The indexer follows.
LEMMA IndexKinds == ASSUME Kinds, Index PROVE Kinds'
<1>1. /\ UNCHANGED <<runVars, lag, age, ballot, sets, up, cut>> /\ unindexed' = unindexed - 1
      /\ unindexed > lag[Bds]
  BY DEF Index
<1>2. unindexed \in Nat /\ lag[Bds] \in Nat
  BY BdsAssumption DEF Kinds, NetKinds
<1>3. unindexed' \in Nat
  BY <1>1, <1>2
<1>4. script' = script
  BY <1>1 DEF script, runVars
<1> QED
  BY <1>1, <1>3, <1>4 DEF Kinds, RunKinds, NetKinds, PowerKinds, runVars

\* A block with no transaction of the phase.
LEMMA EmptyBlockKinds == ASSUME Kinds, EmptyBlock PROVE Kinds'
BY BlockStays DEF EmptyBlock

\* Every step, of the phase or of the nodes, keeps kinds.
LEMMA KindsKept == ASSUME Kinds, [Next]_vars PROVE Kinds'
<1>1. CASE SendTx \/ SendOver \/ ElectValidators \/ ProposeVote \/ CastVote
  BY <1>1, SendTxKinds, SendOverKinds, ElectKinds, ProposeKinds, CastKinds
<1>2. CASE Looks
  BY <1>2, LookIs, ContinueKinds, LeaveKinds
<1>3. CASE Snapshot \/ MarkHeight \/ Restart \/ StopNodes \/ StartNodes \/ CutOff \/ Rejoin \/ TakeAway \/ GiveBack
  BY <1>3, SnapshotKinds, MarkKinds, RestartKinds, NodesKinds
<1>4. CASE GiveUp
  BY <1>4, LeaveKinds DEF GiveUp
<1>5. CASE NetStep
  BY <1>5, EmptyBlockKinds, IndexKinds, CatchUpKinds DEF NetStep
<1>6. CASE UNCHANGED vars
  BY <1>6 DEF vars, runVars, chainVars, Kinds, RunKinds, NetKinds, PowerKinds, script
<1> QED
  BY <1>1, <1>2, <1>3, <1>4, <1>5, <1>6 DEF Next, RunStep, Looks

\* So does the beginning of a phase.
LEMMA KindsBegin == ASSUME Init PROVE Kinds
<1>1. /\ phase \in DOMAIN Script
      /\ pc = 1 /\ status = "running" /\ begun = FALSE /\ sent = {} /\ hollow = FALSE
      /\ due = 0 /\ taken = {}
      /\ up = Node /\ cut = {}
      /\ lag = [n \in Node |-> 0] /\ unindexed = 0
      /\ age = [k \in Keys(script.steps) |-> 1]
      /\ ballot = [needs |-> 0, key |-> Nothing, power |-> Same]
      /\ sets = << [in |-> -1, power |-> script.powers] >>
  BY DEF Init
<1>2. Len(script.steps) \in Nat \ {0} /\ DOMAIN script.steps = 1..Len(script.steps)
  BY <1>1, ScriptAssumption DEF IsPhase, script
<1>3. RunKinds
  <2>1. 1 \in DOMAIN script.steps
    BY <1>2
  <2>2. begun \in BOOLEAN /\ hollow \in BOOLEAN
    BY <1>1
  <2>3. due \in Int /\ status \in {"running", "ok", "raised", "alarm"} /\ pc \in DOMAIN script.steps
    BY <1>1, <2>1
  <2> QED
    BY <1>1, <2>2, <2>3 DEF RunKinds
<1>4. NetKinds
  BY <1>1 DEF NetKinds
<1>5. PowerKinds
  <2>1. [in |-> -1, power |-> script.powers] \in Change(script)
    BY DEF Change, PowersIn
  <2>2. ballot \in Ballot(script)
    BY <1>1 DEF Ballot, PowersIn
  <2>3. sets \in Seq(Change(script)) /\ Len(sets) = 1 /\ sets[1].in = -1
    BY <1>1, <2>1
  <2>4. \A n \in Node : sets[1].in + lag[n] <= 1
    BY <1>1, <2>3
  <2> QED
    BY <2>2, <2>3, <2>4 DEF PowerKinds
<1> QED
  BY <1>3, <1>4, <1>5 DEF Kinds

\* Heights, ages and numbers of blocks never go below zero, the script is never past its
\* end, and every node always has powers that decide on its next block.
THEOREM TypesKept == Spec => []TypeOK
<1>1. Init => Kinds
  BY KindsBegin
<1>2. Kinds /\ [Next]_vars => Kinds'
  BY KindsKept
<1>3. Kinds => TypeOK
  BY DEF Kinds, RunKinds, NetKinds, PowerKinds, TypeOK, Connected
<1> QED
  BY <1>1, <1>2, <1>3, PTL DEF Spec

--------------------------------------------------------------------------------
(* What is known of the state: the facts of a record of the course.          *)

\* which nodes run, which are cut off, and what is taken
Placed(c) == up = Node \ c.down /\ cut = c.far /\ taken = c.held
\* of each of the sets of a key some node has executed the block that wrote the key
Known(c) ==
    /\ DOMAIN c.knows = DOMAIN age
    /\ \A k \in DOMAIN age : \A S \in c.knows[k] : \E n \in S \cap Node : Knows(n, k)
\* the second key of a pair is at least as young as the first
Ordered(c) == \A kj \in c.older : kj \in (DOMAIN age) \X (DOMAIN age) /\ age[kj[2]] <= age[kj[1]]
\* a node lacks no block that is older than the lag
Nearby(c) == \A n \in c.near : n \in Node /\ \A k \in DOMAIN age : lag[n] <= age[k] + Lag[phase]
\* a key was written at the height remembered or before, or every node knows it anyway
Reached(c) == \A k \in c.reach : k \in DOMAIN age /\ (due + age[k] >= 0 \/ \A n \in Node : Knows(n, k))
\* how long after the height remembered the powers given last decide
Risen(c) == \A r \in c.rise : r \in Nat /\ Last(sets).in - due <= r
\* and how long after the last block of a node
Settling(c) == \A nb \in c.soon : nb \in Node \X Nat /\ Last(sets).in + lag[nb[1]] <= nb[2]
\* which powers these may be
Empowered(c) == Last(sets).power \in c.powers
\* Once a ballot is decided the approval is the youngest key, its powers are given, and
\* some node of each set that was told knows it.
Polled(c) ==
    c.told # {} =>
        /\ ballot.key = c.about /\ ballot.power = c.next
        /\ ballot.needs = 0 =>
              /\ \A k \in DOMAIN age : age[Approved] <= age[k]
              /\ c.next # Same => Last(sets).power = c.next
              /\ \A S \in c.told : \E n \in S \cap Node : Knows(n, Approved)
Facts(c) ==
    /\ Placed(c) /\ Known(c) /\ Ordered(c) /\ Nearby(c) /\ Reached(c)
    /\ Risen(c) /\ Settling(c) /\ Empowered(c) /\ Polled(c)

\* the parts that are not about powers and ballots
Chained(c) == Placed(c) /\ Known(c) /\ Ordered(c) /\ Nearby(c) /\ Reached(c)

\* Those that run and are not cut off.
LEMMA LinkedIs == ASSUME NEW c, Placed(c) PROVE Connected = Linked(c)
BY DEF Placed, Connected, Linked

\* What a course says some node knows, one of those nodes knows.
LEMMA KnowsIs == ASSUME NEW c, Known(c), NEW key, NEW nodes, Has(c, key, nodes)
                 PROVE  key \in DOMAIN age /\ \E n \in nodes \cap Node : Knows(n, key)
BY DEF Known, Has

\* the powers given last
LEMMA LastIs == ASSUME Kinds PROVE Last(sets) \in Change(script) /\ Last(sets).in \in Int /\ Len(sets) \in DOMAIN sets
<1>1. sets \in Seq(Change(script)) /\ Len(sets) > 0
  BY DEF Kinds, PowerKinds
<1>2. Len(sets) \in 1..Len(sets) /\ DOMAIN sets = 1..Len(sets)
  BY <1>1
<1>3. Last(sets) \in Change(script)
  BY <1>1, <1>2, ElementOfSeq DEF Last
<1> QED
  BY <1>2, <1>3 DEF Change

--------------------------------------------------------------------------------
(* What a block does to the facts.                                           *)

\* Who knows a key still knows it after a block that does not write it; the nodes that
\* execute the block at once know what it writes.
LEMMA BlockSees ==
  ASSUME RunKinds, NetKinds, NEW at \in Connected, NEW keys, Chain(at, keys), NEW k \in DOMAIN age
  PROVE  /\ k \in DOMAIN age' /\ age'[k] \in Nat
         /\ k \in keys \ {Nothing} =>
              /\ age'[k] = 0 /\ Knows(at, k)'
              /\ Lag[phase] = 0 /\ phase' = phase => \A n \in Connected : Knows(n, k)'
         /\ k \notin keys \ {Nothing} =>
              /\ Knows(at, k)'
              /\ \A n \in Node : Knows(n, k) => Knows(n, k)'
              /\ Lag[phase] <= 1 => \A n \in Connected : Knows(n, k)'
<1>1. /\ Horizon \in Nat \ {0} /\ lag' \in [Node -> Nat]
      /\ \A n \in Node : lag'[n] < Horizon /\ (lag'[n] = 0 \/ lag'[n] = lag[n] + 1)
      /\ lag'[at] = 0
      /\ \A n \in Connected : lag'[n] <= Lag[phase]
      /\ DOMAIN age' = DOMAIN age
      /\ age'[k] \in Nat
      /\ k \in keys \ {Nothing} => age'[k] = 0
      /\ k \notin keys \ {Nothing} => age'[k] = Older(age[k] + 1, Horizon)
  BY ChainIs
<1>2. Lag[phase] \in Nat /\ age[k] \in Nat /\ at \in Node /\ Connected \subseteq Node
  BY ScriptIs DEF NetKinds, Connected
<1>3. CASE k \in keys \ {Nothing}
  <2>1. age'[k] = 0 /\ lag'[at] <= age'[k]
    BY <1>1, <1>3
  <2>2. ASSUME Lag[phase] = 0, NEW n \in Connected PROVE lag'[n] <= age'[k]
    BY <1>1, <1>2, <2>1, <2>2
  <2> QED
    BY <1>1, <1>3, <2>1, <2>2 DEF Knows
<1>4. CASE k \notin keys \ {Nothing}
  <2>1. age'[k] = age[k] + 1 \/ age'[k] = Horizon
    BY <1>1, <1>2, <1>4 DEF Older
  <2>2. lag'[at] <= age'[k]
    BY <1>1
  <2>3. ASSUME NEW n \in Node, lag[n] <= age[k] PROVE lag'[n] <= age'[k]
    <3>1. lag[n] \in Nat /\ lag'[n] \in Nat
      BY <1>1 DEF NetKinds
    <3> QED
      BY <1>1, <1>2, <2>1, <2>3, <3>1
  <2>4. ASSUME Lag[phase] <= 1, NEW n \in Connected PROVE lag'[n] <= age'[k]
    <3>1. lag'[n] \in Nat /\ lag'[n] <= 1 /\ age'[k] >= 1
      BY <1>1, <1>2, <2>1, <2>4
    <3> QED
      BY <1>1, <1>2, <3>1
  <2> QED
    BY <1>1, <1>4, <2>2, <2>3, <2>4 DEF Knows
<1> QED
  BY <1>3, <1>4

\* The order of ages, the distance of a node, and of the height that is remembered.
LEMMA BlockOrders ==
  ASSUME RunKinds, NetKinds, NEW at \in Connected, NEW keys, Chain(at, keys), NEW k \in DOMAIN age
  PROVE  /\ \A j \in DOMAIN age : j \in keys \ {Nothing} => age'[j] <= age'[k]
         /\ k \notin keys \ {Nothing} =>
              /\ \A j \in DOMAIN age : age[j] <= age[k] => age'[j] <= age'[k]
              /\ \A n \in Node : lag[n] <= age[k] + Lag[phase] => lag'[n] <= age'[k] + Lag[phase]
              /\ due + age[k] >= 0 => due' + age'[k] >= 0
         /\ \A n \in Connected : lag'[n] <= age'[k] + Lag[phase]
<1>1. /\ Horizon \in Nat \ {0} /\ lag' \in [Node -> Nat]
      /\ \A n \in Node : lag'[n] < Horizon /\ (lag'[n] = 0 \/ lag'[n] = lag[n] + 1)
      /\ \A n \in Connected : lag'[n] <= Lag[phase]
      /\ \A j \in DOMAIN age : /\ age'[j] \in Nat
                               /\ j \in keys \ {Nothing} => age'[j] = 0
                               /\ j \notin keys \ {Nothing} => age'[j] = Older(age[j] + 1, Horizon)
      /\ due' = IF due - 1 >= -Horizon THEN due - 1 ELSE -Horizon
  BY ChainIs
<1>2. Lag[phase] \in Nat /\ due \in Int /\ \A j \in DOMAIN age : age[j] \in Nat
  BY ScriptIs DEF NetKinds, RunKinds
<1>3. \A n \in Node : lag[n] \in Nat /\ lag'[n] \in Nat
  BY <1>1 DEF NetKinds
<1>4. ASSUME NEW j \in DOMAIN age, j \in keys \ {Nothing} PROVE age'[j] <= age'[k]
  BY <1>1, <1>4
<1>5. ASSUME NEW n \in Connected PROVE lag'[n] <= age'[k] + Lag[phase]
  <2>1. n \in Node
    BY DEF Connected, NetKinds
  <2> QED
    BY <1>1, <1>2, <1>3, <2>1
<1>6. ASSUME k \notin keys \ {Nothing}
      PROVE  /\ \A j \in DOMAIN age : age[j] <= age[k] => age'[j] <= age'[k]
             /\ \A n \in Node : lag[n] <= age[k] + Lag[phase] => lag'[n] <= age'[k] + Lag[phase]
             /\ due + age[k] >= 0 => due' + age'[k] >= 0
  <2>1. age'[k] = IF age[k] + 1 < Horizon THEN age[k] + 1 ELSE Horizon
    BY <1>1, <1>6 DEF Older
  <2>2. ASSUME NEW j \in DOMAIN age, age[j] <= age[k] PROVE age'[j] <= age'[k]
    <3>1. CASE j \in keys \ {Nothing}
      BY <1>4, <3>1
    <3>2. CASE j \notin keys \ {Nothing}
      <4>1. age'[j] = IF age[j] + 1 < Horizon THEN age[j] + 1 ELSE Horizon
        BY <1>1, <3>2 DEF Older
      <4> QED
        BY <1>1, <1>2, <2>1, <2>2, <4>1
    <3> QED
      BY <3>1, <3>2
  <2>3. ASSUME NEW n \in Node, lag[n] <= age[k] + Lag[phase] PROVE lag'[n] <= age'[k] + Lag[phase]
    <3>1. lag[n] \in Nat /\ lag'[n] \in Nat /\ lag'[n] < Horizon /\ (lag'[n] = 0 \/ lag'[n] = lag[n] + 1)
      BY <1>1, <1>3
    <3> QED
      BY <1>1, <1>2, <2>1, <2>3, <3>1
  <2>4. ASSUME due + age[k] >= 0 PROVE due' + age'[k] >= 0
    BY <1>1, <1>2, <2>1, <2>4
  <2> QED
    BY <2>2, <2>3, <2>4
<1> QED
  BY <1>4, <1>5, <1>6

\* What the powers given last decide on comes no later.
LEMMA BlockSettles ==
  ASSUME Kinds, NEW at \in Connected, NEW keys, Chain(at, keys), sets' = Sooner(sets), NEW c
  PROVE  /\ Last(sets').power = Last(sets).power
         /\ Risen(c) => Risen(c)'
         /\ Settling(c) => Settling(c)'
         /\ Empowered(c) => Empowered(c)'
<1>1. /\ Horizon \in Nat \ {0} /\ lag' \in [Node -> Nat]
      /\ \A n \in Node : lag'[n] < Horizon /\ (lag'[n] = 0 \/ lag'[n] = lag[n] + 1)
      /\ due' = IF due - 1 >= -Horizon THEN due - 1 ELSE -Horizon
  BY ChainIs DEF Kinds
<1>2. sets \in Seq([in : Int, power : PowersIn(script)]) /\ Len(sets) > 0
  BY DEF Kinds, PowerKinds, Change
<1>3. /\ Last(sets').power = Last(sets).power
      /\ Last(sets').in = IF Last(sets).in - 1 >= -Horizon THEN Last(sets).in - 1 ELSE -Horizon
  BY <1>1, <1>2, SoonerIs
<1>4. Last(sets).in \in Int /\ due \in Int /\ \A n \in Node : lag[n] \in Nat /\ lag'[n] \in Nat
  BY <1>1, LastIs DEF Kinds, NetKinds, RunKinds
<1>5. ASSUME NEW r \in Nat, Last(sets).in - due <= r PROVE Last(sets').in - due' <= r
  BY <1>1, <1>3, <1>4, <1>5
<1>6. ASSUME NEW n \in Node, NEW b \in Nat, Last(sets).in + lag[n] <= b
      PROVE  Last(sets').in + lag'[n] <= b
  <2>1. lag'[n] < Horizon /\ (lag'[n] = 0 \/ lag'[n] = lag[n] + 1)
    BY <1>1
  <2> QED
    BY <1>1, <1>3, <1>4, <1>6, <2>1
<1>7. Risen(c) => Risen(c)'
  BY <1>5 DEF Risen
<1>8. Settling(c) => Settling(c)'
  BY <1>6 DEF Settling
<1>9. Empowered(c) => Empowered(c)'
  BY <1>3 DEF Empowered
<1> QED
  BY <1>3, <1>7, <1>8, <1>9

\* New powers decide on the second block after the next.
LEMMA GiveSettles ==
  ASSUME Kinds, NEW at \in Connected, NEW keys, Chain(at, keys),
         NEW power \in PowersIn(script), Give(power), power # Same
  PROVE  /\ Last(sets').power = power /\ Last(sets').in = 2
         /\ \A n \in Connected : n \in Node /\ Last(sets').in + lag'[n] <= 2 + Lag[phase]
<1> DEFINE s == Sooner(sets)
           new == [in |-> 2, power |-> power]
<1>1. s \in Seq(Change(script)) /\ sets' = Append(s, new) /\ new \in Change(script)
  <2>1. s \in Seq(Change(script))
    BY SoonerKinds
  <2>2. sets' = Append(s, new)
    BY DEF Give
  <2>3. new \in Change(script)
    BY DEF Change
  <2> QED
    BY <2>1, <2>2, <2>3
<1>2. new.power = power /\ new.in = 2
  OBVIOUS
<1> HIDE DEF s, new
<1>3. Len(sets') = Len(s) + 1 /\ sets'[Len(s) + 1] = new
  BY <1>1, AppendProperties
<1>4. Last(sets') = new
  BY <1>3 DEF Last
<1>5. ASSUME NEW n \in Connected PROVE n \in Node /\ 2 + lag'[n] <= 2 + Lag[phase]
  <2>1. n \in Node
    BY DEF Connected, Kinds, NetKinds
  <2>2. lag'[n] \in Nat /\ lag'[n] <= Lag[phase] /\ Lag[phase] \in Nat
    BY <2>1, ChainIs, ScriptIs DEF Kinds
  <2> QED
    BY <2>1, <2>2
<1> QED
  BY <1>2, <1>4, <1>5

\* The approval of a ballot has an age like any key.
LEMMA ApprovedIs == ASSUME NetKinds PROVE Approved \in DOMAIN age
<1>1. Approved \in Keys(script.steps)
  BY DEF Keys
<1> QED
  BY <1>1 DEF NetKinds

\* A block without a transaction leaves all that is known as it is.
LEMMA EmptyBlockFacts ==
  ASSUME Kinds, NEW c, Facts(c), NEW at \in Connected, Block(at, {}), UNCHANGED <<phase, taken, up, cut>>
  PROVE  Facts(c)'
<1>1. Chain(at, {}) /\ sets' = Sooner(sets) /\ ballot' = ballot /\ RunKinds /\ NetKinds
  BY DEF Block, Kinds
<1>2. DOMAIN age' = DOMAIN age
  BY <1>1, ChainIs
<1>3. ASSUME NEW k \in DOMAIN age
      PROVE  /\ \A n \in Node : Knows(n, k) => Knows(n, k)'
             /\ \A j \in DOMAIN age : age[j] <= age[k] => age'[j] <= age'[k]
             /\ \A n \in Node : lag[n] <= age[k] + Lag[phase] => lag'[n] <= age'[k] + Lag[phase]
             /\ due + age[k] >= 0 => due' + age'[k] >= 0
  <2>1. k \notin {} \ {Nothing}
    OBVIOUS
  <2> QED
    BY <1>1, <2>1, BlockSees, BlockOrders
<1>4. Placed(c)'
  BY DEF Facts, Placed
<1>5. Known(c)'
  BY <1>2, <1>3 DEF Facts, Known
<1>6. Ordered(c)'
  BY <1>2, <1>3 DEF Facts, Ordered
<1>7. Nearby(c)'
  BY <1>2, <1>3 DEF Facts, Nearby
<1>8. Reached(c)'
  BY <1>2, <1>3 DEF Facts, Reached
<1>9. Last(sets').power = Last(sets).power /\ Risen(c)' /\ Settling(c)' /\ Empowered(c)'
  BY <1>1, BlockSettles DEF Facts
<1>10. Polled(c)'
  <2>1. Approved \in DOMAIN age
    BY <1>1, ApprovedIs
  <2> QED
    BY <1>1, <1>2, <1>3, <1>9, <2>1 DEF Facts, Polled
<1> QED
  BY <1>4, <1>5, <1>6, <1>7, <1>8, <1>9, <1>10 DEF Facts

\* A node that executes a block knows no less, and its age is lost of a key that
\* every node knows only.
LEMMA CatchUpFacts ==
  ASSUME Kinds, NEW c, Facts(c), NEW n \in Node, CatchUp(n)
  PROVE  Facts(c)'
<1>1. /\ lag' \in [Node -> Nat] /\ Horizon \in Nat \ {0}
      /\ \A m \in Node : lag'[m] <= lag[m] /\ lag'[m] < Horizon
      /\ DOMAIN age' = DOMAIN age
      /\ \A k \in DOMAIN age : age'[k] \in Nat /\ age'[k] = Older(age[k], Horizon)
      /\ UNCHANGED <<runVars, ballot, sets, up, cut>>
  BY CatchUpIs DEF Kinds
<1>2. UNCHANGED <<phase, due, taken>>
  BY <1>1 DEF runVars
<1>3. /\ \A m \in Node : lag[m] \in Nat /\ lag'[m] \in Nat
      /\ \A k \in DOMAIN age : age[k] \in Nat
      /\ due \in Int /\ Lag[phase] \in Nat
  BY <1>1, ScriptIs DEF Kinds, NetKinds, RunKinds
<1>4. ASSUME NEW k \in DOMAIN age
      PROVE  /\ \A m \in Node : Knows(m, k) => Knows(m, k)'
             /\ \A j \in DOMAIN age : age[j] <= age[k] => age'[j] <= age'[k]
             /\ \A m \in Node : lag[m] <= age[k] + Lag[phase] => lag'[m] <= age'[k] + Lag[phase]
             /\ due' + age'[k] = due + age[k] \/ \A m \in Node : Knows(m, k)'
  <2>1. age'[k] = IF age[k] < Horizon THEN age[k] ELSE Horizon
    BY <1>1 DEF Older
  <2>2. ASSUME NEW m \in Node, lag[m] <= age[k] PROVE lag'[m] <= age'[k]
    BY <1>1, <1>3, <2>1, <2>2
  <2>3. ASSUME NEW j \in DOMAIN age, age[j] <= age[k] PROVE age'[j] <= age'[k]
    <3>1. age'[j] = IF age[j] < Horizon THEN age[j] ELSE Horizon
      BY <1>1 DEF Older
    <3> QED
      BY <1>1, <1>3, <2>1, <2>3, <3>1
  <2>4. ASSUME NEW m \in Node, lag[m] <= age[k] + Lag[phase] PROVE lag'[m] <= age'[k] + Lag[phase]
    BY <1>1, <1>3, <2>1, <2>4
  <2>5. age'[k] = age[k] \/ \A m \in Node : lag'[m] <= age'[k]
    BY <1>1, <1>3, <2>1
  <2> QED
    BY <1>2, <2>2, <2>3, <2>4, <2>5 DEF Knows
<1>5. Placed(c)'
  BY <1>1, <1>2 DEF Facts, Placed
<1>6. Known(c)'
  BY <1>1, <1>4 DEF Facts, Known
<1>7. Ordered(c)'
  BY <1>1, <1>4 DEF Facts, Ordered
<1>8. Nearby(c)'
  BY <1>1, <1>2, <1>4 DEF Facts, Nearby
<1>9. Reached(c)'
  BY <1>1, <1>4 DEF Facts, Reached
<1>10. Risen(c)' /\ Empowered(c)'
  BY <1>1, <1>2 DEF Facts, Risen, Empowered
<1>11. Settling(c)'
  <2>1. Last(sets).in \in Int
    BY LastIs
  <2>2. ASSUME NEW m \in Node, NEW b \in Nat, Last(sets).in + lag[m] <= b PROVE Last(sets).in + lag'[m] <= b
    BY <1>1, <1>3, <2>1, <2>2
  <2> QED
    BY <1>1, <2>2 DEF Facts, Settling
<1>12. Polled(c)'
  <2>1. Approved \in DOMAIN age
    BY ApprovedIs DEF Kinds
  <2> QED
    BY <1>1, <1>4, <2>1 DEF Facts, Polled
<1> QED
  BY <1>5, <1>6, <1>7, <1>8, <1>9, <1>10, <1>11, <1>12 DEF Facts

\* A step that leaves the chain, the nodes and the height alone.
LEMMA StillFacts ==
  ASSUME NEW c, Facts(c), UNCHANGED <<phase, due, taken, up, cut, lag, age, ballot, sets>>
  PROVE  Facts(c)'
<1>1. Placed(c)' /\ Known(c)' /\ Ordered(c)' /\ Nearby(c)' /\ Reached(c)'
  BY DEF Facts, Placed, Known, Ordered, Nearby, Reached, Knows
<1>2. Risen(c)' /\ Settling(c)' /\ Empowered(c)' /\ Polled(c)'
  BY DEF Facts, Risen, Settling, Empowered, Polled, Knows
<1> QED
  BY <1>1, <1>2 DEF Facts

--------------------------------------------------------------------------------
(* Several blocks, in any order.                                             *)

\* None of several blocks has been made yet.
LEMMA NoBlocks ==
  ASSUME NEW l, NEW c, DOMAIN c = Fields, Facts(c)
  PROVE  Facts(AfterBlocks(l, c, {}))
<1> DEFINE e == AfterBlocks(l, c, {})
<1>1. Written({}) = {}
  BY DEF Written
<1>2. /\ e.held = c.held /\ e.down = c.down /\ e.far = c.far
      /\ e.older \subseteq c.older
      /\ e.near = c.near /\ e.reach \subseteq c.reach
      /\ e.told = {} /\ e.powers = c.powers /\ e.soon = c.soon /\ e.rise = c.rise
  BY <1>1 DEF AfterBlocks, Fields
<1>3. /\ DOMAIN e.knows = DOMAIN c.knows
      /\ \A k \in DOMAIN c.knows : e.knows[k] \subseteq c.knows[k]
  BY <1>1 DEF AfterBlocks, Fields
<1> HIDE DEF e
<1>5. Placed(e)
  BY <1>2 DEF Facts, Placed
<1>6. Known(e)
  BY <1>3 DEF Facts, Known
<1>7. Ordered(e)
  BY <1>2 DEF Facts, Ordered
<1>8. Nearby(e) /\ Reached(e)
  BY <1>2 DEF Facts, Nearby, Reached
<1>9. Risen(e) /\ Settling(e) /\ Empowered(e) /\ Polled(e)
  BY <1>2 DEF Facts, Risen, Settling, Empowered, Polled
<1>10. Facts(e)
  BY <1>5, <1>6, <1>7, <1>8, <1>9 DEF Facts
<1> QED
  BY <1>10 DEF e

\* One more of them.
LEMMA OneMoreBlock ==
  ASSUME Kinds, NEW l, l = Lag[phase], NEW c, DOMAIN c = Fields, NEW B, NEW b,
         Chained(AfterBlocks(l, c, B)),
         NEW at \in Connected, at \in b.by, NEW keys, b.keys = keys \ {Nothing}, Chain(at, keys),
         UNCHANGED <<phase, taken, up, cut>>
  PROVE  Chained(AfterBlocks(l, c, B \cup {b}))'
<1> DEFINE D == B \cup {b}
           d == AfterBlocks(l, c, B)
           e == AfterBlocks(l, c, D)
<1>1. /\ DOMAIN d = Fields
      /\ d.held = c.held /\ d.down = c.down /\ d.far = c.far
      /\ d.knows = [k \in DOMAIN c.knows |->
             IF k \in Written(B)
             THEN {Makers(B, k)} \cup (IF l = 0 THEN Alone(Linked(c)) ELSE {})
             ELSE c.knows[k] \cup {x.by : x \in B}
                       \cup (IF l <= 1 /\ B # {} THEN Alone(Linked(c)) ELSE {})]
      /\ d.older = {kj \in (DOMAIN c.knows) \X (DOMAIN c.knows) :
             IF kj[1] \in Written(B) THEN \A x \in B : kj[1] \in x.keys => kj[2] \in x.keys
             ELSE kj[2] \in Written(B) \/ kj \in c.older}
      /\ d.reach = c.reach \ Written(B)
  BY DEF AfterBlocks, Fields
<1>2. /\ DOMAIN e = Fields
      /\ e.held = c.held /\ e.down = c.down /\ e.far = c.far
      /\ e.knows = [k \in DOMAIN c.knows |->
             IF k \in Written(D)
             THEN {Makers(D, k)} \cup (IF l = 0 THEN Alone(Linked(c)) ELSE {})
             ELSE c.knows[k] \cup {x.by : x \in D}
                       \cup (IF l <= 1 /\ D # {} THEN Alone(Linked(c)) ELSE {})]
      /\ e.older = {kj \in (DOMAIN c.knows) \X (DOMAIN c.knows) :
             IF kj[1] \in Written(D) THEN \A x \in D : kj[1] \in x.keys => kj[2] \in x.keys
             ELSE kj[2] \in Written(D) \/ kj \in c.older}
      /\ e.near = (IF D = {} THEN c.near ELSE Linked(c))
      /\ e.reach = c.reach \ Written(D)
  BY DEF AfterBlocks, Fields
<1>3. D # {} /\ b \in D /\ B \subseteq D /\ \A x \in D : x \in B \/ x = b
  OBVIOUS
<1>4. Placed(d) /\ Known(d) /\ Ordered(d) /\ Nearby(d) /\ Reached(d) /\ RunKinds /\ NetKinds
  BY DEF Chained, Kinds
<1> HIDE DEF d, e, D
<1>5. Written(D) = Written(B) \cup b.keys
  BY <1>3 DEF Written
<1>6. Linked(d) = Linked(c) /\ Linked(d) = Connected
  BY <1>1, <1>4, LinkedIs DEF Linked
<1>7. DOMAIN age' = DOMAIN age /\ DOMAIN d.knows = DOMAIN age /\ DOMAIN c.knows = DOMAIN age
      /\ DOMAIN e.knows = DOMAIN age
  BY <1>1, <1>2, <1>4, ChainIs DEF Known
<1>8. at \in Node /\ Connected \subseteq Node
  BY DEF Kinds, NetKinds, Connected
<1>9. ASSUME NEW k \in DOMAIN age
      PROVE  /\ k \in b.keys => /\ Knows(at, k)'
                                /\ l = 0 => \A n \in Connected : Knows(n, k)'
             /\ k \notin b.keys => /\ Knows(at, k)'
                                   /\ \A n \in Node : Knows(n, k) => Knows(n, k)'
                                   /\ l <= 1 => \A n \in Connected : Knows(n, k)'
  BY <1>4, BlockSees
<1>10. ASSUME NEW k \in DOMAIN age, NEW S \in e.knows[k] PROVE \E n \in S \cap Node : Knows(n, k)'
  <2>1. CASE l <= 1 /\ S \in Alone(Linked(c)) /\ (k \in b.keys => l = 0)
    <3>1. PICK n \in Connected : S = {n}
      BY <1>6, <2>1 DEF Alone
    <3> QED
      BY <1>8, <1>9, <2>1, <3>1
  <2>2. CASE at \in S
    BY <1>8, <1>9, <2>2
  <2>3. CASE S \in d.knows[k] /\ k \notin b.keys
    <3>1. PICK n \in S \cap Node : Knows(n, k)
      BY <1>4, <2>3 DEF Known
    <3> QED
      BY <1>9, <2>3, <3>1
  <2>4. CASE k \in b.keys
    <3>1. S \in {Makers(D, k)} \cup (IF l = 0 THEN Alone(Linked(c)) ELSE {})
      BY <1>2, <1>5, <1>7, <2>4
    <3>2. at \in Makers(D, k)
      BY <1>3, <2>4 DEF Makers
    <3> QED
      BY <2>1, <2>2, <3>1, <3>2
  <2>5. CASE k \notin b.keys /\ k \in Written(B)
    <3>1. S \in {Makers(D, k)} \cup (IF l = 0 THEN Alone(Linked(c)) ELSE {})
      BY <1>2, <1>5, <1>7, <2>5
    <3>2. Makers(D, k) = Makers(B, k)
      BY <1>3, <2>5 DEF Makers
    <3>3. Makers(B, k) \in d.knows[k]
      BY <1>1, <1>7, <2>5
    <3> QED
      BY <2>1, <2>3, <2>5, <3>1, <3>2, <3>3
  <2>6. CASE k \notin Written(D)
    <3>1. S \in c.knows[k] \cup {x.by : x \in D} \cup (IF l <= 1 /\ D # {} THEN Alone(Linked(c)) ELSE {})
      BY <1>2, <1>7, <2>6
    <3>2. k \notin b.keys /\ k \notin Written(B)
      BY <1>5, <2>6
    <3>3. c.knows[k] \cup {x.by : x \in B} \subseteq d.knows[k]
      BY <1>1, <1>7, <3>2
    <3>4. {x.by : x \in D} \subseteq {x.by : x \in B} \cup {b.by}
      BY <1>3
    <3> QED
      BY <2>1, <2>2, <2>3, <3>1, <3>2, <3>3, <3>4
  <2> QED
    BY <1>5, <2>4, <2>5, <2>6
<1>11. ASSUME NEW k \in DOMAIN age
       PROVE  /\ \A j \in DOMAIN age : j \in b.keys => age'[j] <= age'[k]
              /\ k \notin b.keys => /\ \A j \in DOMAIN age : age[j] <= age[k] => age'[j] <= age'[k]
                                    /\ due + age[k] >= 0 => due' + age'[k] >= 0
              /\ \A n \in Connected : lag'[n] <= age'[k] + Lag[phase]
  BY <1>4, BlockOrders
<1>12. ASSUME NEW kj \in e.older
       PROVE  kj \in (DOMAIN age) \X (DOMAIN age) /\ age'[kj[2]] <= age'[kj[1]]
  <2>1. kj \in (DOMAIN age) \X (DOMAIN age) /\ kj[1] \in DOMAIN age /\ kj[2] \in DOMAIN age
    BY <1>2, <1>7
  <2>2. CASE kj[2] \in b.keys
    BY <1>11, <2>1, <2>2
  <2>3. CASE kj[2] \notin b.keys
    <3>1. kj[1] \notin b.keys
      BY <1>2, <1>3, <1>5, <2>3
    <3>2. kj \in d.older
      <4>1. CASE kj[1] \in Written(B)
        <5>1. \A x \in D : kj[1] \in x.keys => kj[2] \in x.keys
          BY <1>2, <1>5, <4>1
        <5> QED
          BY <1>1, <1>3, <1>7, <2>1, <4>1, <5>1
      <4>2. CASE kj[1] \notin Written(B)
        <5>1. kj[2] \in Written(D) \/ kj \in c.older
          BY <1>2, <1>5, <3>1, <4>2
        <5>2. kj[2] \in Written(B) \/ kj \in c.older
          BY <1>5, <2>3, <5>1
        <5> QED
          BY <1>1, <1>7, <2>1, <4>2, <5>2
      <4> QED
        BY <4>1, <4>2
    <3>3. age[kj[2]] <= age[kj[1]]
      BY <1>4, <3>2 DEF Ordered
    <3> QED
      BY <1>11, <2>1, <3>1, <3>3
  <2> QED
    BY <2>2, <2>3
<1>13. Placed(e)'
  BY <1>1, <1>2, <1>4 DEF Placed
<1>14. Known(e)'
  BY <1>7, <1>10 DEF Known
<1>15. Ordered(e)'
  BY <1>7, <1>12 DEF Ordered
<1>16. Nearby(e)'
  <2>1. e.near = Connected
    BY <1>2, <1>3, <1>6
  <2> QED
    BY <1>7, <1>8, <1>11, <2>1 DEF Nearby
<1>17. Reached(e)'
  <2>1. ASSUME NEW k \in e.reach
        PROVE  k \in DOMAIN age /\ (due' + age'[k] >= 0 \/ \A n \in Node : Knows(n, k)')
    <3>1. k \in d.reach /\ k \notin b.keys
      BY <1>1, <1>2, <1>5
    <3>2. k \in DOMAIN age /\ (due + age[k] >= 0 \/ \A n \in Node : Knows(n, k))
      BY <1>4, <3>1 DEF Reached
    <3> QED
      BY <1>9, <1>11, <3>1, <3>2
  <2> QED
    BY <1>7, <2>1 DEF Reached
<1>18. Chained(e)'
  BY <1>13, <1>14, <1>15, <1>16, <1>17 DEF Chained
<1> QED
  BY <1>18 DEF e, D

--------------------------------------------------------------------------------
(* A block that may be made or not.                                          *)

\* A block that may be made is not.
LEMMA NotPerhaps ==
  ASSUME NEW l, NEW c, DOMAIN c = Fields, Facts(c), NEW by, NEW keys
  PROVE  Facts(AfterPerhaps(l, c, by, keys))
<1> DEFINE e == AfterPerhaps(l, c, by, keys)
<1>1. /\ e.held = c.held /\ e.down = c.down /\ e.far = c.far
      /\ e.older \subseteq c.older /\ e.near \subseteq c.near /\ e.reach \subseteq c.reach
      /\ e.told = {} /\ e.powers = c.powers /\ e.soon = c.soon /\ e.rise = c.rise
  BY DEF AfterPerhaps, Fields
<1>2. /\ DOMAIN e.knows = DOMAIN c.knows
      /\ \A k \in DOMAIN c.knows :
            \A S \in e.knows[k] : S \in c.knows[k] \/ \E T \in c.knows[k] : S = T \cup by
  <2>1. e.knows = [k \in DOMAIN c.knows |->
                     IF k \in keys
                     THEN {S \cup by : S \in c.knows[k]}
                          \cup (IF l = 0 THEN c.knows[k] \cap Alone(Linked(c)) ELSE {})
                     ELSE c.knows[k]]
    BY DEF AfterPerhaps, Fields
  <2> HIDE DEF e
  <2> QED
    BY <2>1
<1> HIDE DEF e
<1>3. Placed(e)
  BY <1>1 DEF Facts, Placed
<1>4. Known(e)
  <2>1. ASSUME NEW k \in DOMAIN age, NEW S \in e.knows[k] PROVE \E n \in S \cap Node : Knows(n, k)
    <3>1. PICK T \in c.knows[k] : T \subseteq S
      BY <1>2, <2>1 DEF Facts, Known
    <3> QED
      BY <3>1 DEF Facts, Known
  <2> QED
    BY <1>2, <2>1 DEF Facts, Known
<1>5. Ordered(e) /\ Nearby(e)
  BY <1>1 DEF Facts, Ordered, Nearby
<1>6. Reached(e) /\ Risen(e) /\ Settling(e) /\ Empowered(e) /\ Polled(e)
  BY <1>1 DEF Facts, Reached, Risen, Settling, Empowered, Polled
<1>7. Facts(e)
  BY <1>3, <1>4, <1>5, <1>6 DEF Facts
<1> QED
  BY <1>7 DEF e

\* It is made, and writes some of the keys.
LEMMA PerhapsBlock ==
  ASSUME Kinds, NEW l, l = Lag[phase], NEW c, DOMAIN c = Fields, Chained(c),
         NEW by, NEW keys, NEW at \in Connected, at \in by,
         NEW written, written \ {Nothing} \subseteq keys, Chain(at, written),
         UNCHANGED <<phase, taken, up, cut>>
  PROVE  Chained(AfterPerhaps(l, c, by, keys))'
<1> DEFINE e == AfterPerhaps(l, c, by, keys)
           w == written \ {Nothing}
<1>1. /\ e.held = c.held /\ e.down = c.down /\ e.far = c.far
      /\ \A kj \in e.older : kj \in c.older /\ (kj[1] \in keys => kj[2] = kj[1])
      /\ e.near \subseteq Linked(c) /\ \A k \in e.reach : k \in c.reach /\ k \notin keys
  BY DEF AfterPerhaps, Fields
<1>2. e.knows = [k \in DOMAIN c.knows |->
                   IF k \in keys
                   THEN {S \cup by : S \in c.knows[k]}
                        \cup (IF l = 0 THEN c.knows[k] \cap Alone(Linked(c)) ELSE {})
                   ELSE c.knows[k]]
  BY DEF AfterPerhaps, Fields
<1> HIDE DEF e
<1>3. Placed(c) /\ Known(c) /\ Ordered(c) /\ Nearby(c) /\ Reached(c) /\ RunKinds /\ NetKinds
  BY DEF Chained, Kinds
<1>4. Linked(c) = Connected /\ at \in Node /\ Connected \subseteq Node
  BY <1>3, LinkedIs DEF NetKinds, Connected
<1>5. DOMAIN age' = DOMAIN age /\ DOMAIN c.knows = DOMAIN age /\ DOMAIN e.knows = DOMAIN age
  BY <1>2, <1>3, ChainIs DEF Known
<1>6. ASSUME NEW k \in DOMAIN age
      PROVE  /\ Knows(at, k)'
             /\ l = 0 => \A n \in Connected : Knows(n, k)'
             /\ k \notin w => \A n \in Node : Knows(n, k) => Knows(n, k)'
  <2>1. l = 0 => l <= 1
    OBVIOUS
  <2> QED
    BY <1>3, <2>1, BlockSees
<1>7. ASSUME NEW k \in DOMAIN age
      PROVE  /\ age'[k] \in Nat
             /\ \A j \in DOMAIN age : j \in w => age'[j] <= age'[k]
             /\ k \notin w => /\ \A j \in DOMAIN age : age[j] <= age[k] => age'[j] <= age'[k]
                              /\ due + age[k] >= 0 => due' + age'[k] >= 0
             /\ \A n \in Connected : lag'[n] <= age'[k] + Lag[phase]
  BY <1>3, BlockOrders, BlockSees
<1>8. w \subseteq keys
  OBVIOUS
<1> HIDE DEF w
<1>9. ASSUME NEW k \in DOMAIN age, NEW S \in e.knows[k] PROVE \E n \in S \cap Node : Knows(n, k)'
  <2>1. CASE at \in S
    BY <1>4, <1>6, <2>1
  <2>2. CASE S \in c.knows[k] /\ k \notin keys
    <3>1. PICK n \in S \cap Node : Knows(n, k)
      BY <1>3, <2>2 DEF Known
    <3> QED
      BY <1>6, <1>8, <2>2, <3>1
  <2>3. CASE l = 0 /\ S \in Alone(Linked(c))
    <3>1. PICK n \in Connected : S = {n}
      BY <1>4, <2>3 DEF Alone
    <3> QED
      BY <1>4, <1>6, <2>3, <3>1
  <2>4. CASE k \in keys
    <3>1. S \in {T \cup by : T \in c.knows[k]} \cup (IF l = 0 THEN c.knows[k] \cap Alone(Linked(c)) ELSE {})
      BY <1>2, <1>5, <2>4
    <3> QED
      BY <2>1, <2>3, <3>1
  <2>5. CASE k \notin keys
    BY <1>2, <1>5, <2>2, <2>5
  <2> QED
    BY <2>4, <2>5
<1>10. ASSUME NEW kj \in e.older
       PROVE  kj \in (DOMAIN age) \X (DOMAIN age) /\ age'[kj[2]] <= age'[kj[1]]
  <2>1. /\ kj \in (DOMAIN age) \X (DOMAIN age) /\ age[kj[2]] <= age[kj[1]]
        /\ kj[1] \in keys => kj[2] = kj[1]
    BY <1>1, <1>3 DEF Ordered
  <2>2. kj[1] \in DOMAIN age /\ kj[2] \in DOMAIN age
    BY <2>1
  <2>3. CASE kj[1] \in keys
    BY <1>7, <2>1, <2>2, <2>3
  <2>4. CASE kj[1] \notin keys
    BY <1>7, <1>8, <2>1, <2>2, <2>4
  <2> QED
    BY <2>3, <2>4
<1>11. Placed(e)'
  BY <1>1, <1>3 DEF Placed
<1>12. Known(e)'
  BY <1>5, <1>9 DEF Known
<1>13. Ordered(e)'
  BY <1>5, <1>10 DEF Ordered
<1>14. Nearby(e)'
  BY <1>1, <1>4, <1>5, <1>7 DEF Nearby
<1>15. Reached(e)'
  BY <1>1, <1>3, <1>5, <1>6, <1>7, <1>8 DEF Reached
<1>16. Chained(e)'
  BY <1>11, <1>12, <1>13, <1>14, <1>15 DEF Chained
<1> QED
  BY <1>16 DEF e

--------------------------------------------------------------------------------
(* Nodes that come to know more, and a height that is remembered.            *)

\* the parts that are not about which nodes run
Rest(c) ==
    /\ Known(c) /\ Ordered(c) /\ Nearby(c) /\ Reached(c)
    /\ Risen(c) /\ Settling(c) /\ Empowered(c) /\ Polled(c)

\* A change of what is taken, stopped or cut off leaves the other facts.
LEMMA RestKept ==
  ASSUME NEW c, Facts(c), UNCHANGED <<phase, due, lag, age, ballot, sets>>, NEW e,
         /\ e.knows = c.knows /\ e.older = c.older /\ e.near = c.near /\ e.reach = c.reach
         /\ e.told = c.told /\ e.about = c.about /\ e.next = c.next
         /\ e.powers = c.powers /\ e.soon = c.soon /\ e.rise = c.rise
  PROVE  Rest(e)'
<1>1. Known(e)' /\ Ordered(e)' /\ Nearby(e)' /\ Reached(e)'
  BY DEF Facts, Known, Ordered, Nearby, Reached, Knows
<1>2. Risen(e)' /\ Settling(e)' /\ Empowered(e)' /\ Polled(e)'
  BY DEF Facts, Risen, Settling, Empowered, Polled, Knows
<1> QED
  BY <1>1, <1>2 DEF Rest

\* Nodes that know some keys.
LEMMA LearnsFacts ==
  ASSUME NEW c, DOMAIN c = Fields, Facts(c), NEW keys, NEW nodes \in SUBSET Node,
         \A k \in keys : k \in DOMAIN age => \A n \in nodes : Knows(n, k)
  PROVE  Facts(Learns(c, keys, nodes)) /\ DOMAIN Learns(c, keys, nodes) = Fields
<1> DEFINE e == Learns(c, keys, nodes)
<1>1. /\ e.held = c.held /\ e.down = c.down /\ e.far = c.far
      /\ e.older = c.older /\ e.near = c.near /\ e.reach = c.reach
      /\ e.told = c.told /\ e.about = c.about /\ e.next = c.next
      /\ e.powers = c.powers /\ e.soon = c.soon /\ e.rise = c.rise /\ DOMAIN e = Fields
  BY DEF Learns, Fields
<1>2. e.knows = [k \in DOMAIN c.knows |-> IF k \in keys THEN c.knows[k] \cup Alone(nodes) ELSE c.knows[k]]
  BY DEF Learns, Fields
<1> HIDE DEF e
<1>3. Known(e)
  <2>1. DOMAIN e.knows = DOMAIN age
    BY <1>2 DEF Facts, Known
  <2>2. ASSUME NEW k \in DOMAIN age, NEW S \in e.knows[k] PROVE \E n \in S \cap Node : Knows(n, k)
    <3>1. k \in DOMAIN c.knows
      BY DEF Facts, Known
    <3>2. S \in c.knows[k] \/ (k \in keys /\ S \in Alone(nodes))
      BY <1>2, <2>2, <3>1
    <3>3. CASE k \in keys /\ S \in Alone(nodes)
      <4>1. PICK n \in nodes : S = {n}
        BY <3>3 DEF Alone
      <4> QED
        BY <3>3, <4>1
    <3> QED
      BY <3>2, <3>3 DEF Facts, Known
  <2> QED
    BY <2>1, <2>2 DEF Known
<1>4. Placed(e) /\ Ordered(e) /\ Nearby(e) /\ Reached(e)
  BY <1>1 DEF Facts, Placed, Ordered, Nearby, Reached
<1>5. Risen(e) /\ Settling(e) /\ Empowered(e) /\ Polled(e)
  BY <1>1 DEF Facts, Risen, Settling, Empowered, Polled
<1>6. Facts(e)
  BY <1>3, <1>4, <1>5 DEF Facts
<1> QED
  BY <1>1, <1>6 DEF e

\* Nodes that are at the height that is remembered.
LEMMA ArrivesFacts ==
  ASSUME Kinds, NEW c, DOMAIN c = Fields, Facts(c), NEW nodes \in SUBSET Node, \A n \in nodes : At(n)
  PROVE  Facts(Arrives(c, nodes))
<1>1. /\ \A n \in Node : lag[n] \in Nat
      /\ \A k \in DOMAIN age : age[k] \in Nat
      /\ due \in Int /\ Last(sets).in \in Int
  BY LastIs DEF Kinds, NetKinds, RunKinds
<1> DEFINE d == Learns(c, c.reach, nodes)
           e == Arrives(c, nodes)
<1>2. Facts(d) /\ DOMAIN d = Fields
  <2>1. ASSUME NEW k \in c.reach, NEW n \in nodes PROVE Knows(n, k)
    <3>1. k \in DOMAIN age /\ (due + age[k] >= 0 \/ Knows(n, k))
      BY DEF Facts, Reached
    <3>2. lag[n] + due <= 0
      BY DEF At
    <3>3. due + age[k] >= 0 => lag[n] <= age[k]
      BY <1>1, <3>1, <3>2
    <3> QED
      BY <3>1, <3>3 DEF Knows
  <2> QED
    BY <2>1, LearnsFacts
<1>3. d.soon = c.soon /\ d.rise = c.rise
  BY DEF Learns, Fields
<1>4. e = [d EXCEPT !.soon = @ \cup (nodes \X c.rise)]
  BY DEF Arrives
<1> HIDE DEF d, e
<1>5. /\ e.held = d.held /\ e.down = d.down /\ e.far = d.far /\ e.knows = d.knows
      /\ e.older = d.older /\ e.near = d.near /\ e.reach = d.reach
      /\ e.told = d.told /\ e.about = d.about /\ e.next = d.next
      /\ e.powers = d.powers /\ e.rise = d.rise /\ e.soon = d.soon \cup (nodes \X c.rise)
  BY <1>2, <1>4 DEF Fields
<1>6. Placed(e) /\ Known(e) /\ Ordered(e) /\ Nearby(e) /\ Reached(e)
  BY <1>2, <1>5 DEF Facts, Placed, Known, Ordered, Nearby, Reached
<1>7. Risen(e) /\ Empowered(e) /\ Polled(e)
  BY <1>2, <1>5 DEF Facts, Risen, Empowered, Polled
<1>8. Settling(e)
  <2>1. ASSUME NEW n \in nodes, NEW r \in c.rise PROVE r \in Nat /\ Last(sets).in + lag[n] <= r
    <3>1. r \in Nat /\ Last(sets).in - due <= r
      BY DEF Facts, Risen
    <3>2. lag[n] + due <= 0 /\ lag[n] \in Nat
      BY <1>1 DEF At
    <3> QED
      BY <1>1, <3>1, <3>2
  <2>2. ASSUME NEW nb \in e.soon PROVE nb \in Node \X Nat /\ Last(sets).in + lag[nb[1]] <= nb[2]
    <3>1. CASE nb \in d.soon
      BY <1>2, <3>1 DEF Facts, Settling
    <3>2. CASE nb \in nodes \X c.rise
      BY <2>1, <3>2
    <3> QED
      BY <1>5, <3>1, <3>2
  <2> QED
    BY <2>2 DEF Settling
<1>9. Facts(e)
  BY <1>6, <1>7, <1>8 DEF Facts
<1> QED
  BY <1>9 DEF e

\* The height of the first of some nodes is remembered.
LEMMA RememberFacts ==
  ASSUME Kinds, NEW l, l = Lag[phase], NEW c, DOMAIN c = Fields, Placed(c)', Rest(c),
         UNCHANGED <<phase, lag, age, ballot, sets>>,
         NEW nodes \in SUBSET Node, NEW m \in nodes, \A n \in nodes : lag[m] <= lag[n],
         NEW more \in Nat, due' \in Int, due' >= more - lag[m]
  PROVE  Facts(Remember(l, c, nodes, more))' /\ DOMAIN Remember(l, c, nodes, more) = Fields
<1>1. /\ \A n \in Node : lag[n] \in Nat
      /\ \A k \in DOMAIN age : age[k] \in Nat
      /\ Last(sets).in \in Int /\ l \in Nat
  BY LastIs, ScriptIs DEF Kinds, NetKinds, RunKinds
<1> DEFINE e == Remember(l, c, nodes, more)
<1>2. /\ e.held = c.held /\ e.down = c.down /\ e.far = c.far
      /\ e.knows = c.knows /\ e.older = c.older /\ e.near = c.near
      /\ e.reach = (IF more >= l /\ nodes \cap c.near # {} THEN DOMAIN c.knows ELSE Had(c, nodes))
      /\ e.told = c.told /\ e.about = c.about /\ e.next = c.next
      /\ e.powers = c.powers /\ e.soon = c.soon /\ DOMAIN e = Fields
  BY DEF Remember, Fields
<1>3. e.rise = {Max({0, nb[2] - more}) : nb \in {x \in c.soon : x[1] \in nodes}}
  BY DEF Remember, Fields
<1> HIDE DEF e
<1>4. Placed(e)'
  BY <1>2 DEF Placed
<1>5. Known(e)' /\ Ordered(e)' /\ Nearby(e)'
  BY <1>2 DEF Rest, Known, Ordered, Nearby, Knows
<1>6. Settling(e)' /\ Empowered(e)' /\ Polled(e)'
  BY <1>2 DEF Rest, Settling, Empowered, Polled, Knows
<1>7. Reached(e)'
  <2>1. ASSUME NEW k \in e.reach PROVE k \in DOMAIN age /\ due' + age[k] >= 0
    <3>1. CASE more >= l /\ nodes \cap c.near # {}
      <4>1. k \in DOMAIN age
        BY <1>2, <2>1, <3>1 DEF Rest, Known
      <4>2. PICK n \in nodes : n \in c.near
        BY <3>1
      <4>3. lag[n] <= age[k] + l /\ lag[m] <= lag[n]
        BY <4>1, <4>2 DEF Rest, Nearby
      <4>4. lag[n] \in Nat /\ lag[m] \in Nat /\ age[k] \in Nat
        BY <1>1, <4>1
      <4> QED
        BY <1>1, <3>1, <4>1, <4>3, <4>4
    <3>2. CASE ~(more >= l /\ nodes \cap c.near # {})
      <4>1. Has(c, k, nodes)
        BY <1>2, <2>1, <3>2 DEF Had
      <4>2. k \in DOMAIN age /\ \E n \in nodes \cap Node : Knows(n, k)
        BY <4>1, KnowsIs DEF Rest
      <4>3. PICK n \in nodes : lag[n] <= age[k]
        BY <4>2 DEF Knows
      <4>4. lag[n] \in Nat /\ lag[m] \in Nat /\ age[k] \in Nat /\ lag[m] <= lag[n]
        BY <1>1, <4>2
      <4> QED
        BY <4>2, <4>3, <4>4
    <3> QED
      BY <3>1, <3>2
  <2> QED
    BY <2>1 DEF Reached
<1>8. Risen(e)'
  <2>1. ASSUME NEW nb \in c.soon, nb[1] \in nodes
        PROVE  /\ Max({0, nb[2] - more}) \in Nat
               /\ Last(sets).in - due' <= Max({0, nb[2] - more})
    <3>1. nb[2] \in Nat /\ Last(sets).in + lag[nb[1]] <= nb[2]
      BY DEF Rest, Settling
    <3>2. lag[nb[1]] \in Nat /\ lag[m] \in Nat /\ lag[m] <= lag[nb[1]]
      BY <1>1, <2>1
    <3>3. Max({0, nb[2] - more}) = IF 0 >= nb[2] - more THEN 0 ELSE nb[2] - more
      <4>1. nb[2] - more \in Int
        BY <3>1
      <4> QED
        BY <4>1, MaxOfTwo
    <3> QED
      BY <1>1, <3>1, <3>2, <3>3
  <2>2. \A r \in e.rise : \E nb \in c.soon : nb[1] \in nodes /\ r = Max({0, nb[2] - more})
    BY <1>3
  <2> QED
    BY <2>1, <2>2 DEF Risen
<1>9. Facts(e)'
  BY <1>4, <1>5, <1>6, <1>7, <1>8 DEF Facts
<1> QED
  BY <1>2, <1>9 DEF e

--------------------------------------------------------------------------------
(* Where the run of a script is in its course, and the invariant.            *)

\* what is known before the step and after it; now, perhaps in the middle of it
Here == Course[phase][pc]
There == Course[phase][pc + 1]
Now ==
    IF status = "ok" THEN There
    ELSE IF begun THEN Midway(Lag[phase], Here, step)
    ELSE IF sent # {} THEN AfterTxs(Lag[phase], Here, sent)
    ELSE Here
Shown == \A c : c = Now => Facts(c)

\* the control of the run, and that no check has failed
RunsWell ==
    /\ status # "alarm" /\ hollow = FALSE
    /\ status # "running" => taken = {}
    /\ status = "ok" => pc = Len(script.steps) /\ begun = FALSE /\ sent = {}
    /\ begun = TRUE => step.op \in {"settle", "restart", "start"}
    /\ sent # {} => step.op = "send" /\ sent \subseteq step.txs
SInv == Kinds /\ RunsWell /\ (status \in {"running", "ok"} => Shown)

\* what the course says of the step
LEMMA CourseIs ==
  ASSUME RunKinds
  PROVE  /\ DOMAIN Here = Fields /\ DOMAIN There = Fields
         /\ There = After(Lag[phase], Here, step) /\ Sound(Here, step)
         /\ Here.held \subseteq script.finally
         /\ pc = Len(script.steps) => There.held = {} /\ There.down = {} /\ There.far = {}
<1>1. phase \in DOMAIN Script /\ pc \in DOMAIN Script[phase].steps
  BY DEF RunKinds, script
<1>2. IsCourse(phase) /\ Careful(phase) /\ Tidy(phase)
  BY <1>1, CourseAssumption, RulesAssumption
<1>3. pc \in 1..Len(script.steps) /\ Len(script.steps) \in Nat
  BY <1>1, ScriptIs DEF script
<1>4. DOMAIN Course[phase] = 1..(Len(script.steps) + 1)
  BY <1>2 DEF IsCourse, script
<1>5. pc \in DOMAIN Course[phase] /\ pc + 1 \in DOMAIN Course[phase]
  BY <1>3, <1>4
<1>6. DOMAIN Here = Fields /\ DOMAIN There = Fields
  BY <1>2, <1>5 DEF IsCourse, Here, There
<1>7. There = After(Lag[phase], Here, step)
  BY <1>1, <1>2 DEF IsCourse, Here, There, step, script
<1>8. Sound(Here, step)
  BY <1>1, <1>2 DEF Careful, Here, step, script
<1>9. Here.held \subseteq script.finally
  BY <1>1, <1>2 DEF Tidy, Here, script
<1>10. pc = Len(script.steps) => There.held = {} /\ There.down = {} /\ There.far = {}
  BY <1>2 DEF Tidy, There, script
<1> QED
  BY <1>6, <1>7, <1>8, <1>9, <1>10

\* between two steps
LEMMA FactsHere ==
  ASSUME SInv, status = "running", begun = FALSE, sent = {}, NEW c, c = Here
  PROVE  Facts(c)
<1>1. c = Now
  BY DEF Now
<1> QED
  BY <1>1 DEF SInv, Shown

\* Only four steps are ever found half done.
LEMMA PlainHere ==
  ASSUME SInv, status = "running", step.op \notin {"settle", "restart", "start", "send"}
  PROVE  begun = FALSE /\ sent = {}
BY DEF SInv, RunsWell, Kinds, RunKinds

\* When a step is done, what comes next in the course is what is known.
LEMMA NextNow == ASSUME RunKinds, status = "running", NextStep PROVE Now' = There
<1>1. CASE pc = Len(script.steps)
  BY <1>1 DEF NextStep, Now, There
<1>2. CASE pc # Len(script.steps)
  <2>1. phase' = phase /\ pc' = pc + 1 /\ status' = "running" /\ begun' = FALSE /\ sent' = {}
    BY <1>2 DEF NextStep
  <2> QED
    BY <2>1 DEF Now, Here, There
<1> QED
  BY <1>1, <1>2

\* A step that is done.
LEMMA AdvanceInv ==
  ASSUME SInv, status = "running", NextStep, hollow' = hollow, Kinds', NEW d, d = There, Facts(d)'
  PROVE  SInv'
<1>1. RunKinds
  BY DEF SInv, Kinds
<1>2. Now' = d
  BY <1>1, NextNow
<1>3. Shown'
  BY <1>2 DEF Shown
<1>4. begun' = FALSE /\ sent' = {} /\ status' \in {"running", "ok"} /\ phase' = phase
  BY DEF NextStep
<1>5. status' = "ok" => pc' = Len(script.steps) /\ pc = Len(script.steps)
  BY DEF NextStep
<1>6. status' = "ok" => taken' = {}
  BY <1>1, <1>5, CourseIs DEF Facts, Placed
<1>7. script' = script
  BY <1>4 DEF script
<1>8. RunsWell'
  BY <1>4, <1>5, <1>6, <1>7 DEF RunsWell, SInv
<1> QED
  BY <1>3, <1>8 DEF SInv

\* A step that has come to its second half, or to its next transaction.
LEMMA StayInv ==
  ASSUME SInv, status = "running", Kinds', UNCHANGED <<phase, pc, status, hollow>>,
         begun' = TRUE => step.op \in {"settle", "restart", "start"},
         sent' # {} => step.op = "send" /\ sent' \subseteq step.txs,
         NEW d, d = Now', Facts(d)'
  PROVE  SInv'
<1>1. Shown'
  BY DEF Shown
<1>2. step' = step /\ script' = script
  BY DEF step, script
<1>3. RunsWell'
  BY <1>2 DEF RunsWell, SInv
<1> QED
  BY <1>1, <1>3 DEF SInv

\* A step that is done and whose facts hold keeps the invariant.
LEMMA ContinueInv ==
  ASSUME SInv, status = "running", Continue, NEW d, d = There, Facts(d)
  PROVE  SInv'
<1>1. Kinds'
  BY ContinueKinds DEF SInv
<1>2. NextStep /\ hollow' = hollow /\ UNCHANGED <<phase, due, taken, up, cut, lag, age, ballot, sets>>
  BY DEF Continue, Advance, NextStep, chainVars
<1>3. Facts(d)'
  BY <1>2, StillFacts
<1> QED
  BY <1>1, <1>2, <1>3, AdvanceInv

\* A step that is given up: the finally clauses put back what is taken.
LEMMA GiveUpInv == ASSUME SInv, GiveUp PROVE SInv'
<1>1. Leave("raised") /\ status = "running" /\ Kinds'
  BY LeaveKinds DEF GiveUp, SInv
<1>2. PICK c : c = Now
  OBVIOUS
<1>3. Facts(c)
  BY <1>1, <1>2 DEF SInv, Shown
<1>4. c.held = Here.held
  <2>1. PICK l, h, st, txs : l = Lag[phase] /\ h = Here /\ st = step /\ txs = sent
    OBVIOUS
  <2>2. DOMAIN h = Fields
    BY <2>1, CourseIs DEF SInv, Kinds
  <2>3. Midway(l, h, st).held = h.held
    BY <2>2 DEF Midway, Remember, Fields
  <2>4. AfterTxs(l, h, txs).held = h.held
    BY <2>2 DEF AfterTxs, AfterBlocks, Fields
  <2> QED
    BY <1>1, <1>2, <2>1, <2>3, <2>4 DEF Now
<1>5. taken \subseteq script.finally
  BY <1>3, <1>4, CourseIs DEF Facts, Placed, SInv, Kinds
<1>6. /\ UNCHANGED <<phase, pc, begun, sent, hollow>> /\ status' = "raised"
      /\ taken' = taken \ script.finally
  BY <1>1 DEF Leave
<1>7. taken' = {}
  BY <1>5, <1>6
<1>8. step' = step
  BY <1>6 DEF step, script
<1>9. RunsWell'
  BY <1>6, <1>7, <1>8 DEF SInv, RunsWell
<1> QED
  BY <1>1, <1>6, <1>9 DEF SInv

--------------------------------------------------------------------------------
(* The steps that only look.                                                 *)

\* the steps after which no more is known than before
Quiet == {"refused", "read", "readall", "readany", "hashes", "halted", "indexed", "indexedmark",
          "backlog", "validators", "counted"}

\* A step that only looks and learns nothing leaves the course as it is.
LEMMA QuietAfter == ASSUME NEW l, NEW c, NEW st, st.op \in Quiet PROVE After(l, c, st) = c
BY DEF After, Quiet

\* So it keeps the invariant when it is done.
LEMMA QuietInv == ASSUME SInv, status = "running", step.op \in Quiet, Continue PROVE SInv'
<1>1. begun = FALSE /\ sent = {}
  BY PlainHere DEF Quiet
<1>2. PICK c, l, st : c = Here /\ l = Lag[phase] /\ st = step
  OBVIOUS
<1>3. Facts(c)
  BY <1>1, <1>2, FactsHere
<1>4. After(l, c, st) = c
  BY <1>2, QuietAfter
<1>5. c = There
  BY <1>2, <1>4, CourseIs DEF SInv, Kinds
<1> QED
  BY <1>3, <1>5, ContinueInv

\* what holds between two steps, of the course and of the step
LEMMA StepIs ==
  ASSUME SInv, status = "running", begun = FALSE, sent = {}, NEW c, c = Here, NEW st, st = step
  PROVE  Facts(c) /\ DOMAIN c = Fields /\ Sound(c, st) /\ Connected = Linked(c)
<1>1. Facts(c) /\ DOMAIN c = Fields /\ Sound(c, st)
  BY FactsHere, CourseIs DEF SInv, Kinds
<1> QED
  BY <1>1, LinkedIs DEF Facts

\* A node that is asked knows what one of those that may be asked knows.
LEMMA HealthyKnows ==
  ASSUME NetKinds, NEW c, Facts(c), NEW excluded, NEW key, Has(c, key, Asked(c, excluded)),
         NEW n \in Healthy(excluded)
  PROVE  Knows(n, key)
<1>1. Connected = Linked(c)
  BY LinkedIs DEF Facts
<1>2. Healthy(excluded) = Ahead(Asked(c, excluded))
  BY <1>1 DEF Healthy, Asked
<1>3. PICK o \in Asked(c, excluded) \cap Node : Knows(o, key)
  BY KnowsIs DEF Facts
<1>4. key \in DOMAIN age
  BY KnowsIs DEF Facts
<1>5. n \in Asked(c, excluded) /\ lag[n] <= lag[o]
  BY <1>2, <1>3 DEF Ahead
<1>6. n \in Node
  BY <1>5 DEF Asked, Linked
<1> QED
  BY <1>3, <1>4, <1>5, <1>6 DEF Knows, NetKinds

\* A value that is read is known where it is read: no check of a value fails.
LEMMA ReadInv == ASSUME SInv, ReadOne \/ ReadAllNodes \/ ReadAnyNode PROVE SInv'
<1>1. status = "running" /\ step.op \in {"read", "readall", "readany"}
  BY DEF ReadOne, ReadAllNodes, ReadAnyNode, Doing
<1>2. begun = FALSE /\ sent = {}
  BY <1>1, PlainHere
<1>3. PICK c, st : c = Here /\ st = step
  OBVIOUS
<1>4. Facts(c) /\ Sound(c, st) /\ NetKinds
  BY <1>1, <1>2, <1>3, StepIs DEF SInv, Kinds
<1>5. CASE ReadOne
  <2>1. st.op = "read" /\ Check(Knows(st.at, st.key))
    BY <1>3, <1>5 DEF ReadOne, Doing
  <2>2. Has(c, st.key, {st.at})
    BY <1>4, <2>1 DEF Sound
  <2>3. Knows(st.at, st.key)
    BY <1>4, <2>2, KnowsIs DEF Facts
  <2>4. Continue
    BY <2>1, <2>3 DEF Check
  <2> QED
    BY <1>1, <2>4, QuietInv DEF Quiet
<1>6. CASE ReadAllNodes
  <2>1. st.op = "readall" /\ Check(\A n \in Node : Knows(n, st.key))
    BY <1>3, <1>6 DEF ReadAllNodes, Doing
  <2>2. \A n \in Node : Has(c, st.key, {n})
    BY <1>4, <2>1 DEF Sound
  <2>3. ASSUME NEW n \in Node PROVE Knows(n, st.key)
    <3>1. \E o \in {n} \cap Node : Knows(o, st.key)
      BY <1>4, <2>2, KnowsIs DEF Facts
    <3> QED
      BY <3>1
  <2>4. Continue
    BY <2>1, <2>3 DEF Check
  <2> QED
    BY <1>1, <2>4, QuietInv DEF Quiet
<1>7. CASE ReadAnyNode
  <2>1. st.op = "readany" /\ \E n \in Healthy(st.excluded) : Check(Knows(n, st.key))
    BY <1>3, <1>7 DEF ReadAnyNode, Doing
  <2>2. Has(c, st.key, Asked(c, st.excluded))
    BY <1>4, <2>1 DEF Sound
  <2>3. \A n \in Healthy(st.excluded) : Knows(n, st.key)
    BY <1>4, <2>2, HealthyKnows
  <2>4. Continue
    BY <2>1, <2>3 DEF Check
  <2> QED
    BY <1>1, <2>4, QuietInv DEF Quiet
<1> QED
  BY <1>5, <1>6, <1>7

\* The powers given last are in force once their block is next.
LEMMA InForceIs ==
  ASSUME Kinds, NEW behind \in Nat, Last(sets).in + behind <= 1
  PROVE  InForce(behind) = Last(sets).power
<1> DEFINE T == {i \in DOMAIN sets : sets[i].in + behind <= 1}
<1>1. sets \in Seq(Change(script)) /\ Len(sets) \in DOMAIN sets
  BY LastIs DEF Kinds, PowerKinds
<1>2. T \in SUBSET Nat /\ Len(sets) \in T /\ \A i \in T : i <= Len(sets)
  BY <1>1 DEF Last
<1> HIDE DEF T
<1>3. Max(T) \in T /\ \A i \in T : i <= Max(T)
  BY <1>1, <1>2, GreatestOf
<1>4. Max(T) = Len(sets)
  <2>1. Max(T) <= Len(sets) /\ Len(sets) <= Max(T) /\ Max(T) \in Nat /\ Len(sets) \in Nat
    BY <1>2, <1>3
  <2> QED
    BY <2>1
<1>5. InForce(behind) = sets[Max(T)].power
  BY DEF InForce, T
<1> QED
  BY <1>4, <1>5 DEF Last

\* Some of the nodes decide with the powers that were given last.
LEMMA SettlesIs ==
  ASSUME Kinds, NEW c, Facts(c), NEW nodes, Settles(c, nodes)
  PROVE  \E n \in nodes \cap Node : Last(sets).in + lag[n] <= 1 /\ lag[n] \in Nat
<1>1. PICK nb \in c.soon : nb[1] \in nodes /\ nb[2] <= 1
  BY DEF Settles
<1>2. nb[1] \in Node /\ nb[2] \in Nat /\ Last(sets).in + lag[nb[1]] <= nb[2]
  BY DEF Facts, Settling
<1>3. lag[nb[1]] \in Nat /\ Last(sets).in \in Int
  BY <1>2, LastIs DEF Kinds, NetKinds
<1>4. Last(sets).in + lag[nb[1]] <= 1
  BY <1>1, <1>2, <1>3
<1> QED
  BY <1>1, <1>2, <1>3, <1>4

\* The validators are as many as the powers have, and a quorum is missing where it should be: neither check fails.
LEMMA PowersInv == ASSUME SInv, CountValidators \/ NoProgress PROVE SInv'
<1>1. status = "running" /\ step.op \in {"validators", "counted", "halted"}
  BY DEF CountValidators, NoProgress, Doing
<1>2. begun = FALSE /\ sent = {}
  BY <1>1, PlainHere
<1>3. PICK c, st : c = Here /\ st = step
  OBVIOUS
<1>4. Facts(c) /\ Sound(c, st) /\ Kinds /\ Connected = Linked(c)
  BY <1>1, <1>2, <1>3, StepIs DEF SInv
<1>5. Last(sets).power \in c.powers
  BY <1>4 DEF Facts, Empowered
<1>6. CASE CountValidators /\ st.op = "validators"
  <2>1. Check(Active(st.at) = st.count)
    BY <1>3, <1>6 DEF CountValidators, Doing
  <2>2. Settles(c, {st.at}) /\ \A P \in c.powers : Many(P) = st.count
    BY <1>4, <1>6 DEF Sound
  <2>3. Last(sets).in + lag[st.at] <= 1 /\ lag[st.at] \in Nat
    BY <1>4, <2>2, SettlesIs
  <2>4. PowersOf(st.at) = Last(sets).power
    BY <1>4, <2>3, InForceIs DEF PowersOf
  <2>5. Active(st.at) = Many(Last(sets).power)
    BY <2>4 DEF Active, Many
  <2>6. Continue
    BY <1>5, <2>1, <2>2, <2>5 DEF Check
  <2> QED
    BY <1>1, <2>6, QuietInv DEF Quiet
<1>7. CASE CountValidators /\ st.op = "counted"
  <2>1. Continue
    BY <1>3, <1>7 DEF CountValidators, Doing, Await
  <2> QED
    BY <1>1, <2>1, QuietInv DEF Quiet
<1>8. CASE NoProgress
  <2>1. st.op = "halted" /\ Check(~Quorum)
    BY <1>3, <1>8 DEF NoProgress, Doing
  <2>2. /\ Settles(c, Node)
        /\ \A P \in c.powers : ~(3 * Power(P, Linked(c)) > 2 * Power(P, Node))
    BY <1>4, <2>1 DEF Sound
  <2>3. PICK n \in Node : Last(sets).in + lag[n] <= 1 /\ lag[n] \in Nat
    BY <1>4, <2>2, SettlesIs
  <2>4. Last(sets).in \in Int
    BY <1>4, LastIs
  <2>5. Last(sets).in + 0 <= 1 /\ 0 \in Nat
    BY <2>3, <2>4
  <2>6. InForce(0) = Last(sets).power
    BY <1>4, <2>5, InForceIs
  <2>7. ~Quorum
    BY <1>4, <1>5, <2>2, <2>6 DEF Quorum
  <2>8. Continue
    BY <2>1, <2>7 DEF Check
  <2> QED
    BY <1>1, <2>8, QuietInv DEF Quiet
<1> QED
  BY <1>3, <1>6, <1>7, <1>8 DEF CountValidators, Doing

--------------------------------------------------------------------------------
(* The steps that wait.                                                      *)

\* A wait after which some nodes know what is older than a key, or than what others know.
LEMMA LearnInv ==
  ASSUME SInv, status = "running", step.op \in {"pick", "until", "agree"}, Continue,
         NEW c, c = Here, NEW keys, NEW nodes \in SUBSET Node,
         After(Lag[phase], c, step) = Learns(c, keys, nodes),
         \A k \in keys : k \in DOMAIN age => \A n \in nodes : Knows(n, k)
  PROVE  SInv'
<1>1. begun = FALSE /\ sent = {}
  BY PlainHere
<1>2. Facts(c) /\ DOMAIN c = Fields
  BY <1>1, FactsHere, CourseIs DEF SInv, Kinds
<1>3. PICK d : d = Learns(c, keys, nodes)
  OBVIOUS
<1>4. Facts(d)
  BY <1>2, <1>3, LearnsFacts
<1>5. d = There
  BY <1>3, CourseIs DEF SInv, Kinds
<1> QED
  BY <1>4, <1>5, ContinueInv

\* A node that knows a key knows all that was written no later.
LEMMA OlderKnown ==
  ASSUME NetKinds, NEW c, Facts(c), NEW key, NEW n \in Node, Knows(n, key), NEW k \in OlderThan(c, key)
  PROVE  Knows(n, k)
<1>1. k \in DOMAIN age /\ key \in DOMAIN age /\ age[key] <= age[k]
  BY DEF OlderThan, Facts, Ordered
<1> QED
  BY <1>1 DEF Knows, NetKinds

\* Waiting for a key to be seen teaches what is no newer.
LEMMA WaitInv == ASSUME SInv, PickNode \/ AwaitOne \/ AgreeAll PROVE SInv'
<1>1. status = "running" /\ step.op \in {"pick", "until", "agree"} /\ Continue
  BY DEF PickNode, AwaitOne, AgreeAll, Doing, Await
<1>2. begun = FALSE /\ sent = {}
  BY <1>1, PlainHere
<1>3. PICK c, l, st : c = Here /\ l = Lag[phase] /\ st = step
  OBVIOUS
<1>4. Facts(c) /\ NetKinds /\ Connected = Linked(c) /\ Connected \subseteq Node
  BY <1>1, <1>2, <1>3, StepIs DEF SInv, Kinds, Connected, NetKinds
<1>5. CASE PickNode
  <2>1. st.op = "pick" /\ st.at \in Healthy(st.excluded)
    BY <1>3, <1>5 DEF PickNode, Doing, Await
  <2>2. After(l, c, st) = Learns(c, Had(c, Asked(c, st.excluded)), {st.at})
    BY <2>1 DEF After
  <2>3. \A k \in Had(c, Asked(c, st.excluded)) : Knows(st.at, k)
    BY <1>4, <2>1, HealthyKnows DEF Had
  <2>4. {st.at} \in SUBSET Node
    BY <1>4, <2>1 DEF Healthy, Ahead
  <2> QED
    BY <1>1, <1>3, <2>2, <2>3, <2>4, LearnInv
<1>6. CASE AwaitOne
  <2>1. st.op = "until" /\ st.at \in Node /\ Knows(st.at, st.key)
    BY <1>3, <1>4, <1>6 DEF AwaitOne, Doing, Await
  <2>2. After(l, c, st) = Learns(c, OlderThan(c, st.key), {st.at})
    BY <2>1 DEF After
  <2>3. \A k \in OlderThan(c, st.key) : Knows(st.at, k)
    BY <1>4, <2>1, OlderKnown
  <2> QED
    BY <1>1, <1>3, <2>1, <2>2, <2>3, LearnInv
<1>7. CASE AgreeAll
  <2>1. st.op = "agree" /\ \A n \in Node : Knows(n, st.key)
    BY <1>3, <1>7 DEF AgreeAll, Doing, Await
  <2>2. After(l, c, st) = Learns(c, OlderThan(c, st.key), Node)
    BY <2>1 DEF After
  <2>3. \A k \in OlderThan(c, st.key) : \A n \in Node : Knows(n, k)
    BY <1>4, <2>1, OlderKnown
  <2> QED
    BY <1>1, <1>3, <2>2, <2>3, LearnInv
<1> QED
  BY <1>5, <1>6, <1>7

\* A wait for the height that is remembered.
LEMMA ArriveInv ==
  ASSUME SInv, status = "running", Continue, NEW d, Facts(d), DOMAIN d = Fields,
         NEW nodes \in SUBSET Node, \A n \in nodes : At(n), There = Arrives(d, nodes)
  PROVE  SInv'
<1>1. PICK e : e = Arrives(d, nodes)
  OBVIOUS
<1>2. Facts(e)
  BY <1>1, ArrivesFacts DEF SInv
<1> QED
  BY <1>1, <1>2, ContinueInv

\* Waiting for a height teaches what was known at that height.
LEMMA ReachInv == ASSUME SInv, ReachMark PROVE SInv'
<1>1. status = "running" /\ step.op \in {"reach", "recover"} /\ Continue
  BY DEF ReachMark, Doing, Await
<1>2. begun = FALSE /\ sent = {}
  BY <1>1, PlainHere
<1>3. PICK c, l, st : c = Here /\ l = Lag[phase] /\ st = step
  OBVIOUS
<1>4. Facts(c) /\ DOMAIN c = Fields /\ There = After(l, c, st)
  BY <1>1, <1>2, <1>3, StepIs, CourseIs DEF SInv, Kinds
<1>5. CASE st.op = "reach"
  <2>1. st.at \in Connected /\ At(st.at)
    BY <1>3, <1>5 DEF ReachMark, Doing, Await
  <2>2. {st.at} \in SUBSET Node
    BY <2>1 DEF Connected, SInv, Kinds, NetKinds
  <2>3. After(l, c, st) = Arrives(c, {st.at})
    BY <1>5 DEF After
  <2> QED
    BY <1>1, <1>4, <2>1, <2>2, <2>3, ArriveInv
<1>6. CASE st.op = "recover"
  <2>1. \A n \in Node : At(n)
    BY <1>3, <1>6 DEF ReachMark, Doing, Await
  <2>2. After(l, c, st) = Arrives(c, Node)
    BY <1>6 DEF After
  <2> QED
    BY <1>1, <1>4, <2>1, <2>2, ArriveInv
<1> QED
  BY <1>1, <1>3, <1>5, <1>6

\* the second halves
LEMMA MidwayShape ==
  ASSUME NEW l, NEW c, DOMAIN c = Fields, NEW st
  PROVE  DOMAIN Midway(l, c, st) = Fields
BY DEF Midway, Remember, Fields

\* The second half of a step that waits for nodes.
LEMMA SecondInv == ASSUME SInv, begun = TRUE, Settled \/ StartNodes \/ Restart PROVE SInv'
<1>1. /\ status = "running" /\ Continue
      /\ \/ step.op \in {"settle", "restart"} /\ \A n \in Node : At(n)
         \/ step.op = "start" /\ \A n \in step.nodes : n \in Connected /\ At(n)
  BY DEF Settled, StartNodes, Restart, Doing, Await
<1>2. PICK c, l, st, d : c = Here /\ l = Lag[phase] /\ st = step /\ d = Midway(l, c, st)
  OBVIOUS
<1>3. d = Now
  BY <1>1, <1>2 DEF Now
<1>4. Facts(d) /\ There = After(l, c, st) /\ DOMAIN c = Fields
  BY <1>1, <1>2, <1>3, CourseIs DEF SInv, Shown, Kinds
<1>5. DOMAIN d = Fields
  BY <1>2, <1>4, MidwayShape
<1>6. CASE st.op \in {"settle", "restart"}
  <2>1. After(l, c, st) = Arrives(d, Node)
    BY <1>2, <1>6 DEF After
  <2>2. \A n \in Node : At(n)
    BY <1>1, <1>2, <1>6
  <2> QED
    BY <1>1, <1>4, <1>5, <2>1, <2>2, ArriveInv
<1>7. CASE st.op = "start"
  <2>1. After(l, c, st) = Arrives(d, st.nodes)
    BY <1>2, <1>7 DEF After
  <2>2. \A n \in st.nodes : n \in Connected /\ At(n)
    BY <1>1, <1>2, <1>7
  <2>3. st.nodes \in SUBSET Node
    BY <2>2 DEF Connected, SInv, Kinds, NetKinds
  <2> QED
    BY <1>1, <1>4, <1>5, <2>1, <2>2, <2>3, ArriveInv
<1> QED
  BY <1>1, <1>2, <1>6, <1>7

--------------------------------------------------------------------------------
(* The steps that remember, stop, start, take and put back.                  *)

\* What is known once the first half is done.
LEMMA NowMidway ==
  ASSUME status = "running", UNCHANGED <<phase, pc, status>>, begun' = TRUE
  PROVE  Now' = Midway(Lag[phase], Here, step)
<1>1. Here' = Here /\ step' = step /\ Lag[phase'] = Lag[phase]
  BY DEF Here, step, script
<1> QED
  BY <1>1 DEF Now

\* stabilize_nodes starts from the least height of the nodes that answer, a mark from
\* that of one node or from that of a change.
LEMMA SnapshotInv == ASSUME SInv, Snapshot PROVE SInv'
<1>1. /\ status = "running" /\ step.op = "settle" /\ begun = FALSE /\ Connected # {}
      /\ begun' = TRUE
      /\ UNCHANGED <<phase, pc, status, sent, hollow, taken, up, cut, lag, age, ballot, sets>>
  BY DEF Snapshot, Doing, chainVars, SInv, Kinds, RunKinds
<1>2. sent = {} /\ Kinds'
  BY <1>1, SnapshotKinds DEF SInv, RunsWell
<1>3. PICK c, l, st, d : c = Here /\ l = Lag[phase] /\ st = step /\ d = Remember(l, c, Linked(c), 0)
  OBVIOUS
<1>4. Facts(c) /\ DOMAIN c = Fields /\ Connected = Linked(c)
  BY <1>1, <1>2, <1>3, StepIs
<1>5. Connected \in SUBSET Node
  BY DEF SInv, Kinds, NetKinds, Connected
<1>6. PICK m \in Connected : Min({lag[n] : n \in Connected}) = lag[m] /\ \A n \in Connected : lag[m] <= lag[n]
  BY <1>1, <1>5, LowestLag DEF SInv, Kinds
<1>7. step.advance \in Nat /\ lag[m] \in Nat
  BY <1>1, <1>5, ScriptIs DEF SInv, Kinds, NetKinds, IsStep
<1>8. due' \in {step.advance - lag[m], 0 - lag[m]}
  BY <1>6 DEF Snapshot
<1>9. due' \in Int /\ due' >= 0 - lag[m]
  BY <1>7, <1>8
<1>10. Placed(c)' /\ Rest(c)
  BY <1>1, <1>4 DEF Facts, Placed, Rest
<1>11. Facts(d)'
  BY <1>1, <1>3, <1>4, <1>5, <1>6, <1>9, <1>10, RememberFacts DEF SInv
<1>12. d = Now'
  <2>1. Midway(l, c, st) = d
    BY <1>1, <1>3 DEF Midway
  <2> QED
    BY <1>1, <1>3, <2>1, NowMidway
<1> QED
  BY <1>1, <1>2, <1>11, <1>12, StayInv

\* A step that leads to the next one without the chain going on.
LEMMA TurnInv ==
  ASSUME SInv, status = "running", Advance, Kinds', NEW d, d = There, Facts(d)'
  PROVE  SInv'
BY AdvanceInv DEF Advance

\* Remembering a height.
LEMMA MarkInv == ASSUME SInv, MarkHeight PROVE SInv'
<1>1. /\ status = "running" /\ step.op \in {"mark", "marker", "due"} /\ Advance /\ Kinds'
      /\ UNCHANGED <<taken, up, cut, lag, age, ballot, sets>>
  BY MarkKinds DEF MarkHeight, Doing, SInv, chainVars
<1>2. begun = FALSE /\ sent = {} /\ phase' = phase
  BY <1>1, PlainHere DEF Advance, NextStep
<1>3. PICK c, l, st, d : c = Here /\ l = Lag[phase] /\ st = step /\ d = After(l, c, st)
  OBVIOUS
<1>4. Facts(c) /\ DOMAIN c = Fields /\ d = There
  BY <1>1, <1>2, <1>3, StepIs, CourseIs DEF SInv, Kinds
<1>5. IsStep(st) /\ st.more \in Nat
  BY <1>1, <1>3, ScriptIs DEF SInv, Kinds, IsStep
<1>6. Placed(c)' /\ Rest(c)
  BY <1>1, <1>4 DEF Facts, Placed, Rest
<1>7. due' \in Int
  BY <1>1 DEF Kinds, RunKinds
<1>8. CASE st.op \in {"mark", "marker"}
  <2>1. st.at \in Node /\ due' = st.more - lag[st.at]
    BY <1>3, <1>5, <1>8 DEF MarkHeight, Doing, IsStep, Connected, SInv, Kinds, NetKinds
  <2>2. d = Remember(l, c, {st.at}, st.more)
    BY <1>3, <1>8 DEF After
  <2>3. lag[st.at] \in Nat
    BY <2>1 DEF SInv, Kinds, NetKinds
  <2>4. due' >= st.more - lag[st.at] /\ \A n \in {st.at} : lag[st.at] <= lag[n]
    BY <1>5, <2>1, <2>3
  <2>5. Facts(Remember(l, c, {st.at}, st.more))'
    BY <1>1, <1>2, <1>3, <1>4, <1>5, <1>6, <1>7, <2>1, <2>4, RememberFacts DEF SInv
  <2>6. Facts(d)'
    BY <2>2, <2>5
  <2> QED
    BY <1>1, <1>4, <2>6, TurnInv
<1>9. CASE st.op = "due"
  <2>1. due' = st.more - age[st.key] /\ st.key \in DOMAIN age
    BY <1>3, <1>5, <1>9, KeyOfStep DEF MarkHeight, Doing, SInv, IsStep
  <2>2. d = [c EXCEPT !.reach = OlderThan(c, st.key), !.rise = {}]
    BY <1>3, <1>9 DEF After
  <2>3. /\ d.held = c.held /\ d.down = c.down /\ d.far = c.far
        /\ d.knows = c.knows /\ d.older = c.older /\ d.near = c.near
        /\ d.told = c.told /\ d.about = c.about /\ d.next = c.next
        /\ d.powers = c.powers /\ d.soon = c.soon /\ d.rise = {} /\ d.reach = OlderThan(c, st.key)
    BY <1>4, <2>2 DEF Fields
  <2>4. Placed(d)' /\ Known(d)' /\ Ordered(d)' /\ Nearby(d)'
    BY <1>1, <1>2, <1>6, <2>3 DEF Rest, Placed, Known, Ordered, Nearby, Knows
  <2>5. Risen(d)' /\ Settling(d)' /\ Empowered(d)' /\ Polled(d)'
    BY <1>1, <1>6, <2>3 DEF Rest, Risen, Settling, Empowered, Polled, Knows
  <2>6. ASSUME NEW k \in OlderThan(c, st.key) PROVE k \in DOMAIN age /\ due' + age[k] >= 0
    <3>1. k \in DOMAIN age /\ age[st.key] <= age[k]
      BY <1>4 DEF OlderThan, Facts, Ordered
    <3>2. age[k] \in Nat /\ age[st.key] \in Nat
      BY <2>1, <3>1 DEF SInv, Kinds, NetKinds
    <3> QED
      BY <1>5, <2>1, <3>1, <3>2
  <2>7. Reached(d)'
    BY <1>1, <2>3, <2>6 DEF Reached
  <2>8. Facts(d)'
    BY <2>4, <2>5, <2>7 DEF Facts
  <2> QED
    BY <1>1, <1>4, <2>8, TurnInv
<1> QED
  BY <1>1, <1>3, <1>8, <1>9

\* Nodes are stopped, started or cut off, something is taken or put back.
LEMMA PlacedInv ==
  ASSUME SInv, status = "running", Advance, Kinds', UNCHANGED <<due, chainVars>>,
         NEW c, Facts(c), NEW d, d = There, Placed(d)',
         /\ d.knows = c.knows /\ d.older = c.older /\ d.near = c.near /\ d.reach = c.reach
         /\ d.told = c.told /\ d.about = c.about /\ d.next = c.next
         /\ d.powers = c.powers /\ d.soon = c.soon /\ d.rise = c.rise
  PROVE  SInv'
<1>1. UNCHANGED <<phase, due, lag, age, ballot, sets>>
  BY DEF Advance, NextStep, chainVars
<1>2. Rest(d)'
  BY <1>1, RestKept
<1>3. Facts(d)'
  BY <1>2 DEF Rest, Facts
<1> QED
  BY <1>3, TurnInv

\* Stopping and cutting off nodes, bringing them back, taking things and putting them back.
LEMMA NodesInv == ASSUME SInv, StopNodes \/ CutOff \/ Rejoin \/ TakeAway \/ GiveBack PROVE SInv'
<1>1. /\ status = "running" /\ step.op \in {"stop", "partition", "heal", "take", "putback"} /\ Advance
      /\ UNCHANGED <<due, chainVars>>
  BY DEF StopNodes, CutOff, Rejoin, TakeAway, GiveBack, Doing
<1>2. begun = FALSE /\ sent = {} /\ Kinds'
  BY <1>1, PlainHere, NodesKinds DEF SInv
<1>3. PICK c, l, st, d : c = Here /\ l = Lag[phase] /\ st = step /\ d = After(l, c, st)
  OBVIOUS
<1>4. Facts(c) /\ DOMAIN c = Fields /\ d = There
  BY <1>1, <1>2, <1>3, StepIs, CourseIs DEF SInv, Kinds
<1>5. up = Node \ c.down /\ cut = c.far /\ taken = c.held
  BY <1>4 DEF Facts, Placed
<1>6. /\ d.knows = c.knows /\ d.older = c.older /\ d.near = c.near /\ d.reach = c.reach
      /\ d.told = c.told /\ d.about = c.about /\ d.next = c.next
      /\ d.powers = c.powers /\ d.soon = c.soon /\ d.rise = c.rise
  BY <1>1, <1>3, <1>4 DEF After, Fields
<1>7. Placed(d)'
  <2>1. CASE StopNodes
    <3>1. st.op = "stop" /\ up' = up \ st.nodes /\ UNCHANGED <<cut, taken>>
      BY <1>3, <2>1 DEF StopNodes, Doing
    <3>2. d = [c EXCEPT !.down = @ \cup st.nodes]
      BY <1>3, <3>1 DEF After
    <3>3. d.down = c.down \cup st.nodes /\ d.far = c.far /\ d.held = c.held
      BY <1>4, <3>2 DEF Fields
    <3> QED
      BY <1>5, <3>1, <3>3 DEF Placed
  <2>2. CASE CutOff
    <3>1. st.op = "partition" /\ cut' = st.nodes /\ taken' = taken \cup {"partition"} /\ up' = up
      BY <1>3, <2>2 DEF CutOff, Doing
    <3>2. d = [c EXCEPT !.far = st.nodes, !.held = @ \cup {"partition"}]
      BY <1>3, <3>1 DEF After
    <3>3. d.down = c.down /\ d.far = st.nodes /\ d.held = c.held \cup {"partition"}
      BY <1>4, <3>2 DEF Fields
    <3> QED
      BY <1>5, <3>1, <3>3 DEF Placed
  <2>3. CASE Rejoin
    <3>1. st.op = "heal" /\ cut' = {} /\ taken' = taken \ {"partition"} /\ up' = up
      BY <1>3, <2>3 DEF Rejoin, Doing
    <3>2. d = [c EXCEPT !.far = {}, !.held = @ \ {"partition"}]
      BY <1>3, <3>1 DEF After
    <3>3. d.down = c.down /\ d.far = {} /\ d.held = c.held \ {"partition"}
      BY <1>4, <3>2 DEF Fields
    <3> QED
      BY <1>5, <3>1, <3>3 DEF Placed
  <2>4. CASE TakeAway
    <3>1. st.op = "take" /\ taken' = taken \cup {st.what} /\ UNCHANGED <<up, cut>>
      BY <1>3, <2>4 DEF TakeAway, Doing
    <3>2. d = [c EXCEPT !.held = @ \cup {st.what}]
      BY <1>3, <3>1 DEF After
    <3>3. d.down = c.down /\ d.far = c.far /\ d.held = c.held \cup {st.what}
      BY <1>4, <3>2 DEF Fields
    <3> QED
      BY <1>5, <3>1, <3>3 DEF Placed
  <2>5. CASE GiveBack
    <3>1. st.op = "putback" /\ taken' = taken \ {st.what} /\ UNCHANGED <<up, cut>>
      BY <1>3, <2>5 DEF GiveBack, Doing
    <3>2. d = [c EXCEPT !.held = @ \ {st.what}]
      BY <1>3, <3>1 DEF After
    <3>3. d.down = c.down /\ d.far = c.far /\ d.held = c.held \ {st.what}
      BY <1>4, <3>2 DEF Fields
    <3> QED
      BY <1>5, <3>1, <3>3 DEF Placed
  <2> QED
    BY <2>1, <2>2, <2>3, <2>4, <2>5
<1> QED
  BY <1>1, <1>2, <1>4, <1>6, <1>7, PlacedInv

\* The first halves of the steps that start nodes.
LEMMA FirstInv == ASSUME SInv, begun = FALSE, StartNodes \/ Restart PROVE SInv'
<1>1. /\ status = "running" /\ begun' = TRUE
      /\ UNCHANGED <<phase, pc, status, sent, hollow, taken, cut, lag, age, ballot, sets>>
      /\ \/ step.op = "start" /\ up' = up \cup step.nodes /\ due' = due
         \/ /\ step.op = "restart" /\ up' = Node
            /\ due' = step.more - Min({lag[n] : n \in Node})
  BY DEF StartNodes, Restart, Doing, chainVars
<1>2. sent = {} /\ Kinds'
  BY <1>1, NodesKinds, RestartKinds DEF SInv, RunsWell
<1>3. PICK c, l, st, d : c = Here /\ l = Lag[phase] /\ st = step /\ d = Midway(l, c, st)
  OBVIOUS
<1>4. Facts(c) /\ DOMAIN c = Fields /\ d = Now'
  BY <1>1, <1>2, <1>3, StepIs, NowMidway
<1>5. up = Node \ c.down /\ cut = c.far /\ taken = c.held
  BY <1>4 DEF Facts, Placed
<1>6. CASE st.op = "start"
  <2>1. d = [c EXCEPT !.down = @ \ st.nodes]
    BY <1>3, <1>6 DEF Midway
  <2>2. st.nodes \subseteq Node
    BY <1>3, <1>6, ScriptIs DEF SInv, Kinds, IsStep
  <2>3. /\ d.held = c.held /\ d.down = c.down \ st.nodes /\ d.far = c.far
        /\ d.knows = c.knows /\ d.older = c.older /\ d.near = c.near /\ d.reach = c.reach
        /\ d.told = c.told /\ d.about = c.about /\ d.next = c.next
        /\ d.powers = c.powers /\ d.soon = c.soon /\ d.rise = c.rise
    BY <1>4, <2>1 DEF Fields
  <2>4. up' = up \cup st.nodes /\ UNCHANGED <<phase, due, cut, taken, lag, age, ballot, sets>>
    BY <1>1, <1>3, <1>6
  <2>5. Placed(d)'
    BY <1>5, <2>2, <2>3, <2>4 DEF Placed
  <2>6. Rest(d)'
    BY <1>4, <2>3, <2>4, RestKept
  <2>7. Facts(d)'
    BY <2>5, <2>6 DEF Rest, Facts
  <2> QED
    BY <1>1, <1>2, <1>4, <2>7, StayInv
<1>7. CASE st.op = "restart"
  <2> DEFINE e == [c EXCEPT !.down = {}]
  <2>1. d = Remember(l, e, Node, st.more)
    BY <1>3, <1>7 DEF Midway
  <2>2. st.more \in Nat
    BY <1>3, <1>7, ScriptIs DEF SInv, Kinds, IsStep
  <2>3. /\ e.held = c.held /\ e.down = {} /\ e.far = c.far /\ DOMAIN e = Fields
        /\ e.knows = c.knows /\ e.older = c.older /\ e.near = c.near /\ e.reach = c.reach
        /\ e.told = c.told /\ e.about = c.about /\ e.next = c.next
        /\ e.powers = c.powers /\ e.soon = c.soon /\ e.rise = c.rise
    BY <1>4 DEF Fields
  <2> HIDE DEF e
  <2>4. up' = Node /\ due' = st.more - Min({lag[n] : n \in Node})
    BY <1>1, <1>3, <1>7
  <2>5. Placed(e)'
    BY <1>1, <1>5, <2>3, <2>4 DEF Placed
  <2>6. Rest(e)
    <3>1. Known(e) /\ Ordered(e) /\ Nearby(e) /\ Reached(e)
      BY <1>4, <2>3 DEF Facts, Known, Ordered, Nearby, Reached
    <3>2. Risen(e) /\ Settling(e) /\ Empowered(e) /\ Polled(e)
      BY <1>4, <2>3 DEF Facts, Risen, Settling, Empowered, Polled
    <3> QED
      BY <3>1, <3>2 DEF Rest
  <2>7. PICK m \in Node : Min({lag[n] : n \in Node}) = lag[m] /\ \A n \in Node : lag[m] <= lag[n]
    <3>1. Node # {}
      BY DEF Node
    <3> QED
      BY <3>1, LowestLag DEF SInv, Kinds
  <2>8. lag[m] \in Nat
    BY DEF SInv, Kinds, NetKinds
  <2>9. due' \in Int /\ due' >= st.more - lag[m]
    BY <2>2, <2>4, <2>7, <2>8
  <2>10. Facts(Remember(l, e, Node, st.more))'
    BY <1>1, <1>3, <2>2, <2>3, <2>5, <2>6, <2>7, <2>9, RememberFacts DEF SInv
  <2>11. Facts(d)'
    BY <2>1, <2>10
  <2> QED
    BY <1>1, <1>2, <1>4, <2>11, StayInv
<1> QED
  BY <1>1, <1>3, <1>6, <1>7

--------------------------------------------------------------------------------
(* The steps that send transactions.                                         *)

\* One more of several blocks, with the powers as they are.
LEMMA BlockFacts ==
  ASSUME Kinds, NEW l, l = Lag[phase], NEW c, DOMAIN c = Fields, NEW B, NEW b,
         Facts(AfterBlocks(l, c, B)),
         NEW at \in Connected, at \in b.by, NEW keys, b.keys = keys \ {Nothing},
         Chain(at, keys), sets' = Sooner(sets),
         UNCHANGED <<phase, taken, up, cut>>
  PROVE  Facts(AfterBlocks(l, c, B \cup {b}))'
<1>1. PICK d, e : d = AfterBlocks(l, c, B) /\ e = AfterBlocks(l, c, B \cup {b})
  OBVIOUS
<1>2. Facts(d)
  BY <1>1
<1>3. Chained(AfterBlocks(l, c, B))
  BY DEF Facts, Chained
<1>4. Chained(AfterBlocks(l, c, B \cup {b}))'
  BY <1>3, OneMoreBlock
<1>5. /\ d.powers = c.powers /\ d.soon = c.soon /\ d.rise = c.rise
      /\ e.powers = c.powers /\ e.soon = c.soon /\ e.rise = c.rise /\ e.told = {}
  BY <1>1 DEF AfterBlocks, Fields
<1>6. Risen(d)' /\ Settling(d)' /\ Empowered(d)'
  BY <1>2, BlockSettles DEF Facts
<1>7. Risen(e)' /\ Settling(e)' /\ Empowered(e)' /\ Polled(e)'
  BY <1>5, <1>6 DEF Risen, Settling, Empowered, Polled
<1>8. Facts(e)'
  BY <1>1, <1>4, <1>7 DEF Facts, Chained
<1> QED
  BY <1>1, <1>8

\* The transactions of a step, one after another.
TxBlock(t) == Posted({t.at}, {t.who, t.key})

\* One more transaction of a step has its receipt.
LEMMA TxFacts ==
  ASSUME Kinds, NEW l, l = Lag[phase], NEW c, DOMAIN c = Fields, NEW txs, NEW t,
         Facts(AfterTxs(l, c, txs)) \/ (txs = {} /\ Facts(c)),
         t.at \in Connected, NEW keys, keys \ {Nothing} = {t.who, t.key} \ {Nothing},
         Chain(t.at, keys), sets' = Sooner(sets), UNCHANGED <<phase, taken, up, cut>>
  PROVE  Facts(AfterTxs(l, c, txs \cup {t}))'
<1> DEFINE B == {TxBlock(u) : u \in txs}
           b == TxBlock(t)
<1>1. AfterTxs(l, c, txs) = AfterBlocks(l, c, B)
  BY DEF AfterTxs, TxBlock
<1>2. AfterTxs(l, c, txs \cup {t}) = AfterBlocks(l, c, B \cup {b})
  <2>1. {TxBlock(u) : u \in txs \cup {t}} = B \cup {b}
    OBVIOUS
  <2>2. AfterTxs(l, c, txs \cup {t}) = AfterBlocks(l, c, {TxBlock(u) : u \in txs \cup {t}})
    BY DEF AfterTxs, TxBlock
  <2> QED
    BY <2>1, <2>2
<1>3. t.at \in b.by /\ b.keys = keys \ {Nothing}
  BY DEF TxBlock, Posted
<1>4. Facts(AfterBlocks(l, c, B))
  <2>1. CASE txs = {} /\ Facts(c)
    <3>1. B = {}
      BY <2>1
    <3>2. Facts(AfterBlocks(l, c, {}))
      BY <2>1, NoBlocks
    <3> QED
      BY <3>1, <3>2
  <2> QED
    BY <1>1, <2>1
<1> HIDE DEF B, b
<1>5. Facts(AfterBlocks(l, c, B \cup {b}))'
  BY <1>3, <1>4, BlockFacts
<1> QED
  BY <1>2, <1>5

\* A wallet whose nonce is known is known to the node after the others' transactions.
LEMMA TxKnows ==
  ASSUME NEW l, NEW c, DOMAIN c = Fields, NEW txs, NEW t,
         Facts(AfterTxs(l, c, txs)) \/ (txs = {} /\ Facts(c)),
         Has(c, t.who, {t.at}), \A u \in txs : t.who \notin {u.who, u.key}
  PROVE  Knows(t.at, t.who)
<1>1. CASE txs = {} /\ Facts(c)
  <2>1. \E n \in {t.at} \cap Node : Knows(n, t.who)
    BY <1>1, KnowsIs DEF Facts
  <2> QED
    BY <2>1
<1>2. CASE Facts(AfterTxs(l, c, txs))
  <2> DEFINE B == {TxBlock(u) : u \in txs}
             d == AfterBlocks(l, c, B)
  <2>1. AfterTxs(l, c, txs) = d
    BY DEF AfterTxs, TxBlock
  <2>2. t.who \notin Written(B)
    <3>1. \A u \in txs : TxBlock(u).keys \subseteq {u.who, u.key}
      BY DEF TxBlock, Posted
    <3> QED
      BY <3>1 DEF Written
  <2>3. d.knows = [k \in DOMAIN c.knows |->
             IF k \in Written(B)
             THEN {Makers(B, k)} \cup (IF l = 0 THEN Alone(Linked(c)) ELSE {})
             ELSE c.knows[k] \cup {x.by : x \in B}
                       \cup (IF l <= 1 /\ B # {} THEN Alone(Linked(c)) ELSE {})]
    BY DEF AfterBlocks, Fields
  <2> HIDE DEF B, d
  <2>4. Has(d, t.who, {t.at})
    <3>1. t.who \in DOMAIN c.knows /\ \E S \in c.knows[t.who] : S \subseteq {t.at}
      BY DEF Has
    <3>2. t.who \in DOMAIN d.knows /\ c.knows[t.who] \subseteq d.knows[t.who]
      BY <2>2, <2>3, <3>1
    <3> QED
      BY <3>1, <3>2 DEF Has
  <2>5. Facts(d)
    BY <1>2, <2>1
  <2>6. \E n \in {t.at} \cap Node : Knows(n, t.who)
    BY <2>4, <2>5, KnowsIs DEF Facts
  <2> QED
    BY <2>6
<1> QED
  BY <1>1, <1>2

\* The nonce of a transaction is known where it is read, whatever of the step was sent before it.
LEMMA SendTxInv == ASSUME SInv, SendTx PROVE SInv'
<1>1. status = "running" /\ step.op = "send" /\ Kinds /\ Kinds'
  BY SendTxKinds DEF SendTx, Doing, SInv
<1>2. PICK t \in step.txs \ sent :
          /\ t.at \in Connected
          /\ IF Knows(t.at, t.who)
             THEN /\ Block(t.at, {t.who, t.key})
                  /\ IF step.txs = sent \cup {t} THEN Advance
                     ELSE sent' = sent \cup {t} /\ UNCHANGED <<phase, pc, status, begun, hollow>>
                  /\ UNCHANGED <<taken, up, cut>>
             ELSE IF step.lenient THEN PassUntested ELSE Leave("alarm")
  BY DEF SendTx
<1>3. PICK c, l, st, txs : c = Here /\ l = Lag[phase] /\ st = step /\ txs = sent
  OBVIOUS
<1>4. begun = FALSE /\ txs \subseteq st.txs
  BY <1>1, <1>3 DEF SInv, RunsWell, Kinds, RunKinds
<1>5. DOMAIN c = Fields /\ There = After(l, c, st) /\ Sound(c, st)
  BY <1>3, CourseIs DEF Kinds, SInv
<1>6. Facts(AfterTxs(l, c, txs)) \/ (txs = {} /\ Facts(c))
  <2>1. PICK d : d = Now
    OBVIOUS
  <2>2. Facts(d)
    BY <1>1, <2>1 DEF SInv, Shown
  <2> QED
    BY <1>1, <1>3, <1>4, <2>1, <2>2 DEF Now
<1>7. Has(c, t.who, {t.at}) /\ \A u \in txs : t.who \notin {u.who, u.key}
  BY <1>1, <1>2, <1>3, <1>4, <1>5 DEF Sound
<1>8. Knows(t.at, t.who)
  BY <1>5, <1>6, <1>7, TxKnows
<1>9. /\ Chain(t.at, {t.who, t.key}) /\ sets' = Sooner(sets) /\ UNCHANGED <<taken, up, cut>>
      /\ IF step.txs = sent \cup {t} THEN Advance
         ELSE sent' = sent \cup {t} /\ UNCHANGED <<phase, pc, status, begun, hollow>>
  BY <1>2, <1>8 DEF Block
<1>10. phase' = phase
  BY <1>9 DEF Advance, NextStep
<1>11. PICK e : e = AfterTxs(l, c, txs \cup {t})
  OBVIOUS
<1>12. Facts(e)'
  BY <1>1, <1>2, <1>3, <1>5, <1>6, <1>9, <1>10, <1>11, TxFacts
<1>13. CASE step.txs = sent \cup {t}
  <2>1. e = There
    BY <1>1, <1>3, <1>5, <1>11, <1>13 DEF After
  <2> QED
    BY <1>1, <1>9, <1>12, <1>13, <2>1, TurnInv
<1>14. CASE step.txs # sent \cup {t}
  <2>1. sent' = sent \cup {t} /\ UNCHANGED <<phase, pc, status, begun, hollow>>
    BY <1>9, <1>14
  <2>2. Now' = e
    <3>1. Here' = Here /\ Lag[phase'] = Lag[phase] /\ sent' # {}
      BY <2>1 DEF Here
    <3> QED
      BY <1>1, <1>3, <1>4, <1>11, <2>1, <3>1 DEF Now
  <2>3. sent' \subseteq step.txs
    BY <1>2, <1>3, <1>4, <2>1
  <2> QED
    BY <1>1, <1>4, <1>12, <2>1, <2>2, <2>3, StayInv
<1> QED
  BY <1>13, <1>14

\* A transaction through any healthy node.
LEMMA SendOverInv == ASSUME SInv, SendOver PROVE SInv'
<1>1. status = "running" /\ step.op \in {"over", "topup"} /\ Kinds /\ Kinds'
  BY SendOverKinds DEF SendOver, Doing, SInv
<1>2. PICK n \in Node, r \in Node :
          /\ n \in Healthy(step.excluded)
          /\ r \in Connected \ (step.excluded \cup {Bds})
          /\ IF ~Knows(n, step.who) THEN Leave("alarm")
             ELSE /\ Block(r, {step.who, step.key})
                  /\ Advance
                  /\ UNCHANGED <<taken, up, cut>>
  BY DEF SendOver
<1>3. PICK c, l, st, e : c = Here /\ l = Lag[phase] /\ st = step /\ e = After(l, c, st)
  OBVIOUS
<1>4. begun = FALSE /\ sent = {}
  BY <1>1, PlainHere
<1>5. Facts(c) /\ DOMAIN c = Fields /\ Sound(c, st) /\ Connected = Linked(c) /\ There = e
  BY <1>1, <1>3, <1>4, StepIs, CourseIs DEF SInv, Kinds
<1>6. Has(c, st.who, Asked(c, st.excluded))
  BY <1>1, <1>3, <1>5 DEF Sound
<1>7. Knows(n, st.who)
  BY <1>1, <1>2, <1>3, <1>5, <1>6, HealthyKnows DEF Kinds
<1>8. /\ Chain(r, {st.who, st.key}) /\ sets' = Sooner(sets) /\ Advance
      /\ UNCHANGED <<phase, taken, up, cut>>
  BY <1>2, <1>3, <1>7 DEF Block, Advance, NextStep
<1>9. r \in Takers(c, st)
  BY <1>2, <1>3, <1>5 DEF Takers
<1>10. CASE st.op = "over"
  <2> DEFINE b == Posted(Takers(c, st), {st.who, st.key})
  <2>1. e = AfterBlocks(l, c, {} \cup {b})
    BY <1>3, <1>10 DEF After
  <2>2. r \in b.by /\ b.keys = {st.who, st.key} \ {Nothing}
    BY <1>9 DEF Posted
  <2> HIDE DEF b
  <2>3. Facts(AfterBlocks(l, c, {}))
    BY <1>5, NoBlocks
  <2>4. Facts(AfterBlocks(l, c, {} \cup {b}))'
    BY <1>1, <1>2, <1>3, <1>5, <1>8, <2>2, <2>3, BlockFacts
  <2>5. Facts(e)'
    BY <2>1, <2>4
  <2> QED
    BY <1>1, <1>5, <1>8, <2>5, TurnInv
<1>11. CASE st.op = "topup"
  <2> DEFINE keys == {st.who, st.key} \ {Nothing}
  <2>1. e = AfterPerhaps(l, c, Takers(c, st), keys)
    BY <1>3, <1>11 DEF After
  <2> HIDE DEF keys
  <2>2. Chained(c) /\ {st.who, st.key} \ {Nothing} \subseteq keys
    BY <1>5 DEF Facts, Chained, keys
  <2>3. Chained(AfterPerhaps(l, c, Takers(c, st), keys))'
    BY <1>1, <1>2, <1>3, <1>5, <1>8, <1>9, <2>2, PerhapsBlock
  <2>4. e.powers = c.powers /\ e.soon = c.soon /\ e.rise = c.rise /\ e.told = {}
    BY <1>5, <2>1 DEF AfterPerhaps, Fields
  <2>5. Risen(c)' /\ Settling(c)' /\ Empowered(c)'
    BY <1>1, <1>2, <1>5, <1>8, BlockSettles DEF Facts
  <2>6. Risen(e)' /\ Settling(e)' /\ Empowered(e)' /\ Polled(e)'
    BY <2>4, <2>5 DEF Risen, Settling, Empowered, Polled
  <2>7. Facts(e)'
    BY <2>1, <2>3, <2>6 DEF Facts, Chained
  <2> QED
    BY <1>1, <1>5, <1>8, <2>7, TurnInv
<1> QED
  BY <1>1, <1>3, <1>10, <1>11

\* A top-up that is not needed.
LEMMA SkipInv == ASSUME SInv, SkipTopUp PROVE SInv'
<1>1. status = "running" /\ step.op = "topup" /\ Continue
  BY DEF SkipTopUp, Doing
<1>2. begun = FALSE /\ sent = {}
  BY <1>1, PlainHere
<1>3. PICK c, l, st, e : c = Here /\ l = Lag[phase] /\ st = step /\ e = After(l, c, st)
  OBVIOUS
<1>4. Facts(c) /\ DOMAIN c = Fields /\ There = e
  BY <1>1, <1>2, <1>3, StepIs, CourseIs DEF SInv, Kinds
<1>5. e = AfterPerhaps(l, c, Takers(c, st), {st.who, st.key} \ {Nothing})
  BY <1>1, <1>3 DEF After
<1>6. Facts(e)
  BY <1>4, <1>5, NotPerhaps
<1> QED
  BY <1>1, <1>4, <1>6, ContinueInv

\* One transaction, whatever powers it gives.
LEMMA OneTx ==
  ASSUME Kinds, NEW l, l = Lag[phase], NEW c, DOMAIN c = Fields, Facts(c), NEW t,
         t.at \in Connected, NEW keys, keys \ {Nothing} = {t.who, t.key} \ {Nothing},
         Chain(t.at, keys), UNCHANGED <<phase, taken, up, cut>>, NEW d, d = AfterTxs(l, c, {t})
  PROVE  /\ Chained(d)' /\ DOMAIN d = Fields
         /\ d.down = c.down /\ d.far = c.far /\ d.told = {}
         /\ d.powers = c.powers /\ d.soon = c.soon /\ d.rise = c.rise
<1> DEFINE b == TxBlock(t)
<1>1. d = AfterBlocks(l, c, {} \cup {b})
  <2>1. {TxBlock(u) : u \in {t}} = {} \cup {b}
    OBVIOUS
  <2>2. d = AfterBlocks(l, c, {TxBlock(u) : u \in {t}})
    BY DEF AfterTxs, TxBlock
  <2> QED
    BY <2>1, <2>2
<1>2. t.at \in b.by /\ b.keys = keys \ {Nothing}
  BY DEF TxBlock, Posted
<1> HIDE DEF b
<1>3. Chained(AfterBlocks(l, c, {}))
  BY NoBlocks DEF Facts, Chained
<1>4. Chained(d)'
  <2>1. Chained(AfterBlocks(l, c, {} \cup {b}))'
    BY <1>2, <1>3, OneMoreBlock
  <2> QED
    BY <1>1, <2>1
<1>5. /\ DOMAIN d = Fields /\ d.down = c.down /\ d.far = c.far /\ d.told = {}
      /\ d.powers = c.powers /\ d.soon = c.soon /\ d.rise = c.rise
  BY <1>1 DEF AfterBlocks, Fields
<1> QED
  BY <1>4, <1>5

\* New powers decided without a vote: the nonce is known where it is read.
LEMMA ElectInv == ASSUME SInv, ElectValidators PROVE SInv'
<1>1. status = "running" /\ step.op = "elect" /\ Kinds /\ Kinds'
  BY ElectKinds DEF ElectValidators, Doing, SInv
<1>2. begun = FALSE /\ sent = {}
  BY <1>1, PlainHere
<1>3. PICK c, l, st, t, d, e : /\ c = Here /\ l = Lag[phase] /\ st = step /\ t = Tx(st.who, st.at, st.key)
                               /\ d = AfterTxs(l, c, {t}) /\ e = After(l, c, st)
  OBVIOUS
<1>4. Facts(c) /\ DOMAIN c = Fields /\ Sound(c, st) /\ There = e /\ Connected = Linked(c)
  BY <1>1, <1>2, <1>3, StepIs, CourseIs DEF SInv, Kinds
<1>5. st.at \in Connected /\
      IF ~Knows(st.at, st.who) THEN Leave("alarm")
      ELSE /\ Chain(st.at, {st.who, st.key}) /\ Give(st.power)
           /\ Advance
           /\ UNCHANGED <<ballot, taken, up, cut>>
  BY <1>3 DEF ElectValidators
<1>6. Has(c, st.who, {st.at})
  BY <1>1, <1>3, <1>4 DEF Sound
<1>7. Knows(st.at, st.who)
  <2>1. \E n \in {st.at} \cap Node : Knows(n, st.who)
    BY <1>4, <1>6, KnowsIs DEF Facts
  <2> QED
    BY <2>1
<1>8. /\ Chain(st.at, {st.who, st.key}) /\ Give(st.power) /\ Advance
      /\ UNCHANGED <<phase, ballot, taken, up, cut>>
  BY <1>5, <1>7 DEF Advance, NextStep
<1>9. t.at = st.at /\ t.who = st.who /\ t.key = st.key
  BY <1>3 DEF Tx
<1>10. /\ Chained(d)' /\ DOMAIN d = Fields /\ d.down = c.down /\ d.far = c.far /\ d.told = {}
       /\ d.powers = c.powers /\ d.soon = c.soon /\ d.rise = c.rise
  <2>1. {st.who, st.key} \ {Nothing} = {t.who, t.key} \ {Nothing}
    BY <1>9
  <2>2. t.at \in Connected /\ Chain(t.at, {st.who, st.key}) /\ UNCHANGED <<phase, taken, up, cut>>
    BY <1>5, <1>8, <1>9
  <2> QED
    BY <1>1, <1>3, <1>4, <2>1, <2>2, OneTx
<1>11. e = Given(l, d, st.power)
  BY <1>1, <1>3 DEF After
<1>12. st.power \in PowersIn(script)
  BY <1>1, <1>3, ScriptIs DEF Kinds
<1>13. CASE st.power = Same
  <2>1. e = d
    BY <1>11, <1>13 DEF Given
  <2>2. sets' = Sooner(sets)
    BY <1>8, <1>13 DEF Give
  <2>3. Risen(c)' /\ Settling(c)' /\ Empowered(c)'
    BY <1>1, <1>4, <1>5, <1>8, <2>2, BlockSettles DEF Facts
  <2>4. Risen(e)' /\ Settling(e)' /\ Empowered(e)' /\ Polled(e)'
    BY <1>10, <2>1, <2>3 DEF Risen, Settling, Empowered, Polled
  <2>5. Facts(e)'
    BY <1>10, <2>1, <2>4 DEF Facts, Chained
  <2> QED
    BY <1>1, <1>4, <1>8, <2>5, TurnInv
<1>14. CASE st.power # Same
  <2>1. e = [d EXCEPT !.powers = {st.power}, !.soon = Linked(d) \X {2 + l}, !.rise = {}]
    BY <1>11, <1>14 DEF Given
  <2>2. /\ e.held = d.held /\ e.down = d.down /\ e.far = d.far /\ e.knows = d.knows
        /\ e.older = d.older /\ e.near = d.near /\ e.reach = d.reach /\ e.told = {}
        /\ e.powers = {st.power} /\ e.soon = Linked(d) \X {2 + l} /\ e.rise = {}
    BY <1>10, <2>1 DEF Fields
  <2>3. /\ Last(sets').power = st.power
        /\ \A n \in Connected : n \in Node /\ Last(sets').in + lag'[n] <= 2 + Lag[phase]
    BY <1>1, <1>5, <1>8, <1>12, <1>14, GiveSettles
  <2>4. Linked(d) = Connected
    BY <1>4, <1>10 DEF Linked
  <2>5. Chained(e)'
    BY <1>10, <2>2 DEF Chained, Placed, Known, Ordered, Nearby, Reached
  <2>6. Settling(e)'
    <3>1. 2 + l \in Nat
      BY <1>1, <1>3, ScriptIs DEF Kinds
    <3> QED
      BY <1>3, <2>2, <2>3, <2>4, <3>1 DEF Settling
  <2>7. Risen(e)' /\ Empowered(e)' /\ Polled(e)'
    BY <2>2, <2>3 DEF Risen, Empowered, Polled
  <2>8. Facts(e)'
    BY <2>5, <2>6, <2>7 DEF Facts, Chained
  <2> QED
    BY <1>1, <1>4, <1>8, <2>8, TurnInv
<1> QED
  BY <1>13, <1>14

\* A proposal: the nonce is known where it is read.
LEMMA ProposeInv == ASSUME SInv, ProposeVote PROVE SInv'
<1>1. status = "running" /\ step.op = "propose" /\ Kinds /\ Kinds'
  BY ProposeKinds DEF ProposeVote, Doing, SInv
<1>2. begun = FALSE /\ sent = {}
  BY <1>1, PlainHere
<1>3. PICK c, l, st, t, d, e : /\ c = Here /\ l = Lag[phase] /\ st = step /\ t = Tx(st.who, st.at, Nothing)
                               /\ d = AfterTxs(l, c, {t}) /\ e = After(l, c, st)
  OBVIOUS
<1>4. Facts(c) /\ DOMAIN c = Fields /\ Sound(c, st) /\ There = e
  BY <1>1, <1>2, <1>3, StepIs, CourseIs DEF SInv, Kinds
<1>5. st.at \in Connected /\
      IF ~Knows(st.at, st.who) THEN Leave("alarm")
      ELSE /\ Chain(st.at, {st.who}) /\ sets' = Sooner(sets)
           /\ \E k \in 1..st.votes : ballot' = [needs |-> k, key |-> st.key, power |-> st.power]
           /\ Advance
           /\ UNCHANGED <<taken, up, cut>>
  BY <1>3 DEF ProposeVote
<1>6. Has(c, st.who, {st.at})
  BY <1>1, <1>3, <1>4 DEF Sound
<1>7. Knows(st.at, st.who)
  <2>1. \E n \in {st.at} \cap Node : Knows(n, st.who)
    BY <1>4, <1>6, KnowsIs DEF Facts
  <2> QED
    BY <2>1
<1>8. /\ Chain(st.at, {st.who}) /\ sets' = Sooner(sets) /\ Advance
      /\ UNCHANGED <<phase, taken, up, cut>>
  BY <1>5, <1>7 DEF Advance, NextStep
<1>9. t.at = st.at /\ t.who = st.who /\ t.key = Nothing
  BY <1>3 DEF Tx
<1>10. /\ Chained(d)' /\ DOMAIN d = Fields /\ d.told = {}
       /\ d.powers = c.powers /\ d.soon = c.soon /\ d.rise = c.rise
  <2>1. {st.who} \ {Nothing} = {t.who, t.key} \ {Nothing}
    BY <1>9
  <2>2. t.at \in Connected /\ Chain(t.at, {st.who}) /\ UNCHANGED <<phase, taken, up, cut>>
    BY <1>5, <1>8, <1>9
  <2> QED
    BY <1>1, <1>3, <1>4, <2>1, <2>2, OneTx
<1>11. e = [d EXCEPT !.told = {{}}, !.about = st.key, !.next = st.power]
  BY <1>1, <1>3 DEF After, AfterProposal
<1>12. /\ e.held = d.held /\ e.down = d.down /\ e.far = d.far /\ e.knows = d.knows
       /\ e.older = d.older /\ e.near = d.near /\ e.reach = d.reach
       /\ e.about = st.key /\ e.next = st.power
       /\ e.powers = c.powers /\ e.soon = c.soon /\ e.rise = c.rise
  BY <1>10, <1>11 DEF Fields
<1>13. Chained(e)'
  BY <1>10, <1>12 DEF Chained, Placed, Known, Ordered, Nearby, Reached
<1>14. Risen(c)' /\ Settling(c)' /\ Empowered(c)'
  BY <1>1, <1>4, <1>5, <1>8, BlockSettles DEF Facts
<1>15. Polled(e)'
  <2>1. PICK k \in 1..st.votes : ballot' = [needs |-> k, key |-> st.key, power |-> st.power]
    BY <1>5, <1>7
  <2>2. st.votes \in Nat
    BY <1>1, <1>3, ScriptIs DEF Kinds, IsStep
  <2>3. ballot'.needs # 0 /\ ballot'.key = st.key /\ ballot'.power = st.power
    BY <2>1, <2>2
  <2> QED
    BY <1>12, <2>3 DEF Polled
<1>16. Facts(e)'
  BY <1>12, <1>13, <1>14, <1>15 DEF Facts, Chained, Risen, Settling, Empowered
<1> QED
  BY <1>1, <1>4, <1>8, <1>16, TurnInv

\* Waiting for the approval to be seen on every node.
LEMMA ApprovedInv == ASSUME SInv, AwaitApproved PROVE SInv'
<1>1. status = "running" /\ step.op = "approved" /\ Continue
  BY DEF AwaitApproved, Doing, Await
<1>2. begun = FALSE /\ sent = {}
  BY <1>1, PlainHere
<1>3. PICK c, l, st, e : c = Here /\ l = Lag[phase] /\ st = step /\ e = After(l, c, st)
  OBVIOUS
<1>4. Facts(c) /\ DOMAIN c = Fields /\ There = e /\ Connected = Linked(c)
  BY <1>1, <1>2, <1>3, StepIs, CourseIs DEF SInv, Kinds
<1>5. ballot.needs = 0 /\ \E n \in st.readers \cap Connected : Knows(n, Approved)
  BY <1>3 DEF AwaitApproved, Await, SeenApproved
<1>6. e = AfterApproval(c, st)
  BY <1>1, <1>3 DEF After
<1>7. CASE c.told = {}
  <2>1. e = c
    BY <1>6, <1>7 DEF AfterApproval
  <2> QED
    BY <1>1, <1>4, <2>1, ContinueInv
<1>8. CASE c.told # {}
  <2>1. /\ \A k \in DOMAIN age : age[Approved] <= age[k]
        /\ c.next # Same => Last(sets).power = c.next
        /\ \A S \in c.told : \E n \in S \cap Node : Knows(n, Approved)
    BY <1>4, <1>5, <1>8 DEF Facts, Polled
  <2>2. e = [c EXCEPT !.knows = [k \in DOMAIN @ |-> @[k] \cup c.told \cup {st.readers \cap Linked(c)}],
                      !.powers = IF c.next = Same THEN @ ELSE {c.next}]
    BY <1>6, <1>8 DEF AfterApproval
  <2>3. /\ e.held = c.held /\ e.down = c.down /\ e.far = c.far
        /\ e.older = c.older /\ e.near = c.near /\ e.reach = c.reach
        /\ e.told = c.told /\ e.about = c.about /\ e.next = c.next
        /\ e.powers = (IF c.next = Same THEN c.powers ELSE {c.next})
        /\ e.soon = c.soon /\ e.rise = c.rise
        /\ e.knows = [k \in DOMAIN c.knows |-> c.knows[k] \cup c.told \cup {st.readers \cap Linked(c)}]
    BY <1>4, <2>2 DEF Fields
  <2>4. Known(e)
    <3>1. DOMAIN e.knows = DOMAIN age
      BY <1>4, <2>3 DEF Facts, Known
    <3>2. ASSUME NEW k \in DOMAIN age, NEW S \in e.knows[k] PROVE \E n \in S \cap Node : Knows(n, k)
      <4>1. k \in DOMAIN c.knows
        BY <1>4 DEF Facts, Known
      <4>2. S \in c.knows[k] \/ S \in c.told \/ S = st.readers \cap Linked(c)
        BY <2>3, <3>2, <4>1
      <4>3. Connected \subseteq Node
        BY DEF Connected, SInv, Kinds, NetKinds
      <4>4. ASSUME NEW n \in Node, Knows(n, Approved) PROVE Knows(n, k)
        <5>1. lag[n] \in Nat /\ age[Approved] \in Nat /\ age[k] \in Nat
          BY ApprovedIs DEF SInv, Kinds, NetKinds
        <5> QED
          BY <2>1, <4>4, <5>1 DEF Knows
      <4>5. CASE S \in c.knows[k]
        BY <1>4, <4>5 DEF Facts, Known
      <4>6. CASE S \in c.told
        BY <2>1, <4>4, <4>6
      <4>7. CASE S = st.readers \cap Linked(c)
        BY <1>4, <1>5, <4>3, <4>4, <4>7
      <4> QED
        BY <4>2, <4>5, <4>6, <4>7
    <3> QED
      BY <3>1, <3>2 DEF Known
  <2>5. Placed(e) /\ Ordered(e) /\ Nearby(e) /\ Reached(e)
    BY <1>4, <2>3 DEF Facts, Placed, Ordered, Nearby, Reached
  <2>6. Risen(e) /\ Settling(e) /\ Polled(e)
    BY <1>4, <2>3 DEF Facts, Risen, Settling, Polled
  <2>7. Empowered(e)
    BY <1>4, <2>1, <2>3 DEF Facts, Empowered
  <2>8. Facts(e)
    BY <2>4, <2>5, <2>6, <2>7 DEF Facts
  <2> QED
    BY <1>1, <1>4, <2>8, ContinueInv
<1> QED
  BY <1>7, <1>8

--------------------------------------------------------------------------------
(* Votes.                                                                    *)

\* What the record of a course is after a vote.
Effects(c, st) == {st.who, Approved, c.about}
VoteIs(l, c, st, p, e) ==
    /\ e.held = p.held /\ e.down = p.down /\ e.far = p.far /\ e.knows = p.knows
    /\ e.older = p.older /\ e.near = p.near /\ e.reach = p.reach
    /\ e.about = c.about /\ e.next = c.next
    /\ \A S \in e.told : /\ \E T \in c.told : T \subseteq S
                         /\ IF l = 0 THEN \E n \in Linked(c) : n \in S ELSE st.at \in S
    /\ c.next = Same => e.powers = c.powers /\ e.soon = c.soon /\ e.rise = c.rise
    /\ c.next # Same =>
          /\ e.powers = c.powers \cup {c.next} /\ e.rise = {}
          /\ \A x \in e.soon : \E nb \in c.soon :
                nb[1] \in Linked(c) /\ x = <<nb[1], Max({nb[2], 2 + l})>>

\* What the record of a course is after a vote.
LEMMA VoteShape ==
  ASSUME NEW l, NEW c, DOMAIN c = Fields, NEW st, NEW p, p = AfterPerhaps(l, c, {st.at}, Effects(c, st)),
         NEW e, e = AfterVote(l, c, st)
  PROVE  VoteIs(l, c, st, p, e)
<1>1. /\ DOMAIN p = Fields /\ p.down = c.down /\ p.far = c.far /\ p.about = c.about /\ p.next = c.next
      /\ p.powers = c.powers /\ p.soon = c.soon /\ p.rise = c.rise
  BY DEF AfterPerhaps, Fields
<1>2. PICK g : g = GivenPerhaps(l, p, c.next)
  OBVIOUS
<1>3. e = [g EXCEPT !.told = {S \cup {n} : S \in c.told, n \in IF l = 0 THEN Linked(c) ELSE {st.at}}]
  BY <1>2 DEF AfterVote, Effects
<1>4. Linked(p) = Linked(c)
  BY <1>1 DEF Linked
<1>5. /\ DOMAIN g = Fields /\ g.held = p.held /\ g.down = p.down /\ g.far = p.far /\ g.knows = p.knows
      /\ g.older = p.older /\ g.near = p.near /\ g.reach = p.reach
      /\ g.about = p.about /\ g.next = p.next
      /\ c.next = Same => g.powers = c.powers /\ g.soon = c.soon /\ g.rise = c.rise
      /\ c.next # Same =>
            /\ g.powers = c.powers \cup {c.next} /\ g.rise = {}
            /\ \A x \in g.soon : \E nb \in c.soon :
                  nb[1] \in Linked(c) /\ x = <<nb[1], Max({nb[2], 2 + l})>>
  <2>1. CASE c.next = Same
    BY <1>1, <1>2, <2>1 DEF GivenPerhaps
  <2>2. CASE c.next # Same
    <3>1. g = [p EXCEPT !.powers = @ \cup {c.next},
                        !.soon = {<<nb[1], Max({nb[2], 2 + l})>> : nb \in {x \in @ : x[1] \in Linked(p)}},
                        !.rise = {}]
      BY <1>2, <2>2 DEF GivenPerhaps
    <3> QED
      BY <1>1, <1>4, <2>2, <3>1 DEF Fields
  <2> QED
    BY <2>1, <2>2
<1>6. /\ e.held = g.held /\ e.down = g.down /\ e.far = g.far /\ e.knows = g.knows
      /\ e.older = g.older /\ e.near = g.near /\ e.reach = g.reach
      /\ e.about = g.about /\ e.next = g.next
      /\ e.powers = g.powers /\ e.soon = g.soon /\ e.rise = g.rise
  BY <1>3, <1>5 DEF Fields
<1>7. \A S \in e.told : \E T \in c.told, n \in IF l = 0 THEN Linked(c) ELSE {st.at} : S = T \cup {n}
  BY <1>3, <1>5 DEF Fields
<1>8. ASSUME NEW S \in e.told
      PROVE  /\ \E T \in c.told : T \subseteq S
             /\ IF l = 0 THEN \E n \in Linked(c) : n \in S ELSE st.at \in S
  BY <1>7
<1> QED
  BY <1>1, <1>5, <1>6, <1>8 DEF VoteIs

\* Powers that may be given decide no earlier than those that are.
LEMMA LaterSoon ==
  ASSUME NEW l \in Nat, NEW nb \in Node \X Nat, NEW x, x = <<nb[1], Max({nb[2], 2 + l})>>
  PROVE  x \in Node \X Nat /\ x[1] = nb[1] /\ nb[2] <= x[2] /\ 2 + l <= x[2]
<1>1. nb[1] \in Node /\ nb[2] \in Nat
  OBVIOUS
<1>2. Max({nb[2], 2 + l}) = IF nb[2] >= 2 + l THEN nb[2] ELSE 2 + l
  <2>1. nb[2] \in Int /\ 2 + l \in Int
    BY <1>1
  <2> QED
    BY <2>1, MaxOfTwo
<1> QED
  BY <1>1, <1>2

\* A vote that is not cast, because the ballot is seen decided.
LEMMA NoVote ==
  ASSUME Kinds, NEW l, l = Lag[phase], NEW c, DOMAIN c = Fields, Facts(c), NEW st,
         NEW e, e = AfterVote(l, c, st)
  PROVE  Facts(e)
<1>1. PICK p : p = AfterPerhaps(l, c, {st.at}, Effects(c, st))
  OBVIOUS
<1>2. Facts(p)
  BY <1>1, NotPerhaps
<1>3. VoteIs(l, c, st, p, e)
  BY <1>1, VoteShape
<1>4. Placed(e) /\ Known(e) /\ Ordered(e) /\ Nearby(e) /\ Reached(e)
  BY <1>2, <1>3 DEF Facts, Placed, Known, Ordered, Nearby, Reached, VoteIs
<1>5. Risen(e) /\ Empowered(e)
  BY <1>3 DEF Facts, Risen, Empowered, VoteIs
<1>6. Settling(e)
  <2>1. CASE c.next = Same
    BY <1>3, <2>1 DEF Facts, Settling, VoteIs
  <2>2. CASE c.next # Same
    <3>1. l \in Nat /\ Last(sets).in \in Int
      BY LastIs, ScriptIs DEF Kinds
    <3>2. ASSUME NEW x \in e.soon PROVE x \in Node \X Nat /\ Last(sets).in + lag[x[1]] <= x[2]
      <4>1. \A nb \in c.soon : nb \in Node \X Nat /\ Last(sets).in + lag[nb[1]] <= nb[2]
        BY DEF Facts, Settling
      <4>2. PICK nb \in c.soon : x = <<nb[1], Max({nb[2], 2 + l})>>
        BY <1>3, <2>2, <3>2 DEF VoteIs
      <4>5. x \in Node \X Nat /\ x[1] = nb[1] /\ nb[2] <= x[2]
        BY <3>1, <4>1, <4>2, LaterSoon
      <4>3. lag[nb[1]] \in Nat /\ nb[2] \in Nat /\ x[2] \in Nat
        BY <4>1, <4>5 DEF Kinds, NetKinds
      <4> QED
        BY <3>1, <4>1, <4>3, <4>5
    <3> QED
      BY <3>2 DEF Settling
  <2> QED
    BY <2>1, <2>2
<1>7. Polled(e)
  BY <1>3 DEF Facts, Polled, VoteIs
<1> QED
  BY <1>4, <1>5, <1>6, <1>7 DEF Facts

\* A vote that is cast, and decides the ballot or not.
LEMMA VoteFacts ==
  ASSUME Kinds, NEW l, l = Lag[phase], NEW c, DOMAIN c = Fields, Facts(c), c.told # {}, NEW st,
         st.at \in Connected, ballot.needs # 0,
         NEW written, Chain(st.at, written), written \ {Nothing} \subseteq Effects(c, st),
         ballot.needs = 1 => Approved \in written,
         IF ballot.needs = 1 THEN Give(ballot.power) ELSE sets' = Sooner(sets),
         ballot' = [ballot EXCEPT !.needs = @ - 1],
         UNCHANGED <<phase, taken, up, cut>>, NEW e, e = AfterVote(l, c, st)
  PROVE  Facts(e)'
<1>1. PICK p : p = AfterPerhaps(l, c, {st.at}, Effects(c, st))
  OBVIOUS
<1>2. Chained(p)'
  <2>1. Chained(c) /\ st.at \in {st.at}
    BY DEF Facts, Chained
  <2>2. Chained(AfterPerhaps(l, c, {st.at}, Effects(c, st)))'
    BY <2>1, PerhapsBlock
  <2> QED
    BY <1>1, <2>2
<1>3. VoteIs(l, c, st, p, e)
  BY <1>1, VoteShape
<1>4. Chained(e)'
  BY <1>2, <1>3 DEF Chained, Placed, Known, Ordered, Nearby, Reached, VoteIs
<1>5. ballot.key = c.about /\ ballot.power = c.next /\ Linked(c) = Connected
  BY LinkedIs DEF Facts, Polled
<1>6. ballot \in Ballot(script) /\ ballot.needs \in Nat /\ c.next \in PowersIn(script)
  BY <1>5 DEF Kinds, PowerKinds, Ballot
<1>7. ballot'.needs = ballot.needs - 1 /\ ballot'.key = c.about /\ ballot'.power = c.next
  BY <1>5, <1>6 DEF Ballot
<1>8. l \in Nat /\ Last(sets).in \in Int /\ lag' \in [Node -> Nat]
  BY ChainIs, LastIs, ScriptIs DEF Kinds
<1>9. sets' = Sooner(sets) \/ (ballot.needs = 1 /\ Give(c.next) /\ c.next # Same)
  BY <1>5 DEF Give
<1>10. ASSUME sets' = Sooner(sets) PROVE Risen(e)' /\ Settling(e)' /\ Empowered(e)'
  <2>1. Last(sets').power = Last(sets).power /\ Risen(c)' /\ Settling(c)' /\ Empowered(c)'
    BY <1>10, BlockSettles DEF Facts
  <2>2. Risen(e)' /\ Empowered(e)'
    BY <1>3, <2>1 DEF Risen, Empowered, VoteIs
  <2>3. Settling(e)'
    <3>1. CASE c.next = Same
      BY <1>3, <2>1, <3>1 DEF Settling, VoteIs
    <3>2. CASE c.next # Same
      <4>1. ASSUME NEW x \in e.soon PROVE x \in Node \X Nat /\ Last(sets').in + lag'[x[1]] <= x[2]
        <5>1. \A nb \in c.soon : nb \in Node \X Nat /\ Last(sets').in + lag'[nb[1]] <= nb[2]
          BY <2>1 DEF Settling
        <5>2. PICK nb \in c.soon : x = <<nb[1], Max({nb[2], 2 + l})>>
          BY <1>3, <3>2, <4>1 DEF VoteIs
        <5>4. x \in Node \X Nat /\ x[1] = nb[1] /\ nb[2] <= x[2]
          BY <1>8, <5>1, <5>2, LaterSoon
        <5>3. lag'[nb[1]] \in Nat /\ nb[2] \in Nat /\ x[2] \in Nat /\ Last(sets').in \in Int
          <6>1. sets \in Seq([in : Int, power : PowersIn(script)]) /\ Len(sets) > 0 /\ Horizon \in Nat \ {0}
            BY ChainIs DEF Kinds, PowerKinds, Change
          <6>2. Last(sets').in = IF Last(sets).in - 1 >= -Horizon THEN Last(sets).in - 1 ELSE -Horizon
            BY <1>10, <6>1, SoonerIs
          <6> QED
            BY <1>8, <5>1, <5>4, <6>1, <6>2
        <5> QED
          BY <5>1, <5>3, <5>4
      <4> QED
        BY <4>1 DEF Settling
    <3> QED
      BY <3>1, <3>2
  <2> QED
    BY <2>2, <2>3
<1>11. ASSUME ballot.needs = 1 /\ Give(c.next) /\ c.next # Same
       PROVE  Risen(e)' /\ Settling(e)' /\ Empowered(e)'
  <2>1. /\ Last(sets').power = c.next /\ Last(sets').in = 2
        /\ \A n \in Connected : n \in Node /\ Last(sets').in + lag'[n] <= 2 + Lag[phase]
    BY <1>6, <1>11, GiveSettles
  <2>2. Risen(e)' /\ Empowered(e)'
    BY <1>3, <1>11, <2>1 DEF Risen, Empowered, VoteIs
  <2>3. ASSUME NEW x \in e.soon PROVE x \in Node \X Nat /\ Last(sets').in + lag'[x[1]] <= x[2]
    <3>1. \A nb \in c.soon : nb \in Node \X Nat
      BY DEF Facts, Settling
    <3>2. PICK nb \in c.soon : nb[1] \in Linked(c) /\ x = <<nb[1], Max({nb[2], 2 + l})>>
      BY <1>3, <1>11, <2>3 DEF VoteIs
    <3>3. nb[1] \in Connected /\ x \in Node \X Nat /\ x[1] = nb[1] /\ 2 + l <= x[2]
      BY <1>5, <1>8, <3>1, <3>2, LaterSoon
    <3>4. 2 + lag'[x[1]] <= 2 + l /\ lag'[x[1]] \in Nat /\ x[2] \in Nat
      BY <1>8, <2>1, <3>3
    <3> QED
      BY <1>8, <2>1, <3>3, <3>4
  <2>4. Settling(e)'
    BY <2>3 DEF Settling
  <2> QED
    BY <2>2, <2>4
<1>12. CASE ballot.needs # 1
  <2>1. ballot'.needs # 0
    BY <1>6, <1>7, <1>12
  <2>2. Polled(e)'
    BY <1>3, <1>7, <2>1 DEF Polled, VoteIs
  <2> QED
    BY <1>4, <1>9, <1>10, <1>11, <2>2 DEF Facts, Chained
<1>13. CASE ballot.needs = 1
  <2>1. Approved \in DOMAIN age /\ Approved \in written \ {Nothing} /\ DOMAIN age' = DOMAIN age
    BY <1>13, ApprovedIs, ChainIs DEF Kinds, Approved, Nothing
  <2>2. /\ age'[Approved] = 0 /\ Knows(st.at, Approved)'
        /\ l = 0 => \A n \in Connected : Knows(n, Approved)'
    BY <2>1, BlockSees DEF Kinds
  <2>3. \A k \in DOMAIN age' : age'[Approved] <= age'[k]
    <3>1. \A k \in DOMAIN age' : age'[k] \in Nat
      BY ChainIs DEF Kinds
    <3> QED
      BY <2>2, <3>1
  <2>4. c.next # Same => Last(sets').power = c.next
    <3>1. ASSUME c.next # Same PROVE Last(sets').power = c.next
      <4>1. Give(c.next)
        BY <1>5, <1>13
      <4> QED
        BY <1>6, <3>1, <4>1, GiveSettles
    <3> QED
      BY <3>1
  <2>5. ASSUME NEW S \in e.told PROVE \E n \in S \cap Node : Knows(n, Approved)'
    <3>1. Connected \subseteq Node /\ st.at \in Node
      BY DEF Connected, Kinds, NetKinds
    <3>2. IF l = 0 THEN \E n \in Connected : n \in S ELSE st.at \in S
      BY <1>3, <1>5 DEF VoteIs
    <3> QED
      BY <2>2, <3>1, <3>2
  <2>6. Polled(e)'
    BY <1>3, <1>7, <2>3, <2>4, <2>5 DEF Polled, VoteIs
  <2> QED
    BY <1>4, <1>9, <1>10, <1>11, <2>6 DEF Facts, Chained
<1> QED
  BY <1>12, <1>13

\* Who is asked before a vote has the ballot decided if it is.
LEMMA CastVoteInv == ASSUME SInv, CastVote PROVE SInv'
<1>1. status = "running" /\ step.op = "vote" /\ Kinds /\ Kinds'
  BY CastKinds DEF CastVote, Doing, SInv
<1>2. begun = FALSE /\ sent = {}
  BY <1>1, PlainHere
<1>3. PICK c, l, st, e : c = Here /\ l = Lag[phase] /\ st = step /\ e = AfterVote(l, c, st)
  OBVIOUS
<1>4. Facts(c) /\ DOMAIN c = Fields /\ Sound(c, st) /\ Connected = Linked(c)
  BY <1>1, <1>2, <1>3, StepIs
<1>5. There = e
  <2>1. There = After(l, c, st)
    BY <1>1, <1>3, CourseIs DEF Kinds
  <2> QED
    BY <1>1, <1>3, <2>1 DEF After
<1>6. /\ st.at \in Connected
      /\ \/ SeenApproved(st.readers) /\ Continue
         \/ /\ ~SeenApproved(st.asked)
            /\ IF ~Knows(st.at, st.who) \/ ballot.needs = 0 THEN Leave("alarm")
               ELSE /\ IF ballot.needs = 1 THEN Decide
                       ELSE Chain(st.at, {st.who}) /\ sets' = Sooner(sets)
                    /\ ballot' = [ballot EXCEPT !.needs = @ - 1]
                    /\ Advance
                    /\ UNCHANGED <<taken, up, cut>>
  BY <1>3 DEF CastVote
<1>7. CASE Continue
  <2>1. Facts(e)
    BY <1>1, <1>3, <1>4, NoVote
  <2> QED
    BY <1>1, <1>5, <1>7, <2>1, ContinueInv
<1>8. CASE ~Continue
  <2>1. Has(c, st.who, {st.at}) /\ \E S \in c.told : S \subseteq st.asked \cap Linked(c)
    BY <1>1, <1>3, <1>4 DEF Sound
  <2>2. Knows(st.at, st.who)
    <3>1. \E n \in {st.at} \cap Node : Knows(n, st.who)
      BY <1>4, <2>1, KnowsIs DEF Facts
    <3> QED
      BY <3>1
  <2>3. ballot.needs # 0
    <3>1. SUFFICES ASSUME ballot.needs = 0 PROVE SeenApproved(st.asked)
      BY <1>6, <1>8
    <3>2. PICK S \in c.told : S \subseteq st.asked \cap Linked(c)
      BY <2>1
    <3>3. \E n \in S \cap Node : Knows(n, Approved)
      BY <1>4, <3>1, <3>2 DEF Facts, Polled
    <3> QED
      BY <1>4, <3>1, <3>2, <3>3 DEF SeenApproved
  <2>4. /\ IF ballot.needs = 1 THEN Decide ELSE Chain(st.at, {st.who}) /\ sets' = Sooner(sets)
        /\ ballot' = [ballot EXCEPT !.needs = @ - 1]
        /\ Advance /\ UNCHANGED <<taken, up, cut>>
    BY <1>6, <1>8, <2>2, <2>3
  <2>5. phase' = phase /\ c.told # {} /\ ballot.key = c.about
    BY <1>4, <2>1, <2>4 DEF Advance, NextStep, Facts, Polled
  <2>6. Facts(e)'
    <3>1. CASE ballot.needs = 1
      <4>1. Chain(st.at, {st.who, Approved, ballot.key}) /\ Give(ballot.power)
        BY <1>3, <2>4, <3>1 DEF Decide
      <4>2. {st.who, Approved, ballot.key} \ {Nothing} \subseteq Effects(c, st) /\ Approved \in {st.who, Approved, ballot.key}
        BY <2>5 DEF Effects
      <4> QED
        BY <1>1, <1>3, <1>4, <1>6, <2>3, <2>4, <2>5, <3>1, <4>1, <4>2, VoteFacts
    <3>2. CASE ballot.needs # 1
      <4>1. Chain(st.at, {st.who}) /\ sets' = Sooner(sets)
        BY <2>4, <3>2
      <4>2. {st.who} \ {Nothing} \subseteq Effects(c, st)
        BY DEF Effects
      <4> QED
        BY <1>1, <1>3, <1>4, <1>6, <2>3, <2>4, <2>5, <3>2, <4>1, <4>2, VoteFacts
    <3> QED
      BY <3>1, <3>2
  <2> QED
    BY <1>1, <1>5, <2>4, <2>6, TurnInv
<1> QED
  BY <1>7, <1>8

\* Refused transactions, compared hashes and the wait for the indexer.
LEMMA QuietSteps == ASSUME SInv, Refuse \/ CompareHashes \/ AwaitIndexed PROVE SInv'
<1>1. status = "running" /\ step.op \in Quiet /\ Continue
  BY DEF Refuse, CompareHashes, AwaitIndexed, Doing, Await, Quiet
<1> QED
  BY <1>1, QuietInv

\* What the nodes and the indexer do by themselves.
LEMMA NetInv == ASSUME SInv, NetStep PROVE SInv'
<1>1. Kinds /\ Kinds'
  BY EmptyBlockKinds, IndexKinds, CatchUpKinds DEF NetStep, SInv
<1>2. UNCHANGED <<phase, pc, status, begun, sent, hollow, taken>>
  BY DEF NetStep, EmptyBlock, Index, CatchUp, runVars
<1>3. ASSUME NEW c, Facts(c) PROVE Facts(c)'
  <2>1. CASE EmptyBlock
    <3>1. PICK n \in Connected : Block(n, {})
      BY <2>1 DEF EmptyBlock
    <3>2. UNCHANGED <<phase, taken, up, cut>>
      BY <2>1 DEF EmptyBlock
    <3> QED
      BY <1>1, <1>3, <3>1, <3>2, EmptyBlockFacts
  <2>2. CASE Index
    BY <1>3, <2>2, StillFacts DEF Index, runVars
  <2>3. CASE \E n \in Node : CatchUp(n)
    BY <1>1, <1>3, <2>3, CatchUpFacts
  <2> QED
    BY <2>1, <2>2, <2>3 DEF NetStep
<1>4. step' = step /\ script' = script /\ Now' = Now
  BY <1>2 DEF step, script, Now, Here, There
<1>5. status \in {"running", "ok"} => Shown'
  BY <1>3, <1>4 DEF SInv, Shown
<1>6. RunsWell'
  BY <1>2, <1>4 DEF SInv, RunsWell
<1> QED
  BY <1>1, <1>2, <1>5, <1>6 DEF SInv

\* Every step keeps the invariant.
LEMMA SKept == ASSUME SInv, [Next]_vars PROVE SInv'
<1>1. CASE SendTx \/ SendOver \/ SkipTopUp \/ ElectValidators \/ ProposeVote \/ CastVote \/ AwaitApproved
  BY <1>1, SendTxInv, SendOverInv, SkipInv, ElectInv, ProposeInv, CastVoteInv, ApprovedInv
<1>2. CASE ReadOne \/ ReadAllNodes \/ ReadAnyNode \/ CountValidators \/ NoProgress
  BY <1>2, ReadInv, PowersInv
<1>3. CASE PickNode \/ AwaitOne \/ AgreeAll \/ ReachMark
  BY <1>3, WaitInv, ReachInv
<1>4. CASE Refuse \/ CompareHashes \/ AwaitIndexed
  BY <1>4, QuietSteps
<1>5. CASE Snapshot \/ MarkHeight \/ StopNodes \/ CutOff \/ Rejoin \/ TakeAway \/ GiveBack
  BY <1>5, SnapshotInv, MarkInv, NodesInv
<1>6. CASE Settled \/ StartNodes \/ Restart
  <2>1. begun = TRUE \/ begun = FALSE
    BY DEF SInv, Kinds, RunKinds
  <2>2. Settled => begun = TRUE
    BY DEF Settled, SInv, Kinds, RunKinds
  <2> QED
    BY <1>6, <2>1, <2>2, SecondInv, FirstInv
<1>7. CASE GiveUp \/ NetStep
  BY <1>7, GiveUpInv, NetInv
<1>8. CASE UNCHANGED vars
  <2>1. Kinds'
    BY <1>8, KindsKept DEF SInv
  <2>2. UNCHANGED <<phase, pc, status, begun, sent, hollow, due, taken, up, cut, lag, age, ballot, sets>>
    BY <1>8 DEF vars, runVars, chainVars
  <2>3. step' = step /\ script' = script /\ Now' = Now
    BY <2>2 DEF step, script, Now, Here, There
  <2>4. ASSUME NEW c, Facts(c) PROVE Facts(c)'
    BY <2>2, <2>4, StillFacts
  <2>5. status \in {"running", "ok"} => Shown'
    BY <2>3, <2>4 DEF SInv, Shown
  <2>6. RunsWell'
    BY <2>2, <2>3 DEF SInv, RunsWell
  <2> QED
    BY <2>1, <2>2, <2>5, <2>6 DEF SInv
<1> QED
  BY <1>1, <1>2, <1>3, <1>4, <1>5, <1>6, <1>7, <1>8 DEF Next, RunStep

\* It holds where a phase begins.
LEMMA SBegin == ASSUME Init PROVE SInv
<1>1. /\ phase \in DOMAIN Script
      /\ pc = 1 /\ status = "running" /\ begun = FALSE /\ sent = {} /\ hollow = FALSE
      /\ due = 0 /\ taken = {}
      /\ up = Node /\ cut = {}
      /\ lag = [n \in Node |-> 0]
      /\ age = [k \in Keys(script.steps) |-> 1]
      /\ sets = << [in |-> -1, power |-> script.powers] >>
  BY DEF Init
<1>2. Kinds
  BY KindsBegin
<1>3. PICK c, s : c = Now /\ s = script
  OBVIOUS
<1>4. c = Outset(s)
  BY <1>1, <1>3, CourseAssumption DEF Now, Here, IsCourse, script
<1>5. Facts(c)
  <2>1. /\ c.held = {} /\ c.down = {} /\ c.far = {} /\ c.near = Node /\ c.reach = Keys(s.steps)
        /\ c.older = Keys(s.steps) \X Keys(s.steps)
        /\ c.told = {} /\ c.powers = {s.powers} /\ c.soon = Node \X {1} /\ c.rise = {}
        /\ c.knows = [k \in Keys(s.steps) |-> {{n} : n \in Node}]
    BY <1>4 DEF Outset
  <2>2. DOMAIN age = Keys(s.steps) /\ \A k \in DOMAIN age : age[k] = 1
    BY <1>1, <1>3
  <2>3. \A n \in Node : lag[n] = 0
    BY <1>1
  <2>4. Last(sets).in = -1 /\ Last(sets).power = s.powers
    BY <1>1, <1>3 DEF Last
  <2>5. Lag[phase] \in Nat
    BY <1>2, ScriptIs DEF Kinds
  <2>6. Placed(c)
    BY <1>1, <2>1 DEF Placed
  <2>7. Known(c)
    <3>1. ASSUME NEW k \in DOMAIN age, NEW S \in c.knows[k] PROVE \E n \in S \cap Node : Knows(n, k)
      <4>1. PICK n \in Node : S = {n}
        BY <2>1, <2>2, <3>1
      <4> QED
        BY <2>2, <2>3, <4>1 DEF Knows
    <3> QED
      BY <2>1, <2>2, <3>1 DEF Known
  <2>8. Ordered(c) /\ Nearby(c) /\ Reached(c)
    BY <1>1, <2>1, <2>2, <2>3, <2>5 DEF Ordered, Nearby, Reached
  <2>9. Risen(c) /\ Settling(c) /\ Empowered(c) /\ Polled(c)
    BY <2>1, <2>3, <2>4 DEF Risen, Settling, Empowered, Polled
  <2> QED
    BY <2>6, <2>7, <2>8, <2>9 DEF Facts
<1>6. Shown
  BY <1>3, <1>5 DEF Shown
<1>7. RunsWell
  BY <1>1 DEF RunsWell
<1> QED
  BY <1>2, <1>6, <1>7 DEF SInv

\* In every state of every phase, what the course says of that place holds and no
\* check has failed: the inductive invariant of the safety theorems.
THEOREM CourseHolds == Spec => []SInv
<1>1. Init => SInv
  BY SBegin
<1>2. SInv /\ [Next]_vars => SInv'
  BY SKept
<1> QED
  BY <1>1, <1>2, PTL DEF Spec

\* No check of a phase fails on nodes that do what they should, however they lag
\* behind one another: no read, count or comparison of the suite is premature.
THEOREM NoCheckFails == Spec => []NoFalseAlarm
<1>1. SInv => NoFalseAlarm
  BY DEF SInv, RunsWell, NoFalseAlarm
<1> QED
  BY <1>1, CourseHolds, PTL

\* No step passes without what it tests having been there to test.
THEOREM NoPassIsHollow == Spec => []NoHollowPass
<1>1. SInv => NoHollowPass
  BY DEF SInv, RunsWell, NoHollowPass
<1> QED
  BY <1>1, CourseHolds, PTL

\* A phase, however it ends, puts back what it took, and one that passes leaves every
\* node running and connected.
THEOREM AllIsPutBack == Spec => []LeftAsFound
<1>1. SInv => LeftAsFound
  <2>1. SUFFICES ASSUME SInv PROVE LeftAsFound
    OBVIOUS
  <2>2. ASSUME status = "ok" PROVE Connected = Node
    <3>1. PICK c : c = Now
      OBVIOUS
    <3>2. Facts(c) /\ c = There /\ pc = Len(script.steps)
      BY <2>1, <2>2, <3>1 DEF SInv, Shown, RunsWell, Now
    <3>3. c.down = {} /\ c.far = {}
      BY <2>1, <3>2, CourseIs DEF SInv, Kinds
    <3> QED
      BY <3>2, <3>3 DEF Facts, Placed, Connected
  <2> QED
    BY <2>1, <2>2 DEF SInv, RunsWell, LeftAsFound
<1> QED
  BY <1>1, CourseHolds, PTL
================================================================================
