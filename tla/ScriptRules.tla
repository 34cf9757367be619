------------------------------- MODULE ScriptRules -------------------------------
(***************************************************************************)
(* What is known of the nodes before each step of a phase, as far as it    *)
(* can be read off the steps alone, and the rules that a step has to keep  *)
(* for its checks to hold.  Everything has a place in the chain: a node the *)
(* last block it has executed, a key the block that wrote it last, the     *)
(* height that is remembered, new powers the block they decide on first.   *)
(* What is known is which of these are not before which.                   *)
(***************************************************************************)
EXTENDS ScriptedNet

CONSTANT Course    \* by phase: what is known before each of its steps and after the last

\* what a phase and its steps are made of
IsStep(st) ==
    /\ st.op = "settle" => st.advance \in Nat
    /\ st.op \in {"mark", "marker", "due", "restart"} => st.more \in Nat
    /\ st.op = "marker" => st.at \in Node
    /\ st.op \in {"due", "propose"} => "key" \in DOMAIN st
    /\ st.op \in {"start", "partition"} => st.nodes \subseteq Node
    /\ st.op = "propose" => st.votes \in Nat
IsPhase(s) ==
    /\ Len(s.steps) \in Nat \ {0} /\ DOMAIN s.steps = 1..Len(s.steps)
    /\ \A i \in DOMAIN s.steps : IsStep(s.steps[i])
    /\ s.revived \subseteq Node

ASSUME ScriptAssumption == \A p \in DOMAIN Script : IsPhase(Script[p])

--------------------------------------------------------------------------------
(* What is known, in a phase with steps s:                                   *)
(*   held       what is taken                                                *)
(*   down, far  the nodes that are stopped, those beyond a partition         *)
(*   knows      by key, sets of nodes: one of each of these knows the key    *)
(*   older      pairs of keys: the second was written no earlier than the first *)
(*   near       the nodes that lack no block that is older than the lag      *)
(*   reach      the keys that a node knows at the height remembered          *)
(*   told       sets of nodes: once the ballot is decided one of each knows it *)
(*   about, next  the key and the powers of that ballot                      *)
(*   powers     those that the powers given last may be                      *)
(*   soon       pairs <<n, b>>: b - 1 blocks after the last one of node n, or *)
(*              before, the powers given last decide                         *)
(*   rise       the same of the height remembered                            *)

Fields ==
    {"held", "down", "far", "knows", "older", "near", "reach", "told", "about", "next",
     "powers", "soon", "rise"}

Outset(s) ==
    [held |-> {}, down |-> {}, far |-> {},
     knows |-> [k \in Keys(s.steps) |-> {{n} : n \in Node}],
     older |-> Keys(s.steps) \X Keys(s.steps),
     near |-> Node,
     reach |-> Keys(s.steps),
     told |-> {}, about |-> Nothing, next |-> Same,
     powers |-> {s.powers}, soon |-> Node \X {1}, rise |-> {}]

Linked(c) == Node \ (c.down \cup c.far)
Alone(nodes) == {{n} : n \in nodes}

\* one of these nodes knows the key
Has(c, key, nodes) == key \in DOMAIN c.knows /\ \E S \in c.knows[key] : S \subseteq nodes
Had(c, nodes) == {k \in DOMAIN c.knows : Has(c, k, nodes)}
OlderThan(c, key) == {k \in DOMAIN c.knows : <<k, key>> \in c.older}

\* the nodes of which the healthy ones are taken
Asked(c, excluded) ==
    LET allowed == IF Linked(c) \ excluded = {} THEN Linked(c) ELSE Linked(c) \ excluded
    IN  IF allowed \ {Bds} = {} THEN allowed ELSE allowed \ {Bds}

\* each of these nodes knows these keys; is at the height remembered
Learns(c, keys, nodes) ==
    [c EXCEPT !.knows = [k \in DOMAIN @ |-> IF k \in keys THEN @[k] \cup Alone(nodes) ELSE @[k]]]
Arrives(c, nodes) == [Learns(c, c.reach, nodes) EXCEPT !.soon = @ \cup (nodes \X c.rise)]

\* The height of the first of some nodes is remembered, with some blocks added: as
\* many as a node may be behind make up for what none of them is known to have.
Remember(l, c, nodes, more) ==
    [c EXCEPT
        !.reach = IF more >= l /\ nodes \cap c.near # {} THEN DOMAIN c.knows ELSE Had(c, nodes),
        !.rise = {Max({0, nb[2] - more}) : nb \in {x \in c.soon : x[1] \in nodes}}]

\* Blocks in any order, each made by one of some nodes and writing some keys.
Posted(by, keys) == [by |-> by, keys |-> keys \ {Nothing}]
Written(blocks) == UNION {b.keys : b \in blocks}
Makers(blocks, key) == UNION {b.by : b \in {d \in blocks : key \in d.keys}}
AfterBlocks(l, c, blocks) ==
    [c EXCEPT
        !.knows = [k \in DOMAIN @ |->
            IF k \in Written(blocks)
            THEN {Makers(blocks, k)} \cup (IF l = 0 THEN Alone(Linked(c)) ELSE {})
            ELSE @[k] \cup {b.by : b \in blocks}
                      \cup (IF l <= 1 /\ blocks # {} THEN Alone(Linked(c)) ELSE {})],
        !.older = {kj \in (DOMAIN c.knows) \X (DOMAIN c.knows) :
            IF kj[1] \in Written(blocks) THEN \A b \in blocks : kj[1] \in b.keys => kj[2] \in b.keys
            ELSE kj[2] \in Written(blocks) \/ kj \in c.older},
        !.near = IF blocks = {} THEN @ ELSE Linked(c),
        !.reach = @ \ Written(blocks),
        !.told = {}]

\* A block that may be made or not, and may write some of the keys.
AfterPerhaps(l, c, by, keys) ==
    [c EXCEPT
        !.knows = [k \in DOMAIN @ |->
            IF k \in keys THEN {S \cup by : S \in @[k]} \cup (IF l = 0 THEN @[k] \cap Alone(Linked(c)) ELSE {})
            ELSE @[k]],
        !.older = {kj \in @ : kj[1] \in keys => kj[2] = kj[1]},
        !.near = @ \cap Linked(c),
        !.reach = @ \ keys,
        !.told = {}]

\* the transactions of a step that have their receipts
AfterTxs(l, c, txs) == AfterBlocks(l, c, {Posted({t.at}, {t.who, t.key}) : t \in txs})

\* New powers are given, or may be given.
Given(l, c, power) ==
    IF power = Same THEN c
    ELSE [c EXCEPT !.powers = {power}, !.soon = Linked(c) \X {2 + l}, !.rise = {}]
GivenPerhaps(l, c, power) ==
    IF power = Same THEN c
    ELSE [c EXCEPT !.powers = @ \cup {power},
                   !.soon = {<<nb[1], Max({nb[2], 2 + l})>> : nb \in {x \in @ : x[1] \in Linked(c)}},
                   !.rise = {}]

\* the nodes of which one takes the transaction
Takers(c, st) == Linked(c) \ (st.excluded \cup {Bds})

AfterProposal(l, c, st) ==
    [AfterTxs(l, c, {Tx(st.who, st.at, Nothing)}) EXCEPT !.told = {{}}, !.about = st.key, !.next = st.power]

\* A vote is cast or not, and the last one decides.
AfterVote(l, c, st) ==
    [GivenPerhaps(l, AfterPerhaps(l, c, {st.at}, {st.who, Approved, c.about}), c.next) EXCEPT
        !.told = {S \cup {n} : S \in c.told, n \in IF l = 0 THEN Linked(c) ELSE {st.at}}]

\* Whoever knows the decision knows all that was before it.
AfterApproval(c, st) ==
    IF c.told = {} THEN c
    ELSE [c EXCEPT !.knows = [k \in DOMAIN @ |-> @[k] \cup c.told \cup {st.readers \cap Linked(c)}],
                   !.powers = IF c.next = Same THEN @ ELSE {c.next}]

\* in the middle of a step in two halves
Midway(l, c, st) ==
    CASE st.op = "settle"  -> Remember(l, c, Linked(c), 0)
      [] st.op = "restart" -> Remember(l, [c EXCEPT !.down = {}], Node, st.more)
      [] st.op = "start"   -> [c EXCEPT !.down = @ \ st.nodes]
      [] OTHER -> c

\* after a step
After(l, c, st) ==
    CASE st.op = "send"  -> AfterTxs(l, c, st.txs)
      [] st.op = "over"  -> AfterBlocks(l, c, {Posted(Takers(c, st), {st.who, st.key})})
      [] st.op = "topup" -> AfterPerhaps(l, c, Takers(c, st), {st.who, st.key} \ {Nothing})
      [] st.op = "elect" -> Given(l, AfterTxs(l, c, {Tx(st.who, st.at, st.key)}), st.power)
      [] st.op = "propose"  -> AfterProposal(l, c, st)
      [] st.op = "vote"     -> AfterVote(l, c, st)
      [] st.op = "approved" -> AfterApproval(c, st)
      [] st.op = "agree" -> Learns(c, OlderThan(c, st.key), Node)
      [] st.op = "until" -> Learns(c, OlderThan(c, st.key), {st.at})
      [] st.op = "pick"  -> Learns(c, Had(c, Asked(c, st.excluded)), {st.at})
      [] st.op \in {"mark", "marker"} -> Remember(l, c, {st.at}, st.more)
      [] st.op = "due"   -> [c EXCEPT !.reach = OlderThan(c, st.key), !.rise = {}]
      [] st.op = "reach" -> Arrives(c, {st.at})
      [] st.op = "recover" -> Arrives(c, Node)
      [] st.op \in {"settle", "restart"} -> Arrives(Midway(l, c, st), Node)
      [] st.op = "start" -> Arrives(Midway(l, c, st), st.nodes)
      [] st.op = "stop"  -> [c EXCEPT !.down = @ \cup st.nodes]
      [] st.op = "partition" -> [c EXCEPT !.far = st.nodes, !.held = @ \cup {"partition"}]
      [] st.op = "heal"  -> [c EXCEPT !.far = {}, !.held = @ \ {"partition"}]
      [] st.op = "take"  -> [c EXCEPT !.held = @ \cup {st.what}]
      [] st.op = "putback" -> [c EXCEPT !.held = @ \ {st.what}]
      [] OTHER -> c

IsCourse(p) ==
    LET s == Script[p].steps
    IN  /\ DOMAIN Course[p] = 1..(Len(s) + 1)
        /\ Course[p][1] = Outset(Script[p])
        /\ \A i \in DOMAIN Course[p] : DOMAIN Course[p][i] = Fields
        /\ \A i \in DOMAIN s : Course[p][i + 1] = After(Lag[p], Course[p][i], s[i])

ASSUME CourseAssumption == \A p \in DOMAIN Script : IsCourse(p)

--------------------------------------------------------------------------------
(* The rules.                                                                *)

\* the powers given last decide on the next block of the node
Settles(c, nodes) == \E nb \in c.soon : nb[1] \in nodes /\ nb[2] <= 1
Many(powers) == Cardinality({v \in Node : powers[v] > 0})

\* A nonce and a value are known where they are read; a vote is sent after some of
\* those that are asked know whether the votes before have decided; powers are in
\* force when they are asked for.
Sound(c, st) ==
    CASE st.op = "send" -> \A t \in st.txs : /\ Has(c, t.who, {t.at})
                                             /\ \A u \in st.txs \ {t} : t.who \notin {u.who, u.key}
      [] st.op \in {"over", "topup"} -> Has(c, st.who, Asked(c, st.excluded))
      [] st.op \in {"propose", "elect"} -> Has(c, st.who, {st.at})
      [] st.op = "vote" -> Has(c, st.who, {st.at}) /\ \E S \in c.told : S \subseteq st.asked \cap Linked(c)
      [] st.op = "read" -> Has(c, st.key, {st.at})
      [] st.op = "readall" -> \A n \in Node : Has(c, st.key, {n})
      [] st.op = "readany" -> Has(c, st.key, Asked(c, st.excluded))
      [] st.op = "validators" -> Settles(c, {st.at}) /\ \A P \in c.powers : Many(P) = st.count
      [] st.op = "halted" -> Settles(c, Node) /\ \A P \in c.powers : ~(3 * Power(P, Linked(c)) > 2 * Power(P, Node))
      [] OTHER -> TRUE

Careful(p) == \A i \in DOMAIN Script[p].steps : Sound(Course[p][i], Script[p].steps[i])

\* What is taken when a phase ends is put back by its finally clauses, and nothing is
\* taken, stopped or cut off when it has passed.
Tidy(p) ==
    LET s == Script[p].steps
    IN  /\ \A i \in DOMAIN s : Course[p][i].held \subseteq Script[p].finally
        /\ LET c == Course[p][Len(s) + 1] IN c.held = {} /\ c.down = {} /\ c.far = {}

ASSUME RulesAssumption == \A p \in DOMAIN Script : Careful(p) /\ Tidy(p)
================================================================================
