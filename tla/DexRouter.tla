------------------------------- MODULE DexRouter -------------------------------
(***************************************************************************)
(* The router contract of the DEX workload (workloads/dex_mixed/           *)
(* con_dex.py).  Each of its functions calls the tokens and con_pairs      *)
(* several times in one transaction: it takes the caller's tokens by       *)
(* allowance, has con_pairs credit them to the pair, and mints, burns or   *)
(* swaps along a path of pairs.  One failed call undoes them all.          *)
(***************************************************************************)
EXTENDS DexPairs, Sequences

CONSTANTS
    Approval,  \* allowances that accounts give the router
    In,        \* amounts that callers offer
    Minimum,   \* least amounts that callers accept
    MaxHops    \* bound on the length of a path

ASSUME RouterAssumption ==
    Approval \cup In \cup Minimum \subseteq Nat /\ MaxHops \in Nat \ {0}

Path == UNION {[1..n -> Pair] : n \in 1..MaxHops}

\* the side of pair p that takes token t; any other token counts as side 1
SideOf(s, p, t) == IF t = s.pairs[p].token[0] THEN 0 ELSE 1

\* getAmountOut, 0 when one of its assertions fails
AmountOut(in, reserveIn, reserveOut) ==
    IF in > 0 /\ reserveIn > 0 /\ reserveOut > 0
    THEN (997 * in * reserveOut) \div (1000 * reserveIn + 997 * in)
    ELSE 0

\* getAmountsOut: what arrives after n hops, and in which token
Hops(s, in, src, path) ==
    LET hop[n \in 0..Len(path)] ==
            IF n = 0
            THEN [amount |-> in, token |-> src]
            ELSE LET pr == s.pairs[path[n]]
                     i  == SideOf(s, path[n], hop[n - 1].token)
                 IN  [amount |-> AmountOut(hop[n - 1].amount, pr.reserve[i], pr.reserve[1 - i]),
                      token  |-> pr.token[1 - i]]
    IN  hop

\* the two output arguments of hop n
Wanted(s, hops, path, n) ==
    IF SideOf(s, path[n], hops[n - 1].token) = 0
    THEN Sides(0, hops[n].amount)
    ELSE Sides(hops[n].amount, 0)

\* between two pairs the tokens move but the product is not settled
RouteFaulty(s, hops, path, to) ==
    LET last == Len(path)
        reached[n \in 0..(last - 1)] ==
            IF n = 0
            THEN {s}
            ELSE Then(reached[n - 1],
                      LAMBDA r : PayPair(r, path[n], 1 - SideOf(s, path[n], hops[n - 1].token),
                                         path[n + 1], hops[n].amount))
    IN  Then(reached[last - 1],
             LAMBDA r : Swap(r, path[last], Wanted(s, hops, path, last), to))

\* internal_swap: pair to pair, and from the last pair to the receiver
Route(s, hops, path, to) ==
    LET last == Len(path)
        reached[n \in 0..(last - 1)] ==
            IF n = 0
            THEN {s}
            ELSE Then(reached[n - 1],
                      LAMBDA r : SwapToPair(r, path[n], Wanted(s, hops, path, n), path[n + 1]))
    IN  Then(reached[last - 1],
             LAMBDA r : Swap(r, path[last], Wanted(s, hops, path, last), to))

\* the caller's tokens reach con_pairs, which credits them to pair p
Paid(s, u, p, src, in) ==
    Then(TransferFrom(s, src, Router, u, Dex, in), LAMBDA r : Sync2(r, p))

\* swapExactTokensForTokens; swapExactTokenForToken is the path of one pair
SwapExact(s, u, in, least, path, src, to) ==
    LET hops == Hops(s, in, src, path)
    IN  IF hops[Len(path)].amount >= least
        THEN Then(Paid(s, u, path[1], src, in), LAMBDA r : Route(r, hops, path, to))
        ELSE {}

\* the variants for tokens that take a fee: the whole surplus is the input
SwapSurplus(s, u, in, least, path, src, to) ==
    LET swapped(r) ==
            LET pr == r.pairs[path[1]]
                i == SideOf(r, path[1], src)
                hops == Hops(r, pr.balance[i] - pr.reserve[i], src, path)
            IN  IF hops[Len(path)].amount >= least THEN Route(r, hops, path, to) ELSE {}
    IN  Then(Paid(s, u, path[1], src, in), swapped)

\* internal_addLiquidity: the largest deposit within the offer that keeps the
\* ratio of the reserves, {} when it is below what the caller accepts
Balanced(pr, offer, least) ==
    LET quote(i) == (offer[i] * pr.reserve[1 - i]) \div pr.reserve[i]
    IN  IF \A i \in Side : pr.reserve[i] = 0 THEN {offer}
        ELSE IF \E i \in Side : pr.reserve[i] = 0 \/ offer[i] <= 0 THEN {}
        ELSE IF quote(0) <= offer[1] THEN {a \in {Sides(offer[0], quote(0))} : a[1] >= least[1]}
        ELSE {a \in {Sides(quote(1), offer[1])} : a[0] <= offer[0] /\ a[0] >= least[0]}

\* The token names are put in order, the amounts stay as the caller gave them.
AddLiquidity(s, u, t, v, offer, least, to) ==
    LET a == Min({t, v})
        b == Max({t, v})
        listed == IF PairOf(s, a, b) = {} THEN CreatePair(s, a, b) ELSE {s}
        take(r, n) == Then(TransferFrom(r, a, Router, u, Dex, n[0]),
                           LAMBDA half : TransferFrom(half, b, Router, u, Dex, n[1]))
        add(r, p, n) == Then(Then(take(r, n), LAMBDA x : Sync2(x, p)), LAMBDA x : Mint(x, p, to))
        addTo(r, p) == Then(Balanced(r.pairs[p], offer, least), LAMBDA n : add(r, p, n))
    IN  Then(listed, LAMBDA r : Then(PairOf(r, a, b), LAMBDA p : addTo(r, p)))

\* removeLiquidity: here the caller names the tokens in order
RemoveLiquidity(s, u, p, shares, least, to) ==
    LET tokens == s.pairs[p].token
        burnt == Then(Then(LiqTransferFrom(s, p, Router, u, Dex, shares),
                           LAMBDA x : Sync2(x, p)),
                      LAMBDA x : Burn(x, p, to))
    IN  {r \in burnt :
            \A i \in Side : r.bal[tokens[i]][to] - s.bal[tokens[i]][to] >= least[i]}

--------------------------------------------------------------------------------
(* Transactions.                                                             *)

ApproveRouter(u) ==
    \E t \in Token, n \in Approval : Execute(Approve(st, t, u, Router, n))

ApproveRouterShares(u) ==
    \E p \in Pair, n \in ShareAllowance : Execute(LiqApprove(st, p, u, Router, n))

AddLiquidityTx(u) ==
    \E t, v \in Token, x, y \in In, min \in Minimum :
        t # v /\ Execute(AddLiquidity(st, u, t, v, Sides(x, y), Sides(min, min), u))

RemoveLiquidityTx(u) ==
    \E p \in Pair, n \in ShareAmount, min \in Minimum :
        Execute(RemoveLiquidity(st, u, p, n, Sides(min, min), u))

SwapExactTx(u) ==
    \E path \in Path, src \in Token, in \in In, min \in Minimum :
        Execute(SwapExact(st, u, in, min, path, src, u))

SwapSurplusTx(u) ==
    \E path \in Path, src \in Token, in \in In, min \in Minimum :
        Execute(SwapSurplus(st, u, in, min, path, src, u))

RouterNext ==
    \E u \in Account :
        \/ ApproveRouter(u) \/ ApproveRouterShares(u) \/ SwitchFee(u)
        \/ AddLiquidityTx(u) \/ RemoveLiquidityTx(u) \/ SwapExactTx(u) \/ SwapSurplusTx(u)

\* everyone calls con_pairs; its shares stay where they are, for the run of DexPairs
\* moves them
DirectNext ==
    \/ \E u \in Account : SendTokens(u) \/ MintShares(u) \/ SwapOut(u) \/ SwitchFee(u)
    \/ ListPair \/ SyncPair \/ SwapAcross

\* whether everyone goes through the router
VARIABLE routed

DexSpec ==
    /\ Init /\ routed \in BOOLEAN
    /\ [][routed' = routed /\ IF routed THEN RouterNext ELSE DirectNext]_<<st, routed>>

--------------------------------------------------------------------------------
(* Properties.                                                               *)

\* Between two transactions nothing is left unclaimed when everyone goes
\* through the router: every token of the account belongs to a pair and is in
\* its reserve, and no share waits to be burned by whoever calls next.
NothingLeftOver == routed =>
    /\ \A t \in Token : PooledOf(t) = st.bal[t][Dex] /\ st.synced[t] = st.bal[t][Dex]
    /\ \A p \in Pair :
          st.pairs[p].reserve = st.pairs[p].balance /\ st.pairs[p].lp[Dex] = 0
================================================================================
