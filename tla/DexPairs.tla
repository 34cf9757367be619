-------------------------------- MODULE DexPairs --------------------------------
(***************************************************************************)
(* The pair contract of the DEX workload (workloads/dex_mixed/             *)
(* con_pairs.py) and the tokens it trades (token_fixture.py).  All pairs   *)
(* share one contract account: a deposit is a plain token transfer to that *)
(* account, and a later call of any user (sync2) credits it to a pair by   *)
(* comparing the account's token balance with the amount already known.    *)
(*                                                                         *)
(* A contract function is an operator from a state to the set of its       *)
(* outcomes, which is empty when an assertion fails: the transaction then  *)
(* rolls back.  A transaction is one step.  Amounts are whole numbers of   *)
(* the unit MINIMUM_LIQUIDITY; division and square root round down.        *)
(***************************************************************************)
EXTENDS Integers, FiniteSetsExt

CONSTANTS
    Token,           \* token contracts, in the order of their names; 0 is none
    MaxPairs,        \* bound on the number of pairs
    Account,         \* signers
    Owner,           \* the signer that deployed the contract, and its feeTo
    Dex,             \* the account of con_pairs
    Router,          \* the account of con_dex
    Dead,            \* "DEAD", holder of the first MINIMUM_LIQUIDITY
    MaximumBalance,  \* MAXIMUM_BALANCE
    Supply,          \* token units each account starts with
    Deposit,         \* amounts of tokens that transactions name
    Output,          \* amounts that swaps ask for
    ShareAmount,     \* amounts of shares that transactions name
    ShareAllowance   \* allowances of shares

ASSUME TokenAssumption == Token \subseteq Nat \ {0}
ASSUME HolderAssumption ==
    /\ IsFiniteSet(Account) /\ Owner \in Account
    /\ Cardinality({Dex, Router, Dead}) = 3
    /\ {Dex, Router, Dead} \cap Account = {}
ASSUME AmountAssumption ==
    /\ Supply \in Nat /\ MaximumBalance \in Nat /\ MaxPairs \in Nat
    /\ Deposit \cup Output \cup ShareAmount \cup ShareAllowance \subseteq Nat

VARIABLE st  \* the storage of con_pairs and of the tokens

Pair == 1..MaxPairs
Side == {0, 1}
Sides(x, y) == [i \in Side |-> IF i = 0 THEN x ELSE y]
Holder == Account \cup {Dex, Router, Dead}

\* no share is locked
MinimumLiquidityFaulty == 0

MinimumLiquidity == 1

\* the keys of `pairs` that belong to one pair; a Hash answers 0 by default
EmptyPair ==
    [token |-> [i \in Side |-> 0], reserve |-> [i \in Side |-> 0],
     balance |-> [i \in Side |-> 0], totalSupply |-> 0, kLast |-> 0,
     lp |-> [h \in Holder |-> 0], allowance |-> [h \in Holder \X Holder |-> 0]]

InitState ==
    [num    |-> 0,                                    \* pairs_num
     pairs  |-> [p \in Pair |-> EmptyPair],
     feeOn  |-> TRUE,                                 \* feeTo # False
     synced |-> [t \in Token |-> 0],                  \* balances
     bal    |-> [t \in Token |-> [h \in Holder |-> IF h \in Account THEN Supply ELSE 0]],
     appr   |-> [t \in Token |-> [h \in Holder \X Holder |-> 0]]]

\* the outcomes of a call made in each of the given states
Then(outcomes, call(_)) == UNION {call(s) : s \in outcomes}

--------------------------------------------------------------------------------
(* token_fixture.py                                                          *)

Move(f, a, b, n) == LET g == [f EXCEPT ![a] = @ - n] IN [g EXCEPT ![b] = @ + n]

Transfer(s, t, from, to, n) ==
    IF n > 0 /\ s.bal[t][from] >= n
    THEN {[s EXCEPT !.bal[t] = Move(@, from, to, n)]}
    ELSE {}

Approve(s, t, holder, spender, n) == {[s EXCEPT !.appr[t][<<holder, spender>>] = n]}

TransferFrom(s, t, spender, holder, to, n) ==
    IF s.appr[t][<<holder, spender>>] >= n
    THEN Transfer([s EXCEPT !.appr[t][<<holder, spender>>] = @ - n], t, holder, to, n)
    ELSE {}

--------------------------------------------------------------------------------
(* con_pairs.py                                                              *)

PairOf(s, t, u) == {p \in 1..s.num : s.pairs[p].token = Sides(t, u)}

CreatePair(s, t, u) ==
    IF t < u /\ PairOf(s, t, u) = {} /\ s.num + 1 \in Pair
    THEN {[s EXCEPT !.num = @ + 1,
                    !.pairs[s.num + 1].token = Sides(t, u)]}
    ELSE {}

\* Operators named ...Faulty are the operator they precede with one plausible
\* mistake; no specification uses them.  They show that a property notices it.

\* without the comparison with the holder's balance
LiqTransferFaulty(s, p, from, to, n) ==
    IF n > 0 THEN {[s EXCEPT !.pairs[p].lp = Move(@, from, to, n)]} ELSE {}

LiqTransfer(s, p, from, to, n) ==
    IF n > 0 /\ s.pairs[p].lp[from] >= n
    THEN {[s EXCEPT !.pairs[p].lp = Move(@, from, to, n)]}
    ELSE {}

LiqApprove(s, p, holder, spender, n) ==
    IF n > 0 THEN {[s EXCEPT !.pairs[p].allowance[<<holder, spender>>] = n]} ELSE {}

LiqTransferFrom(s, p, spender, holder, to, n) ==
    IF s.pairs[p].allowance[<<holder, spender>>] >= n
    THEN LiqTransfer([s EXCEPT !.pairs[p].allowance[<<holder, spender>>] = @ - n],
                     p, holder, to, n)
    ELSE {}

\* the deposit goes to the pair without being counted as known
Sync2Faulty(s, p) ==
    LET pr == s.pairs[p]
        inc == [i \in Side |-> s.bal[pr.token[i]][Dex] - s.synced[pr.token[i]]]
    IN  IF p <= s.num /\ \A i \in Side : inc[i] >= 0 /\ pr.balance[i] + inc[i] <= MaximumBalance
        THEN {[s EXCEPT !.pairs[p].balance = [i \in Side |-> @[i] + inc[i]]]}
        ELSE {}

\* credits to pair p whatever reached the account since the last sync
Sync2(s, p) ==
    LET pr == s.pairs[p]
        inc == [i \in Side |-> s.bal[pr.token[i]][Dex] - s.synced[pr.token[i]]]
    IN  IF p <= s.num /\ \A i \in Side : inc[i] >= 0 /\ pr.balance[i] + inc[i] <= MaximumBalance
        THEN {[s EXCEPT !.pairs[p].balance = [i \in Side |-> @[i] + inc[i]],
                        !.synced = [t \in Token |->
                            IF \E i \in Side : pr.token[i] = t THEN s.bal[t][Dex] ELSE @[t]]]}
        ELSE {}

\* the internal sync: the account's balance becomes known, no pair gets it
Sync(s, p) ==
    [s EXCEPT !.synced = [t \in Token |->
        IF \E i \in Side : s.pairs[p].token[i] = t THEN s.bal[t][Dex] ELSE @[t]]]

\* both reserves become balance0
UpdateFaulty(s, p) ==
    IF \A i \in Side : s.pairs[p].balance[i] <= MaximumBalance
    THEN {[s EXCEPT !.pairs[p].reserve = [i \in Side |-> s.pairs[p].balance[0]]]}
    ELSE {}

\* internal_update: the reserves become the balances
Update(s, p) ==
    IF \A i \in Side : s.pairs[p].balance[i] <= MaximumBalance
    THEN {[s EXCEPT !.pairs[p].reserve = s.pairs[p].balance]}
    ELSE {}

\* the supply is not counted up
InternalMintFaulty(pr, to, n) == [pr EXCEPT !.lp[to] = @ + n]

InternalMint(pr, to, n) == [pr EXCEPT !.totalSupply = @ + n, !.lp[to] = @ + n]

Root(n) == CHOOSE r \in 0..n : r * r <= n /\ (r + 1) * (r + 1) > n

Product(f) == f[0] * f[1]

\* internal_mintFee: a sixth of the growth of the root of k since kLast
MintFee(s, p) ==
    LET pr == s.pairs[p]
        rootK == Root(Product(pr.reserve))
        rootKLast == Root(pr.kLast)
        fee == (pr.totalSupply * (rootK - rootKLast)) \div (rootK * 5 + rootKLast)
    IN  CASE s.feeOn /\ pr.kLast # 0 /\ rootK > rootKLast -> InternalMint(pr, Owner, fee)
          [] ~s.feeOn -> [pr EXCEPT !.kLast = 0]
          [] OTHER -> pr

\* kLast keeps the value of the first mint
SetKLastFaulty(s, p) ==
    IF s.feeOn /\ s.pairs[p].kLast = 0
    THEN [s EXCEPT !.pairs[p].kLast = Product(s.pairs[p].balance)]
    ELSE s

\* kLast = balance0 * balance1, read back after the update
SetKLast(s, p) ==
    IF s.feeOn THEN [s EXCEPT !.pairs[p].kLast = Product(s.pairs[p].balance)] ELSE s

\* the larger of the two ratios
SharesFaulty(pr, surplus) ==
    IF pr.totalSupply = 0
    THEN IF Product(surplus) >= 0 THEN Root(Product(surplus)) - MinimumLiquidity ELSE 0
    ELSE IF \E i \in Side : pr.reserve[i] = 0 THEN 0
    ELSE Max({(surplus[i] * pr.totalSupply) \div pr.reserve[i] : i \in Side})

\* the shares that the surplus of pair p is worth; none before any reserve
Shares(pr, surplus) ==
    IF pr.totalSupply = 0
    THEN IF Product(surplus) >= 0 THEN Root(Product(surplus)) - MinimumLiquidity ELSE 0
    ELSE IF \E i \in Side : pr.reserve[i] = 0 THEN 0
    ELSE Min({(surplus[i] * pr.totalSupply) \div pr.reserve[i] : i \in Side})

Mint(s, p, to) ==
    LET pr == MintFee(s, p)
        surplus == [i \in Side |-> pr.balance[i] - pr.reserve[i]]
        liquidity == Shares(pr, surplus)
        seeded == IF pr.totalSupply = 0 THEN InternalMint(pr, Dead, MinimumLiquidity) ELSE pr
        minted == [s EXCEPT !.pairs[p] = InternalMint(seeded, to, liquidity)]
    IN  IF liquidity > 0
        THEN {SetKLast(Sync(r, p), p) : r \in Update(minted, p)}
        ELSE {}

\* the payment is not taken off the pair's balance
PayOutFaulty(s, p, i, to, n) ==
    IF n <= MaximumBalance /\ s.pairs[p].balance[i] >= n
    THEN Transfer(s, s.pairs[p].token[i], Dex, to, n)
    ELSE {}

\* safeTransferFromPair: pays n of side i to an account
PayOut(s, p, i, to, n) ==
    LET t == s.pairs[p].token[i]
    IN  IF n <= MaximumBalance /\ s.pairs[p].balance[i] >= n
        THEN {[r EXCEPT !.pairs[p].balance[i] = @ + r.bal[t][Dex] - s.bal[t][Dex]] :
                  r \in Transfer(s, t, Dex, to, n)}
        ELSE {}

\* safeTransferFromPairToPair: the account keeps the tokens
PayPair(s, p, i, to, n) ==
    LET t == s.pairs[p].token[i]
        r == [s EXCEPT !.pairs[p].balance[i] = @ - n]
        side == {j \in Side : s.pairs[to].token[j] = t}
    IN  IF n <= MaximumBalance /\ s.pairs[p].balance[i] >= n
        THEN {[r EXCEPT !.pairs[to].balance[j] = @ + n] : j \in side}
        ELSE {}

\* the shares burned are those sent to the contract's own account
Burn(s, p, to) ==
    LET pr == MintFee(s, p)
        liquidity == pr.lp[Dex]
        amount == [i \in Side |-> IF pr.totalSupply = 0 THEN 0
                                  ELSE (liquidity * pr.balance[i]) \div pr.totalSupply]
        burnt == [s EXCEPT !.pairs[p] =
                     [pr EXCEPT !.totalSupply = @ - liquidity, !.lp[Dex] = @ - liquidity]]
        paid == Then(PayOut(burnt, p, 0, to, amount[0]),
                     LAMBDA half : PayOut(half, p, 1, to, amount[1]))
    IN  IF \A i \in Side : amount[i] > 0
        THEN {SetKLast(Sync(r, p), p) : r \in Then(paid, LAMBDA x : Update(x, p))}
        ELSE {}

\* what came in: the balance exceeds the reserve less what goes out
Incoming(reserve, balance, out) ==
    [i \in Side |-> Max({0, balance[i] - (reserve[i] - out[i])})]

\* 3 per mille of what came in are set aside
Adjusted(balance, in) == [i \in Side |-> 1000 * balance[i] - 3 * in[i]]

\* something came in, and what is left keeps the product
Settle(s, paid, p, out) ==
    LET reserve == s.pairs[p].reserve
        balance == paid.pairs[p].balance
        in == Incoming(reserve, balance, out)
    IN  IF /\ \E i \in Side : in[i] > 0
           /\ Product(Adjusted(balance, in)) >= 1000000 * Product(reserve)
        THEN Update(paid, p)
        ELSE {}

Payable(s, p, out) ==
    /\ \E i \in Side : out[i] > 0
    /\ \A i \in Side : out[i] < s.pairs[p].reserve[i]

Swap(s, p, out, to) ==
    LET pay(r, i) == IF out[i] > 0 THEN PayOut(r, p, i, to, out[i]) ELSE {r}
        paid == Then(pay(s, 0), LAMBDA half : pay(half, 1))
    IN  IF Payable(s, p, out)
        THEN {Sync(r, p) : r \in Then(paid, LAMBDA x : Settle(s, x, p, out))}
        ELSE {}

\* no sync: the tokens stay in the account
SwapToPair(s, p, out, to) ==
    LET pay(r, i) == IF out[i] > 0 THEN PayPair(r, p, i, to, out[i]) ELSE {r}
        paid == Then(pay(s, 0), LAMBDA half : pay(half, 1))
    IN  IF Payable(s, p, out)
        THEN Then(paid, LAMBDA x : Settle(s, x, p, out))
        ELSE {}

EnableFee(s, caller, en) == IF caller = Owner THEN {[s EXCEPT !.feeOn = en]} ELSE {}

--------------------------------------------------------------------------------
(* Transactions.                                                             *)

Init == st = InitState

\* one transaction, unless it fails and is rolled back
Execute(outcomes) == st' \in outcomes

\* a token transfer, to another account or as a deposit
SendTokens(u) ==
    \E t \in Token, to \in Account \cup {Dex}, n \in Deposit : Execute(Transfer(st, t, u, to, n))

ListPair == \E t, v \in Token : Execute(CreatePair(st, t, v))

SyncPair == \E p \in Pair : Execute(Sync2(st, p))

MintShares(u) == \E p \in Pair : Execute(Mint(st, p, u))

BurnShares(u) == \E p \in Pair : Execute(Burn(st, p, u))

SwapOut(u) ==
    \E p \in Pair, x, y \in Output \cup {0} : Execute(Swap(st, p, Sides(x, y), u))

SwapAcross ==
    \E p, q \in Pair, x, y \in Output \cup {0} : Execute(SwapToPair(st, p, Sides(x, y), q))

SendShares(u) ==
    \E p \in Pair, to \in Account \cup {Dex}, n \in ShareAmount : Execute(LiqTransfer(st, p, u, to, n))

ApproveShares(u) ==
    \E p \in Pair, v \in Account, n \in ShareAllowance : Execute(LiqApprove(st, p, u, v, n))

SpendShares(u) ==
    \E p \in Pair, v \in Account, n \in ShareAmount : Execute(LiqTransferFrom(st, p, u, v, Dex, n))

SwitchFee(u) == \E en \in BOOLEAN : en # st.feeOn /\ Execute(EnableFee(st, u, en))

Next ==
    \/ \E u \in Account :
           \/ SendTokens(u) \/ MintShares(u) \/ BurnShares(u) \/ SwapOut(u)
           \/ SendShares(u) \/ ApproveShares(u) \/ SpendShares(u) \/ SwitchFee(u)
    \/ ListPair \/ SyncPair \/ SwapAcross

Spec == Init /\ [][Next]_st

--------------------------------------------------------------------------------
(* Properties.                                                               *)

PairRecord ==
    [token : [Side -> Token \cup {0}], reserve : [Side -> Nat], balance : [Side -> Nat],
     totalSupply : Nat, kLast : Nat, lp : [Holder -> Nat],
     allowance : [Holder \X Holder -> Nat]]

\* Types: in particular no amount ever goes below zero.
TypeOK ==
       st \in [num : Nat, pairs : [Pair -> PairRecord], feeOn : BOOLEAN,
               synced : [Token -> Nat], bal : [Token -> [Holder -> Nat]],
               appr : [Token -> [Holder \X Holder -> Nat]]]

\* what the pairs hold of token t together
PooledOf(t) ==
    SumFunctionOnSet([pi \in Pair \X Side |-> st.pairs[pi[1]].balance[pi[2]]],
                     {pi \in Pair \X Side : st.pairs[pi[1]].token[pi[2]] = t})

\* The contract owns every token its pairs believe to hold, although they share
\* one account and deposits, credits and payments come in any order.
Solvent == \A t \in Token : PooledOf(t) <= st.synced[t] /\ st.synced[t] <= st.bal[t][Dex]

\* A reserve never exceeds the balance it was taken from: getSurplus, from which
\* mint and swap compute the input, is never negative.
ReservesCovered == \A p \in Pair, i \in Side : st.pairs[p].reserve[i] <= st.pairs[p].balance[i]

\* Every share in circulation is held by someone: the fee, the first locked
\* share and burning keep totalSupply and the holders' balances together.
SharesAddUp ==
    \A p \in Pair : st.pairs[p].totalSupply = SumFunction(st.pairs[p].lp)

\* A pair that was once seeded can be neither emptied nor left without shares,
\* however it is traded and burned: the divisions by a reserve and by
\* totalSupply stay defined.
StaysSeeded ==
    [][\A p \in Pair :
          st.pairs[p].totalSupply > 0 =>
              /\ st'.pairs[p].totalSupply > 0
              /\ \A i \in Side : st'.pairs[p].reserve[i] > 0]_st

\* the product below which the fee may not push the value of a share
Floor(pr, feeOn) ==
    IF feeOn /\ pr.kLast # 0 THEN Min({pr.kLast, Product(pr.reserve)}) ELSE Product(pr.reserve)

\* Shares never lose value: with k the product of the reserves, k / totalSupply^2
\* falls in no transaction, except that the fee may take back growth since kLast.
ShareValueKept ==
    [][\A p \in Pair :
          LET old == st.pairs[p]
              new == st'.pairs[p]
          IN  old.totalSupply > 0 =>
                  Floor(old, st.feeOn) * new.totalSupply * new.totalSupply
                      <= Product(new.reserve) * old.totalSupply * old.totalSupply]_st

\* The growth the fee has been taken on is not charged again: the value of a
\* share at kLast, where the next fee starts to count, never falls.
GrowthKept ==
    [][\A p \in Pair :
          LET old == st.pairs[p]
              new == st'.pairs[p]
          IN  old.kLast # 0 /\ new.kLast # 0 =>
                  old.kLast * new.totalSupply * new.totalSupply
                      <= new.kLast * old.totalSupply * old.totalSupply]_st
================================================================================
