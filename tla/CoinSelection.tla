--------------------------------- MODULE CoinSelection --------------------------------
(* util/coinSelection.ts: which coins pay a contract, with the deposit fee of every coin     *)
(* and the wire fee of every exchange, of which the merchant takes a part; and the          *)
(* repair of a selection when the exchange refused one of its coins                      *)
(* (handleInsufficientFunds). Amounts are natural numbers; Amounts.sub stops at zero.      *)
LOCAL INSTANCE Naturals
LOCAL INSTANCE Sequences
LOCAL INSTANCE FiniteSets
LOCAL INSTANCE SequencesExt
LOCAL INSTANCE FiniteSetsExt
LOCAL INSTANCE TLC

CONSTANTS
    Purse,          \* all coins: [pub, value, fee, exchange]
    WireFees,       \* exchange |-> its wire fee
    ContractTerms,  \* [amount, depositFeeLimit, wireFeeLimit, wireFeeAmortization]
    NoSelection

VARIABLES
    payment     \* [coins, terms, broken, selection]: selection, a sequence of [coin, contribution]

Sub(a, b) == IF a < b THEN 0 ELSE a - b
Lesser(a, b) == IF a < b THEN a ELSE b
Greater(a, b) == IF a < b THEN b ELSE a

(* tallyFees                                                                       *)
TallyFees(terms, tally, coin) ==
    LET covered == coin.exchange \in tally.covered
        wf == IF covered THEN 0 ELSE WireFees[coin.exchange]
        wfForgiven == Lesser(tally.wireLimit, wf)
        wfAmortized == (wf - wfForgiven) \div terms.wireFeeAmortization
        wfRemaining == Sub(wfAmortized, tally.depositLimit)
        depositLimit == Sub(tally.depositLimit, wfAmortized)
        dfRemaining == Sub(coin.fee, depositLimit)
    IN [tally EXCEPT !.remaining = @ + wfRemaining + dfRemaining,
                     !.wireLimit = @ - wfForgiven,
                     !.depositLimit = Sub(depositLimit, coin.fee),
                     !.covered = @ \cup {coin.exchange}]

Spend(tally, coin, contribution) ==
    [tally EXCEPT !.remaining = Sub(@, contribution),
                  !.chosen = Append(@, [coin |-> coin, contribution |-> contribution])]

TallyOf(terms) == [remaining |-> terms.amount, wireLimit |-> terms.wireFeeLimit, depositLimit |-> terms.depositFeeLimit,
                   covered |-> {}, chosen |-> <<>>]

Candidates(coins) ==
    SortSeq(SetToSeq(coins), LAMBDA a, b : \/ a.value > b.value
                                           \/ a.value = b.value /\ a.fee < b.fee
                                           \/ a.value = b.value /\ a.fee = b.fee /\ a.pub < b.pub)

(* Mutant: the fee of a coin is left out when it is decided what it contributes.          *)
ContributeFirst(terms, tally, coin) ==
    Spend(TallyFees(terms, tally, coin), coin, Lesser(tally.remaining, coin.value))

(* The next coin pays what is left, with its own fees, but never less than its fee.        *)
Contribute(terms, tally, coin) ==
    LET next == TallyFees(terms, tally, coin)
    IN Spend(next, coin, Greater(Lesser(next.remaining, coin.value), coin.fee))

(* selectPayCoins, with the coins of a selection to be repaired in front                  *)
SelectPayCoins(terms, coins, previous) ==
    LET before == FoldLeft(LAMBDA t, p : Spend(TallyFees(terms, t, p.coin), p.coin, p.contribution), TallyOf(terms), previous)
        passed(t, c) == c.fee > c.value \/ t.remaining = 0 \/ c \in {previous[i].coin : i \in DOMAIN previous}
        tally == FoldLeft(LAMBDA t, c : IF passed(t, c) THEN t ELSE Contribute(terms, t, c), before, Candidates(coins))
    IN IF coins # {} /\ tally.remaining = 0 THEN tally.chosen ELSE NoSelection

-----------------------------------------------------------------------------
Pay(coins, terms) ==
    /\ payment.terms = NoSelection
    /\ payment' = [coins |-> coins, terms |-> terms, broken |-> {}, selection |-> SelectPayCoins(terms, coins, <<>>)]

(* handleInsufficientFunds: the other coins of the selection stay in it with what they        *)
(* contribute; they and the broken coin have been spent, and are not candidates. Without      *)
(* enough other coins nothing changes.                                               *)
HandleInsufficientFunds(coin) ==
    /\ payment.selection # NoSelection
    /\ \E i \in DOMAIN payment.selection : payment.selection[i].coin = coin
    /\ LET kept == SelectSeq(payment.selection, LAMBDA p : p.coin # coin)
           left == (payment.coins \ payment.broken) \ {payment.selection[i].coin : i \in DOMAIN payment.selection}
           again == SelectPayCoins(payment.terms, left, kept)
       IN payment' = IF again = NoSelection THEN payment ELSE [payment EXCEPT !.broken = @ \cup {coin}, !.selection = again]

SelectionIdle == payment = [coins |-> {}, terms |-> NoSelection, broken |-> {}, selection |-> NoSelection]

SelectionNext ==
    \/ \E coins \in SUBSET Purse, terms \in ContractTerms : Pay(coins, terms)
    \/ \E coin \in payment.coins : HandleInsufficientFunds(coin)

-----------------------------------------------------------------------------
(* The merchant's side: the sum of the contributions has to be at least the amount and the    *)
(* fees that exceed the merchant's limits, summed over all coins and exchanges.          *)
SumOver(f(_), S) == FoldSet(LAMBDA x, sum : f(x) + sum, 0, S)
Needed(terms, coins) ==
    LET wire == SumOver(LAMBDA e : WireFees[e], {c.exchange : c \in coins})
        deposit == SumOver(LAMBDA c : c.fee, coins)
    IN terms.amount + Sub((Sub(wire, terms.wireFeeLimit) \div terms.wireFeeAmortization) + deposit, terms.depositFeeLimit)

(* A selection, also a repaired one, pays enough for the merchant (up to the rounding of the  *)
(* amortized wire fee of each further exchange), from different coins that are not broken,   *)
(* each with at most its value and at least its fee; and none is found only if all usable    *)
(* coins together do not pay either.                                                *)
SelectionPays ==
    payment.terms # NoSelection =>
        LET terms == payment.terms
            usable == {c \in payment.coins \ payment.broken : c.fee <= c.value}
            chosen == payment.selection
            coins == {chosen[i].coin : i \in DOMAIN chosen}
        IN IF chosen = NoSelection
           THEN SumOver(LAMBDA c : c.value, usable) < Needed(terms, usable)
           ELSE /\ Cardinality(coins) = Len(chosen) /\ coins \cap payment.broken = {}
                /\ \A i \in DOMAIN chosen : chosen[i].contribution \in chosen[i].coin.fee .. chosen[i].coin.value
                /\ SumOver(LAMBDA i : chosen[i].contribution, DOMAIN chosen)
                     + Cardinality({c.exchange : c \in coins}) - 1 >= Needed(terms, coins)
=============================================================================
