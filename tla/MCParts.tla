----------------------------------- MODULE MCParts -----------------------------------
(* Small instances of the parts for TLC.                                            *)
EXTENDS Parts

Request(kind, key, tag, index) == [kind |-> kind, store |-> "a", key |-> key, tag |-> tag, index |-> index]
MCRequests ==
    {Request("delete", 1, Nil, Nil), Request("clear", Nil, Nil, Nil), Request("find", Nil, "x", "i"),
     Request("add", 1, "x", Nil), Request("put", 2, "x", Nil), Request("put", 1, Nil, Nil)}

MCCountries == [ch |-> [continent |-> "Europe", providers |-> <<"free", "paid">>]]
MCAuthMethods == {[type |-> "sms", secret |-> 1], [type |-> "iban", secret |-> 2]}

MCCycles == {[device |-> "d1", by |-> "task"], [device |-> "d1", by |-> "user"], [device |-> "d2", by |-> "task"]}
MCItems == {[kind |-> "proposal", id |-> 1], [kind |-> "withdrawalGroup", id |-> 2]}

MCPriority == [t1 |-> 4, t2 |-> 1, u1 |-> 1]

Coin(pub, value, fee, exchange) == [pub |-> pub, value |-> value, fee |-> fee, exchange |-> exchange]
MCPurse ==
    {Coin(1, 1, 2, "a"), Coin(2, 1, 1, "b"), Coin(3, 2, 1, "a"),
     Coin(4, 2, 0, "b"), Coin(5, 3, 2, "c"), Coin(6, 4, 1, "a")}
MCWireFees == [a |-> 1, b |-> 3, c |-> 2]
MCTerms == [amount : {1, 3, 5}, depositFeeLimit : {0, 1, 3}, wireFeeLimit : {0, 2}, wireFeeAmortization : {1, 2}]

Content(type, truth, share) == [type |-> type, truth |-> truth, share |-> share]
MCTruthContents == {Content("sms", 1, 1), Content("sms", 1, 2), Content("sms", 2, 1)}

KeyRange(lower, upper, lowerOpen, upperOpen) ==
    [lower |-> lower, upper |-> upper, lowerOpen |-> lowerOpen, upperOpen |-> upperOpen]
MCRanges == {KeyRange(NoKey, NoKey, TRUE, TRUE), KeyRange(2, NoKey, FALSE, TRUE),
             KeyRange(NoKey, 1, TRUE, FALSE), KeyRange(1, 2, TRUE, FALSE)}
=============================================================================
