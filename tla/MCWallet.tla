------------------------------ MODULE MCWallet ------------------------------
(* One keychain with a wildcard and one without; three transactions, the     *)
(* third of which spends the first and comes with two witnesses.  They pay   *)
(* the addresses in an order that runs ahead of the lookahead.               *)
EXTENDS Wallet

MCSpk == ({"d1", "d2"} \X (0 .. 3)) \cup {<<"foreign", 0>>, <<"bridge", 0>>}
MCBridge == {<<"bridge", 0>>}
MCBlock == {<<1, "a">>}
MCDescriptorOf == [k \in {"ext", "int"} |-> IF k = "ext" THEN "d1" ELSE "d2"]

Pays(input, output, w) == [input |-> input, output |-> output, witness |-> <<w>>]
MCTxOf == << {Pays(<< <<4, 0>> >>, << <<"d1", 0>>, <<"bridge", 0>> >>, 1)},
             {Pays(<< <<4, 1>> >>, << <<"d1", 1>> >>, 1)},
             {Pays(<< <<1, 0>> >>, << <<"d1", 2>>, <<"d2", 0>> >>, w) : w \in {1, 2}} >>
MCBatches == {<<2, 1>>, <<3, 2>>}
MCFloating == {<< <<2, 0>>, <<"d1", 1>> >>}
MCUpdates ==
  {[txs |-> {<<t, tx>> : tx \in MCTxOf[t]}, txouts |-> MCFloating, anchors |-> {<< <<1, "a">>, 2>>},
    seen_ats |-> {<<t, 2>>}, evicted_ats |-> {<<1, 2>>}] : t \in {3}}
=============================================================================
