----------------------------- MODULE MCMwebSync -----------------------------
(* A chain g, a1, a2, a3 and a fork b2, b3 above a1.  m1 is spent in a3 and  *)
(* in b3; m2 is mined on both branches at different leaves; m4 is mined in   *)
(* a2, at the leaf that m2 takes in b2, and spent in a3; x stands for other  *)
(* outputs.                                                                  *)
EXTENDS MwebSync

CONSTANTS g, a1, a2, a3, b2, b3, m1, m2, m3, m4, x

MCBlocks == {g, a1, a2, a3, b2, b3}
MCOutputId == {m1, m2, m3, m4}

MCChain ==
  [b \in MCBlocks |-> CASE b = g -> <<g>>
                        [] b = a1 -> <<g, a1>>
                        [] b = a2 -> <<g, a1, a2>>
                        [] b = a3 -> <<g, a1, a2, a3>>
                        [] b = b2 -> <<g, a1, b2>>
                        [] b = b3 -> <<g, a1, b2, b3>>]

MCOutputs ==
  [b \in MCBlocks |-> CASE b = g -> << >>
                        [] b = a1 -> <<m1, x>>
                        [] b = a2 -> <<m1, x, m4, m2>>
                        [] b = a3 -> <<m1, x, m4, m2, x>>
                        [] b = b2 -> <<m1, x, m2>>
                        [] b = b3 -> <<m1, x, m2, m3>>]

MCUnspent ==
  [b \in MCBlocks |-> CASE b = g -> {}
                        [] b = a1 -> {0, 1}
                        [] b = a2 -> {0, 2, 3}
                        [] b = a3 -> {3, 4}
                        [] b = b2 -> {0, 1, 2}
                        [] b = b3 -> {1, 2, 3}]

MCForks == {<<a2, b2>>, <<a2, b3>>, <<a3, b3>>, <<b2, a2>>, <<b2, a3>>, <<b3, a3>>, <<a3, a1>>}

Growing == [forks |-> {}, provider |-> "live", known |-> {{}}, fail |-> TRUE,
            withhold |-> FALSE, window |-> 1, moves |-> 3]
Reliable == [Growing EXCEPT !.fail = FALSE]
Fixed == [Growing EXCEPT !.provider = "set_tip"]
Renewed == [Growing EXCEPT !.provider = "renewed", !.known = {{}, {1}}, !.moves = 2]
Withheld == [Reliable EXCEPT !.withhold = TRUE]
Resumed == [Withheld EXCEPT !.fail = TRUE, !.moves = 1]
Reorgs == [Reliable EXCEPT !.forks = MCForks, !.provider = "renewed",
                           !.known = {{}, {1}, {1, 2}}, !.window = 3, !.moves = 4]
Narrow == [Reorgs EXCEPT !.window = 1]
Reasked == [Narrow EXCEPT !.withhold = TRUE, !.known = {{}}, !.moves = 2]
MCSetups == {Growing, Reliable, Fixed, Renewed, Withheld, Resumed, Reorgs, Narrow, Reasked}

ASSUME ReorgsAreCalm
=============================================================================
