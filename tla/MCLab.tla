------------------------------- MODULE MCLab -------------------------------
EXTENDS Lab

Bar(o, h, l, c) == [o |-> o, h |-> h, l |-> l, c |-> c]
From(slot, n) == [i \in 1..n |-> slot + i - 1]

\* The Kronos book: closes of the earlier quarters, of the bars of five minutes
\* and of the days.
Around(closes) == [i \in DOMAIN closes |-> Bar(closes[i], closes[i] + 1, closes[i] - 1, closes[i])]
Flat(closes) == [i \in DOMAIN closes |-> Bar(closes[i], closes[i], closes[i], closes[i])]
History(quarters, fives, days) ==
    [quarters |-> quarters, fives |-> Flat(fives), days |-> Around(days)]
BookPasts == {
    History(Around(<<0, 20, 20, 18, 17, 16, 15, 9>>), <<0, 20, 20, 20, 20, 9, 9, 9>>, <<5, 5, 5, 5>>),
    History(Around(<<0, 20, 20, 20, 20>>) \o <<Bar(20, 20, 15, 15), Bar(16, 16, 16, 16), Bar(9, 9, 8, 8)>>,
            <<2, 9, 9, 9, 8, 6, 6, 6>>, <<9, 5, 1, 1>>),
    History(<<Bar(5, 6, 4, 5), Bar(5, 6, 4, 5), Bar(5, 6, 4, 5), Bar(5, 9, 4, 8), Bar(8, 9, 8, 9), Bar(9, 9, 3, 4),
              Bar(5, 8, 2, 7), Bar(5, 7, 5, 5)>>, <<5, 5, 5, 5, 5, 5, 5, 5>>, <<9, 5, 1, 1>>)}

\* The replays: earlier quarters and bars of five minutes, and swings that rise or fall.
ReplayPasts == {
    [quarters |-> <<Bar(8, 10, 6, 8), Bar(8, 18, 4, 12), Bar(12, 14, 6, 8), Bar(8, 12, 2, 6), Bar(6, 10, 6, 10)>>,
     fives |-> Flat(<<8, 8, 8, 8>>)],
    [quarters |-> <<Bar(4, 6, 4, 6), Bar(8, 12, 8, 12), Bar(14, 16, 14, 16), Bar(12, 14, 2, 6), Bar(6, 10, 6, 10)>>,
     fives |-> Flat(<<8, 8, 8, 8>>)]}
Zigzag(dir) == [i \in 1..7 |-> LET p == dir * (i + 3 * (i % 2)) IN Bar(p, p + 1, p - 1, p)]

\* The bars of every study, the half hours they may open in, and the bars of the
\* higher time frame before them.
Set == [
    inverse |-> [times |-> {From(8, 7)}, pasts |-> {<<>>},
        shapes |-> {Bar(2, 2, 1, 1), Bar(5, 5, 3, 3), Bar(5, 7, 5, 6), Bar(4, 4, 0, 0), Bar(4, 7, 4, 7)}],
    sweep |-> [times |-> {From(14, 5), From(19, 5)},
        pasts |-> {<<Bar(0, 5, -3, 2), Bar(1, 4, -2, 3)>>, <<Bar(8, 11, 3, 6), Bar(7, 10, 4, 5)>>},
        shapes |-> {Bar(1, 2, 1, 2), Bar(3, 8, 3, 4), Bar(2, 3, 0, 2),
                    Bar(7, 7, 6, 6), Bar(5, 5, 0, 4), Bar(6, 8, 5, 6)}],
    ote |-> [times |-> {From(14, 5), From(26, 5)},
        pasts |-> {<<Bar(3, 4, 1, 3), Bar(4, 7, 3, 6)>>, <<Bar(5, 8, 5, 7), Bar(5, 6, 2, 3)>>},
        shapes |-> {Bar(4, 5, 3, 5), Bar(2, 9, 2, 9), Bar(6, 6, 4, 4), Bar(2, 5, 0, 1)}],
    breaker |-> [times |-> {From(14, 6)}, pasts |-> {<<>>},
        shapes |-> {Bar(4, 5, 4, 5), Bar(5, 5, 4, 4), Bar(5, 5, 0, 0), Bar(1, 8, 1, 8),
                    Bar(6, 8, 5, 7), Bar(3, 4, 1, 2)}],
    news |-> [times |-> {<<26, 27, 28, 31, 32, 33>>}, pasts |-> {<<>>},
        shapes |-> {Bar(4, 5, 4, 4), Bar(5, 9, 4, 6), Bar(4, 5, 1, 3), Bar(6, 7, 3, 4)}],
    asia |-> [times |-> {<<11, 14, 15, 59, 62, 63, 64>>, <<11, 14, 15, 16, 20, 22, 23>>},
        pasts |-> {<<>>},
        shapes |-> {Bar(4, 6, 3, 5), Bar(3, 4, 2, 2), Bar(6, 8, 5, 7), Bar(5, 6, 0, 2)}],
    book |-> [times |-> {From(40, 9), From(44, 9)}, pasts |-> BookPasts,
        shapes |-> {Bar(6, 6, 1, 1), Bar(4, 9, 4, 8)}],
    var1 |-> [times |-> {From(14, 8)}, pasts |-> {<<>>},
        shapes |-> {Bar(4, 6, 3, 5), Bar(5, 5, 1, 2), Bar(3, 8, 2, 4)}],
    var2 |-> [times |-> {From(14, 6)}, pasts |-> ReplayPasts,
        shapes |-> {Bar(8, 12, 6, 10), Bar(10, 20, 8, 12), Bar(6, 8, 0, 4)}],
    micro |-> [times |-> {<<28, 29, 30, 31, 62, 63, 64, 65>>},
        pasts |-> {[fives |-> Flat(<<4, 4>>)], [fives |-> Flat(<<9, 9>>)]},
        shapes |-> {Bar(4, 5, 2, 3), Bar(3, 7, 3, 6), Bar(5, 6, 0, 4)}],
    ict |-> [times |-> {From(14, 5)}, pasts |-> {[fours |-> Zigzag(s), ones |-> Zigzag(t)] : s, t \in {1, -1}},
        shapes |-> {Bar(4, 5, 4, 5), Bar(5, 8, 4, 8), Bar(4, 4, 0, 1), Bar(7, 9, 7, 9)}],
    tuned |-> [times |-> {From(15, 5)}, pasts |-> {Flat(<<5, 4, 3>>)},
        shapes |-> {Bar(4, 6, 3, 5) @@ [v |-> 2], Bar(5, 5, 1, 2) @@ [v |-> 1], Bar(3, 8, 2, 7) @@ [v |-> 4]}],
    crypto |-> [times |-> {<<24, 25, 27, 72, 73, 75>>, <<0, 336, 672, 1010, 1296, 1300>>},
        pasts |-> {<<>>}, shapes |-> {Bar(4, 5, 3, 4), Bar(4, 12, 4, 11), Bar(5, 13, 4, 10), Bar(4, 5, -4, -3)}],
    breakout |-> [times |-> {From(0, 8)},
        pasts |-> {Around(<<3, 2, 3, 3, 4>>), Around(<<5, 5, 5, 4, 4, 5>>), Around(<<3, 3>>)},
        shapes |-> {Bar(4, 6, 4, 6), Bar(4, 5, 4, 4), Bar(4, 4, 1, 1)}],
    data |-> [times |-> {<<9>>, <<22>>, <<55>>, <<107>>}, pasts |-> {<<>>},
        shapes |-> [gap : {0, 1, 2, 20}, p : {1, 2}]],
    reports |-> [times |-> {<<14, 15, 62, 85, 110>>}, pasts |-> {<<>>},
        shapes |-> {[r |-> 2, outcome |-> "TP", equal |-> TRUE], [r |-> -1, outcome |-> "SL", equal |-> FALSE],
                    [r |-> -3, outcome |-> "SL", equal |-> TRUE], [r |-> 1, outcome |-> "TIME", equal |-> FALSE],
                    [r |-> 0, outcome |-> "OPEN", equal |-> FALSE]}],
    events |-> [times |-> {<<>>}, pasts |-> {<<>>}, shapes |-> {}],
    macro |-> [times |-> {<<1, 2, 3, 4, 5>>}, pasts |-> {<<1, 3, 2>>}, shapes |-> {[c |-> 1], [c |-> 2], [c |-> 3]}],
    sigma |-> [times |-> {From(14, 6)}, pasts |-> {<<>>},
        shapes |-> {Bar(4, 5, 4, 4), Bar(4, 6, 4, 5), Bar(4, 9, 3, 8), Bar(8, 8, 0, 1)}]
]
\* The engines: a rise, a fall, a bar that spans every level, and a gap.
EngineShapes == {Bar(4, 6, 4, 5), Bar(5, 5, 2, 3), Bar(4, 8, 1, 4), Bar(2, 4, 2, 4)}
Found(side, entry, sl, tp, cancel, type) ==
    [side |-> side, entry |-> entry, sl |-> sl, tp |-> tp, cancel |-> cancel, type |-> type]
MCSetups == {Found(1, 4, 2, 7, 4, "market"), Found(1, 3, 2, 6, 3, "limit"),
             Found(-1, 5, 6, 2, 5, "limit")}

MCShapes == [s \in DOMAIN Set \cup EngineStudies |->
    IF s \in EngineStudies THEN EngineShapes ELSE Set[s].shapes]
MCLength == [s \in DOMAIN Set \cup EngineStudies |->
    CASE s \in DOMAIN Set \ {"data"} -> Len(CHOOSE t \in Set[s].times : TRUE)
      [] s = "data" -> 4
      [] OTHER -> 5]
MCTimes == [s \in DOMAIN Set |-> Set[s].times]
MCPasts == [s \in DOMAIN Set |-> Set[s].pasts]
MCPeriod == [fast |-> 3, slow |-> 5, anchor |-> 3, slope |-> 1, slack |-> 2,
             atr |-> 4, stoch |-> 2, band |-> 3]
Base(side, entry) == [side |-> side, entry |-> entry, risk |-> 2, reward |-> 3]
MCBases == {<<Base(1, 2), Base(1, 3), Base(1, 4)>>, <<Base(-1, 3), Base(1, 4), Base(-1, 4)>>, <<Base(1, 3), Base(-1, 5)>>}
MCConf == [lookback |-> 2, fvg |-> 2, sweep |-> 2, width |-> 3]
MCTrend == [channel |-> 2, fast |-> 1, slow |-> 3, atr |-> 2, mult |-> 3]
MCSpan == [is |-> [first |-> 1, last |-> 1], oos |-> [first |-> 2, last |-> 3]]
MCFiles == [is |-> [first |-> 0, last |-> 2], oos |-> [first |-> 1, last |-> 5]]
MCGate == [trades |-> 2, few |-> 1, wins |-> 60, wilson |-> 30, earned |-> 20]
MCIct == [lookback |-> 1, gap |-> 1, displacement |-> 2, recent |-> 4, buffer |-> 1, minRR |-> 2]
Rules == [lookback |-> 1, count |-> 2, equal |-> 0, wick |-> 10, buffer |-> 1, fixed |-> 3, range |-> 4,
          cooldown |-> 1, equalOnly |-> FALSE, window |-> 6]
MCScalp == [var1 |-> [Rules EXCEPT !.cooldown = 2],
            var2 |-> [Rules EXCEPT !.buffer = 2, !.fixed = 6, !.range = 12],
            micro |-> Rules]
MCMicro == [range |-> 2, volatility |-> 2, mean |-> 3, far |-> 3]
MCReplay == [entryWindow |-> 1, poolOnly |-> FALSE, warmup |-> 4, lossLimit |-> -3, profitTarget |-> 3]
MCProbes == {-9, -8, -7, 0, 8, 9}
MCCoin == [z |-> 3, channel |-> 3, atr |-> 2, fast |-> 1, slow |-> 5, er |-> 2, weeks |-> 2, strength |-> 5]
MCShuts == {{}, 44..46}
MCEvents == {{28}, {29, 30}, {27, 31}}
=============================================================================
