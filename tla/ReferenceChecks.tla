--------------------------- MODULE ReferenceChecks ---------------------------
(* The pure parts against reference definitions: calendar, candles,         *)
(* indicators and strategies, and here the ticker's frames, the drawdown    *)
(* and the walk-forward windows.  TLC evaluates the assumptions of every    *)
(* module a run extends.                                                    *)
EXTENDS CalendarChecks, StrategyChecks
LOCAL INSTANCE TickerFrame
LOCAL INSTANCE BacktestReport

\* Packets of every size that means something and of some that mean nothing,
\* from a stock, an index and a currency pair, and the frames made of them.
LOCAL Word(n) == <<n \div 16777216, (n \div 65536) % 256, (n \div 256) % 256, n % 256>>
LOCAL Packet(length, token, price) ==
  LET head == Word(token) \o Word(price)
  IN  head \o [i \in 1..(length - 8) |-> IF i % 4 = 0 THEN 7 ELSE 0]
LOCAL Packets == {Packet(length, 257, 1950) : length \in {8, 12, 28, 32, 44, 60, 184}}
                 \cup {Packet(28, 265, 100), Packet(44, 259, 123456789)}
LOCAL Framed(p) == <<Len(p) \div 256, Len(p) % 256>> \o p
LOCAL Frame(count, packets) == FoldLeft(LAMBDA f, p : f \o Framed(p), <<0, count>>, packets)
LOCAL Readable(packets) ==
  LET kept == SelectSeq(packets, LAMBDA p : ~Skipped(p)) IN [i \in DOMAIN kept |-> Decode(kept[i])]

\* A frame yields the packets that came whole, whatever it announces and
\* wherever it is cut, and nothing it was not sent (parseTickerFrame).
ASSUME CutFramesYieldWholePackets ==
  \A n \in 0..2 : \A packets \in [1..n -> Packets], count \in {0, n, n + 1} :
    LET frame == Frame(count, packets)
        sizes == {Len(Frame(count, SubSeq(packets, 1, k))) : k \in 0..n}
        arrived(cut) == Cardinality({s \in sizes : s <= cut}) - 1
    IN  \A cut \in UNION {{s - 1, s, s + 1, s + 9} : s \in sizes} \cap 2..Len(frame) :
          Parse(SubSeq(frame, 1, cut)) =
            IF count = 0 THEN <<>> ELSE Readable(SubSeq(packets, 1, arrived(cut)))

\* Prices and times come out of their places: paise by segment, the quantity
\* and the exchange's clock only where the mode carries them, the arrival time
\* otherwise, and no tick for a symbol nobody asked for (decodePacket, onBinary).
ASSUME FieldsAreInPlace ==
  LET tick(p) == Ticks(Frame(1, <<p>>), {257, 259, 265}, 99)
  IN  /\ tick(Packet(8, 257, 1950)) = <<[token |-> 257, price |-> 1950, quantity |-> 0, time |-> 99]>>
      /\ tick(Packet(44, 259, 123456789)) =
           <<[token |-> 259, price |-> 1235, quantity |-> 7, time |-> 99]>>
      /\ tick(Packet(184, 257, 5)) = <<[token |-> 257, price |-> 5, quantity |-> 7, time |-> 7]>>
      /\ tick(Packet(32, 265, 100)) = <<[token |-> 265, price |-> 100, quantity |-> 0, time |-> 7]>>
      /\ tick(Packet(44, 300, 100)) = <<>>
      /\ \A raw \in -250..250 : ToPaise(-raw, 100) = -ToPaise(raw, 100)
-----------------------------------------------------------------------------
\* The drawdown of the single pass is the deepest decline from any point to a
\* later one, its peak and trough are such a pair, it is recovered at the first
\* return to that peak, and the longest stretch under water is between two
\* points none of which between them comes back (computeDrawdown).
LOCAL Pairs(n) == {p \in (1..n) \X (1..n) : p[1] < p[2]}
LOCAL Longest(S) == CHOOSE x \in S : \A y \in S : y <= x
ASSUME DrawdownIsDeepest ==
  \A n \in 1..5 : \A curve \in [1..n -> 1..4] :
    LET d == Drawdown(curve)
        under == {p \in Pairs(n) :
                    /\ \A k \in (p[1] + 1)..(p[2] - 1) : curve[k] < curve[p[1]]
                    /\ curve[p[2]] < curve[p[1]] \/ p[2] - p[1] > 1}
    IN  /\ \A p \in Pairs(n) :
             ~Exceeds([num |-> curve[p[1]] - curve[p[2]], den |-> curve[p[1]]], d.maxDrawdown)
        /\ d.maxDrawdown.num * curve[d.peakAt] =
             (curve[d.peakAt] - curve[d.troughAt]) * d.maxDrawdown.den
        /\ d.recoveryBars # NotRecovered =>
             /\ curve[d.peakAt + d.recoveryBars] >= curve[d.peakAt]
             /\ \A k \in d.troughAt..(d.peakAt + d.recoveryBars - 1) : curve[k] < curve[d.peakAt]
        /\ d.recoveryBars = NotRecovered => \A k \in d.troughAt..n : curve[k] < curve[d.peakAt]
        /\ d.longestUnderwaterBars = Longest({0} \cup {p[2] - p[1] : p \in under})

\* The longest run of losses is one that is there, and none is longer.
ASSUME LossesCluster ==
  \A n \in 0..5 : \A pnls \in [1..n -> {-1, 0, 2}] :
    MaxConsecutiveLosses(pnls) =
      Longest({0} \cup {p[2] - p[1] : p \in {q \in Pairs(n + 1) :
                                                 \A k \in q[1]..(q[2] - 1) : pnls[k] < 0}})

\* Every window trains before it tests, on bars that end where the test begins;
\* the tests follow each other without a gap or an overlap (buildWindows).
ASSUME WindowsTile ==
  \A total \in 0..12, train, test \in 1..4 :
    LET w == BuildWindows(total, train, test)
    IN  /\ \A k \in DOMAIN w :
             /\ w[k].trainStart >= 1 /\ w[k].trainEnd - w[k].trainStart + 1 = train
             /\ w[k].testStart = w[k].trainEnd + 1 /\ w[k].testEnd <= total
             /\ k > 1 => w[k].testStart = w[k - 1].testEnd + 1
        /\ total - (IF w = <<>> THEN train ELSE w[Len(w)].testEnd) < test

\* Out of sample means out of sample: no bar is tested twice, and a fold is
\* tested with parameters no other would have beaten on its train bars; what no
\* parameter endorses is not tested (walkForward).
ASSUME TestedOutOfSample ==
  \A scores \in [{"p", "q"} \X (1..3) -> {Unusable, 1, 2}] :
    LET w == BuildWindows(8, 2, 2)
        folds == Folds(w, <<"p", "q">>, scores)
        tested == TestedBars(folds)
    IN  /\ \A i, j \in DOMAIN tested : i < j => tested[i] < tested[j]
        /\ \A k \in DOMAIN w :
             LET usable == \E p \in {"p", "q"} : scores[<<p, k>>] # Unusable
                 fold == SelectSeq(folds, LAMBDA f : f.window = w[k])
             IN  /\ Len(fold) = IF usable THEN 1 ELSE 0
                 /\ usable => \A p \in {"p", "q"} :
                      scores[<<p, k>>] <= scores[<<fold[1].chosen.params, k>>]
=============================================================================
