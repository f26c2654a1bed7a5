------------------------ MODULE MCTradingLedgerProofs ------------------------
(***************************************************************************)
(* The theorems of TradingLedgerProofs about the scenarios of its run: a   *)
(* loop with crashes, lost requests and lost rows, a warm container whose  *)
(* ticks and manual exits take turns, two processes with promotion,        *)
(* unguarded approvals and a failing database.                             *)
(***************************************************************************)
EXTENDS MCTradingLedger, TradingLedgerProofs

LEMMA LeasedAssumptions ==
  /\ Leased!DeploymentAssumption /\ Leased!FeaturesAssumption /\ Leased!IdsAssumption
  /\ Leased!BoundsAssumption /\ Leased!InTurns
BY IdsAssumption, BoundsAssumption
   DEF Leased!DeploymentAssumption, Leased!FeaturesAssumption, Leased!IdsAssumption,
       Leased!BoundsAssumption, Leased!InTurns

LEMMA PairAssumptions ==
  /\ Pair!DeploymentAssumption /\ Pair!FeaturesAssumption /\ Pair!IdsAssumption
  /\ Pair!BoundsAssumption /\ Pair!InTurns
BY DeploymentAssumption, BoundsAssumption, PairAssumption
   DEF Pair!DeploymentAssumption, Pair!FeaturesAssumption, Pair!IdsAssumption,
       Pair!BoundsAssumption, Pair!InTurns, Pair!NoClosing

LEMMA LeasedInit == Init => Leased!Init
BY DEF Init, Leased!Init, Absent, Leased!Absent, AnyOrder, Leased!AnyOrder, Orders, Leased!Orders,
       Idle, Leased!Idle, Actors, Leased!Actors

LEMMA LeasedStarts == Init => Leased!FillsInv
BY LeasedInit, LeasedAssumptions, Leased!FillsInit

LEMMA PairStarts == Pair!Init => Pair!FillsInv
BY PairAssumptions, Pair!FillsInit

LEMMA LeasedStep == ASSUME Leased!FillsInv, [Leased!Next]_(Leased!vars) PROVE Leased!FillsInv'
BY LeasedAssumptions, Leased!FillsStep

LEMMA PairStep == ASSUME Pair!FillsInv, [Pair!Next]_(Pair!vars) PROVE Pair!FillsInv'
BY PairAssumptions, Pair!FillsStep

LEMMA SoloMeans == FillsInv => NoFillCountedTwice
BY OnceMeansOnce DEF FillsInv

LEMMA LeasedMeans == Leased!FillsInv => NoFillCountedTwice
<1>1. Leased!OnceInv => Leased!NoFillCountedTwice
  BY LeasedAssumptions, Leased!OnceMeansOnce
<1>2. QED BY <1>1 DEF Leased!FillsInv, Leased!NoFillCountedTwice, NoFillCountedTwice

LEMMA PairMeans == Pair!FillsInv => Pair!NoFillCountedTwice
<1>1. Pair!OnceInv => Pair!NoFillCountedTwice
  BY PairAssumptions, Pair!OnceMeansOnce
<1>2. QED BY <1>1 DEF Pair!FillsInv

\* In every scenario: its ledger files each fill once, the other one rests.
MCFillsInv ==
  /\ scenario \in {"solo", "lease", "pair"}
  /\ scenario = "solo" => FillsInv
  /\ scenario = "lease" => Leased!FillsInv
  /\ scenario = "pair" => Pair!FillsInv /\ NoFillCountedTwice
  /\ scenario # "pair" => Pair!NoFillCountedTwice

LEMMA MCFillsInit == MCInit => MCFillsInv
BY FillsInit, LeasedStarts, PairStarts, SoloMeans, PairMeans DEF MCInit, MCFillsInv

LEMMA MCFillsStep == ASSUME InTurns, MCFillsInv, [MCNext]_mcvars PROVE MCFillsInv'
<1>1. UNCHANGED vars2 => Pair!NoFillCountedTwice' = Pair!NoFillCountedTwice
  BY DEF vars2, Pair!NoFillCountedTwice
<1>2. UNCHANGED vars => NoFillCountedTwice' = NoFillCountedTwice
  BY DEF vars, NoFillCountedTwice
<1>3. UNCHANGED vars => [Leased!Next]_(Leased!vars)
  BY DEF vars, Leased!vars
<1>4. UNCHANGED vars2 => [Pair!Next]_(Pair!vars)
  BY DEF vars2, Pair!vars
<1>5. scenario' = scenario
  BY DEF MCNext, mcvars
<1>6. CASE scenario = "solo"
  <2>1. [Next]_vars /\ UNCHANGED vars2
    BY <1>6 DEF MCNext, mcvars
  <2>2. FillsInv'
    BY <1>6, <2>1, FillsStep DEF MCFillsInv
  <2>3. QED BY <1>1, <1>5, <1>6, <2>1, <2>2 DEF MCFillsInv
<1>7. CASE scenario = "lease"
  <2>1. [Leased!Next]_(Leased!vars) /\ UNCHANGED vars2
    BY <1>3, <1>7 DEF MCNext, mcvars
  <2>2. Leased!FillsInv'
    BY <1>7, <2>1, LeasedStep DEF MCFillsInv
  <2>3. QED BY <1>1, <1>5, <1>7, <2>1, <2>2 DEF MCFillsInv
<1>8. CASE scenario = "pair"
  <2>1. [Pair!Next]_(Pair!vars) /\ UNCHANGED vars
    BY <1>4, <1>8 DEF MCNext, mcvars
  <2>2. Pair!FillsInv'
    BY <1>8, <2>1, PairStep DEF MCFillsInv
  <2>3. QED BY <1>2, <1>5, <1>8, <2>1, <2>2 DEF MCFillsInv
<1>9. QED BY <1>6, <1>7, <1>8 DEF MCFillsInv

LEMMA MCFillsMean == MCFillsInv => FillsCountOnce
BY SoloMeans, LeasedMeans, PairMeans DEF MCFillsInv, FillsCountOnce

\* In the scenarios of the run, of any size: no portfolio counts a fill twice.
THEOREM RunCountsOnce == InTurns => (MCSpec => []FillsCountOnce)
<1> SUFFICES ASSUME InTurns PROVE MCSpec => []FillsCountOnce
  OBVIOUS
<1>1. MCFillsInv /\ [MCNext]_mcvars => MCFillsInv'
  BY MCFillsStep
<1>2. QED BY <1>1, MCFillsInit, MCFillsMean, PTL DEF MCSpec

-----------------------------------------------------------------------------
\* Where there are no manual exits: what makes NeverShort inductive.
MCSoldInv == MCFillsInv /\ (scenario = "solo" => Sold)

LEMMA MCSoldStep == ASSUME InTurns, NoClosing, MCSoldInv, [MCNext]_mcvars PROVE MCSoldInv'
<1>1. MCFillsInv' /\ scenario' = scenario
  BY MCFillsStep DEF MCSoldInv, MCNext, mcvars
<1>2. CASE scenario = "solo"
  <2>1. [Next]_vars
    BY <1>2 DEF MCNext, mcvars
  <2>2. FillsInv /\ Sold
    BY <1>2 DEF MCSoldInv, MCFillsInv
  <2>3. Sold'
    BY <2>1, <2>2, SoldStep
  <2>4. QED BY <1>1, <2>3 DEF MCSoldInv
<1>3. QED BY <1>1, <1>2 DEF MCSoldInv

LEMMA MCSoldMeans == MCSoldInv => SquareOffSellsOnce
<1>1. FillsInv /\ Sold => NeverShort
  BY SoldIsNeverShort DEF FillsInv
<1>2. QED BY <1>1 DEF MCSoldInv, MCFillsInv, SquareOffSellsOnce

\* In the scenario of the loop, with any number of processes: the square-off never
\* sells more than there is, whatever becomes of the processes, of the lock, of the
\* requests and of the rows and marks that are written.
THEOREM RunSellsOnce == InTurns /\ NoClosing => (MCSpec => []SquareOffSellsOnce)
<1> SUFFICES ASSUME InTurns, NoClosing PROVE MCSpec => []SquareOffSellsOnce
  OBVIOUS
<1>1. MCInit => MCSoldInv
  BY MCFillsInit, InitSold DEF MCInit, MCSoldInv
<1>2. MCSoldInv /\ [MCNext]_mcvars => MCSoldInv'
  BY MCSoldStep
<1>3. QED BY <1>1, <1>2, MCSoldMeans, PTL DEF MCSpec
=============================================================================
