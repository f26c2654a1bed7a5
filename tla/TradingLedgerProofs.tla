------------------------- MODULE TradingLedgerProofs -------------------------
(***************************************************************************)
(* Theorems about TradingLedger for any number of orders, crashes, bars,   *)
(* clicks and outages.  With a single process whose database never commits *)
(* an append without saying so, the portfolio is the fill table; both      *)
(* assumptions are needed, a promotion breaks the first, the feature       *)
(* "lostAnswer" the second.  No fill is counted twice, with any number of  *)
(* processes, where manual exits take turns with the loop; with one, also  *)
(* where the lock is lost or a bar is decided on again.  And where there   *)
(* are no manual exits, nobody sells more than there is, even when order   *)
(* rows and the mark of the day are not written.                           *)
(***************************************************************************)
EXTENDS TradingLedger, FiniteSetTheorems, WellFoundedInduction, TLAPS

Alone     == \A p, q \in Processes : p = q
Answering == "lostAnswer" \notin Features

\* The suspended calls are records; nothing more of their type is needed.
Fields == {"pc", "proc", "kind", "order", "bid", "status", "lots", "open", "report", "found"}
Shape  == /\ DOMAIN calls = Actors
          /\ \A a \in Actors : DOMAIN calls[a] = Fields
          /\ DOMAIN portfolio = Processes /\ up \subseteq Processes

\* The inductive invariant: PortfolioIsLedger for every running process, and
\* why it is inductive: only a running process has a fill to fold, and that
\* fill is in the table.
Whole ==
  /\ Shape
  /\ \A p \in Processes :
       /\ p \in up => portfolio[p] = stored \ BeingFolded(p)
       /\ At(p, "fold") => Adopting(p) \in stored
       /\ calls[p].proc = p
       /\ p \notin up => At(p, "idle")

LEMMA IdleShape == \A p : /\ DOMAIN Idle(p) = Fields /\ Idle(p).pc = "idle"
                          /\ Idle(p).proc = p
BY DEF Idle, Fields

LEMMA WholeInit == Init => Whole
<1> SUFFICES ASSUME Init PROVE Whole
  OBVIOUS
<1> DEFINE home(a) == CHOOSE p \in Processes : a \in Processes => p = a
<1>1. calls = [a \in Actors |-> Idle(home(a))]
  BY DEF Init
<1> HIDE DEF home
<1>2. Shape
  BY <1>1, IdleShape DEF Shape, Init
<1>3. \A p \in Processes : calls[p].proc = p /\ calls[p].pc = "idle"
  BY <1>1, IdleShape DEF home, Actors
<1>4. QED BY <1>2, <1>3 DEF Whole, At, Init

\* A step that changes one call, neither starting nor ending a fold, and
\* leaves the table and the portfolios alone.
Moves(a) == /\ \A x \in Actors : x # a => calls'[x] = calls[x]
            /\ calls[a].pc # "fold" /\ calls'[a].pc # "fold"
            /\ a \in Processes => a \in up /\ calls'[a].proc = a
            /\ DOMAIN calls' = Actors /\ DOMAIN calls'[a] = Fields

LEMMA WholeMoves ==
  ASSUME Whole, NEW a \in Actors, Moves(a),
         stored' = stored, portfolio' = portfolio, up' = up
  PROVE  Whole'
<1>1. Shape'
  BY DEF Whole, Moves, Shape
<1>2. ASSUME NEW p \in Processes
      PROVE  /\ p \in up' => portfolio'[p] = stored' \ BeingFolded(p)'
             /\ At(p, "fold")' => Adopting(p)' \in stored'
             /\ calls'[p].proc = p
             /\ p \notin up' => At(p, "idle")'
  <2>1. CASE p = a
    BY <2>1 DEF Whole, Moves, At, BeingFolded
  <2>2. CASE p # a
    <3>1. calls'[p] = calls[p]
      BY <2>2 DEF Moves, Actors
    <3>2. At(p, "fold")' = At(p, "fold") /\ At(p, "idle")' = At(p, "idle")
          /\ Adopting(p)' = Adopting(p) /\ BeingFolded(p)' = BeingFolded(p)
      BY <3>1 DEF At, Adopting, BeingFolded
    <3>3. QED BY <3>1, <3>2 DEF Whole
  <2>3. QED BY <2>1, <2>2
<1>3. QED BY <1>1, <1>2 DEF Whole

\* The ways in which an action leaves a call.
LEMMA WholeGoto ==
  ASSUME Whole, NEW a \in Actors, calls[a].pc \notin {"idle", "fold"}, NEW pc, pc # "fold",
         Goto(a, pc) \/ Finish(a)
  PROVE  Moves(a)
BY IdleShape DEF Whole, Moves, Goto, Finish, Shape, Actors, Fields, At

LEMMA WholeUnmoved ==
  ASSUME Whole, stored' = stored, portfolio' = portfolio, up' = up, calls' = calls
  PROVE  Whole'
BY DEF Whole, Shape, At, BeingFolded, Adopting

LEMMA SubmissionMoves ==
  ASSUME Whole, NEW a \in Actors, Submission(a)
  PROVE  Whole'
<1> USE DEF At, who, db, memory
<1>1. CASE PersistFails(a)
  <2>1. Moves(a)
    BY <1>1, WholeGoto DEF PersistFails
  <2>2. QED BY <2>1, <1>1, WholeMoves DEF PersistFails
<1>2. CASE SubmitAcked(a)
  <2>1. Moves(a)
    BY <1>2, WholeGoto DEF SubmitAcked, Return
  <2>2. QED BY <2>1, <1>2, WholeMoves DEF SubmitAcked
<1>3. CASE SubmitRefused(a)
  <2>1. Moves(a)
    BY <1>3, WholeGoto DEF SubmitRefused, Return
  <2>2. QED BY <2>1, <1>3, WholeMoves DEF SubmitRefused
<1>4. CASE SubmitUncertain(a)
  <2>1. Moves(a)
    BY <1>4, WholeGoto DEF SubmitUncertain, Return
  <2>2. QED BY <2>1, <1>4, WholeMoves DEF SubmitUncertain
<1>5. CASE PersistFinds(a)
  <2>1. Moves(a)
    BY <1>5 DEF PersistFinds, Moves, Whole, Shape, Fields, Actors
  <2>2. QED BY <2>1, <1>5, WholeMoves DEF PersistFinds
<1>6. CASE PersistWrites(a)
  <2>1. Moves(a)
    BY <1>6, WholeGoto DEF PersistWrites
  <2>2. QED BY <2>1, <1>6, WholeMoves DEF PersistWrites
<1>7. QED BY <1>1, <1>2, <1>3, <1>4, <1>5, <1>6 DEF Submission

LEMMA SendMoves ==
  ASSUME Whole, NEW a \in Actors, NEW p \in Processes, NEW kind, NEW o, NEW lots,
         Send(a, p, kind, o, lots), calls[a].pc # "fold",
         a \in Processes => a \in up /\ a = p
  PROVE  Moves(a)
<1>1. PICK b \in BrokerIds :
        calls' = [calls EXCEPT ![a] = [Idle(p) EXCEPT !.pc = "submit", !.kind = kind,
                                                      !.order = o, !.bid = b]]
  BY DEF Send
<1>2. QED BY <1>1, IdleShape DEF Moves, Whole, Shape, Fields, Actors

LEMMA DecidingMoves ==
  ASSUME Whole, NEW p \in Processes, Deciding(p)
  PROVE  Whole'
<1> USE DEF At, who, db, memory
<1>0. p \in Actors /\ calls[p].proc = p
  BY DEF Actors, Whole
<1>1. CASE BarsQuiet(p)
  <2>1. Moves(p)
    BY <1>0, <1>1, WholeGoto DEF BarsQuiet
  <2>2. QED BY <1>0, <2>1, <1>1, WholeMoves DEF BarsQuiet
<1>2. CASE SquareOffReads(p)
  <2>1. Moves(p)
    BY <1>0, <1>2 DEF SquareOffReads, Moves, Whole, Shape, Fields, Actors
  <2>2. QED BY <1>0, <2>1, <1>2, WholeMoves DEF SquareOffReads
<1>3. CASE SquareOffNothing(p)
  <2>1. Moves(p)
    BY <1>0, <1>3, WholeGoto DEF SquareOffNothing
  <2>2. QED BY <1>0, <2>1, <1>3, WholeMoves DEF SquareOffNothing
<1>4. ASSUME NEW o \in Orders, BarTrades(p, o) PROVE Whole'
  <2>1. p \in up /\ calls[p].pc # "fold"
    BY <1>4 DEF BarTrades, Whole
  <2>2. Moves(p)
    BY <1>0, <1>4, <2>1, SendMoves DEF BarTrades
  <2>3. QED BY <1>0, <2>2, <1>4, WholeMoves DEF BarTrades
<1>5. ASSUME NEW o \in Orders, SquareOffSends(p, o) PROVE Whole'
  <2>1. p \in up /\ calls[p].pc # "fold"
    BY <1>5 DEF SquareOffSends, Whole
  <2>2. Moves(p)
    BY <1>0, <1>5, <2>1, SendMoves DEF SquareOffSends
  <2>3. QED BY <1>0, <2>2, <1>5, WholeMoves DEF SquareOffSends
<1>6. CASE MarkThrows(p)
  <2>1. Moves(p)
    BY <1>0, <1>6, WholeGoto DEF MarkThrows
  <2>2. QED BY <1>0, <2>1, <1>6, WholeMoves DEF MarkThrows
<1>7. QED BY <1>1, <1>2, <1>3, <1>4, <1>5, <1>6 DEF Deciding

LEMMA ReconcilingKeeps ==
  ASSUME Whole, Alone, Answering, NEW p \in Processes, Reconciling(p)
  PROVE  Whole'
<1> USE DEF At, who, db, memory
<1>0. p \in Actors /\ calls[p].proc = p
  BY DEF Actors, Whole
<1>1. CASE FindOpen(p)
  <2>1. Moves(p)
    BY <1>0, <1>1 DEF FindOpen, Moves, Whole, Shape, Fields, Actors
  <2>2. QED BY <1>0, <2>1, <1>1, WholeMoves DEF FindOpen
<1>2. CASE SkipOrder(p)
  <2>1. Moves(p)
    BY <1>0, <1>2 DEF SkipOrder, Moves, Whole, Shape, Fields, Actors
  <2>2. QED BY <1>0, <2>1, <1>2, WholeMoves DEF SkipOrder
<1>3. CASE AskOrder(p)
  <2>1. Moves(p)
    BY <1>0, <1>3 DEF AskOrder, Moves, Whole, Shape, Fields, Actors
  <2>2. QED BY <1>0, <2>1, <1>3, WholeMoves DEF AskOrder
<1>4. CASE UpdateOrder(p)
  <2>1. Moves(p)
    BY <1>0, <1>4, WholeGoto DEF UpdateOrder
  <2>2. QED BY <1>0, <2>1, <1>4, WholeMoves DEF UpdateOrder
<1>5. ASSUME NEW b \in BrokerIds, MatchFill(p, b) PROVE Whole'
  <2>1. Moves(p)
    BY <1>0, <1>5 DEF MatchFill, Moves, Whole, Shape, Fields, Actors
  <2>2. QED BY <1>0, <2>1, <1>5, WholeMoves DEF MatchFill
<1>6. CASE AppendFill(p)
  <2>1. p \in up /\ portfolio[p] = stored
    BY <1>6 DEF AppendFill, Whole, BeingFolded
  <2>2. calls'[p] = [calls[p] EXCEPT !.pc = IF NewToStore(p) THEN "fold" ELSE "fills"]
    BY <1>0, <1>6 DEF AppendFill, Goto, Whole, Shape
  <2>3. Adopting(p)' = Adopting(p) /\ calls'[p].proc = p
        /\ calls'[p].pc = IF NewToStore(p) THEN "fold" ELSE "fills"
    BY <1>0, <2>2 DEF Adopting, Whole, Shape, Fields
  <2>4. portfolio'[p] = stored' \ BeingFolded(p)'
    BY <2>1, <2>3, <1>6 DEF AppendFill, BeingFolded, NewToStore
  <2>5. Shape'
    BY <1>0, <1>6, <2>2 DEF AppendFill, Goto, Whole, Shape
  <2>6. \A q \in Processes : q = p
    BY DEF Alone
  <2>7. up' = up /\ Adopting(p)' \in stored'
    BY <1>6, <2>3 DEF AppendFill
  <2>8. QED BY <2>1, <2>3, <2>4, <2>5, <2>6, <2>7 DEF Whole
<1>7. CASE AppendThrows(p)
  BY <1>7 DEF AppendThrows, Answering
<1>8. CASE FoldFill(p)
  <2>1. p \in up /\ portfolio[p] = stored \ {Adopting(p)} /\ Adopting(p) \in stored
    BY <1>8 DEF FoldFill, Whole, BeingFolded
  <2>2. calls'[p].pc = "fills" /\ calls'[p].proc = p /\ Shape'
    BY <1>0, <1>8 DEF FoldFill, Goto, Whole, Shape, Fields
  <2>3. portfolio'[p] = stored /\ stored' = stored /\ up' = up
    BY <1>8, <2>1 DEF FoldFill, Whole, Shape
  <2>4. \A q \in Processes : q = p
    BY DEF Alone
  <2>5. QED BY <2>1, <2>2, <2>3, <2>4 DEF Whole, BeingFolded
<1>9. CASE ReconcileDone(p)
  <2>1. Moves(p)
    BY <1>0, <1>9, WholeGoto DEF ReconcileDone
  <2>2. QED BY <1>0, <2>1, <1>9, WholeMoves DEF ReconcileDone
<1>10. QED BY <1>1, <1>2, <1>3, <1>4, <1>5, <1>6, <1>7, <1>8, <1>9 DEF Reconciling

LEMMA LoopKeeps ==
  ASSUME Whole, NEW p \in Processes,
         Tick(p) \/ GetFills(p) \/ GetFillsFails(p) \/ TickThrows(p)
  PROVE  Whole'
<1> USE DEF At, who, db, memory
<1>0. p \in Actors /\ calls[p].proc = p
  BY DEF Actors, Whole
<1>1. CASE Tick(p)
  <2>1. Moves(p)
    BY <1>0, <1>1 DEF Tick, Goto, Moves, Whole, Shape, Fields, Actors
  <2>2. QED BY <1>0, <2>1, <1>1, WholeMoves DEF Tick
<1>2. CASE GetFills(p)
  <2>1. Moves(p)
    BY <1>0, <1>2 DEF GetFills, Moves, Whole, Shape, Fields, Actors
  <2>2. QED BY <1>0, <2>1, <1>2, WholeMoves DEF GetFills
<1>3. CASE GetFillsFails(p)
  <2>1. Moves(p)
    BY <1>0, <1>3, WholeGoto DEF GetFillsFails
  <2>2. QED BY <1>0, <2>1, <1>3, WholeMoves DEF GetFillsFails
<1>4. CASE TickThrows(p)
  <2>1. Moves(p)
    BY <1>0, <1>4, WholeGoto DEF TickThrows
  <2>2. QED BY <1>0, <2>1, <1>4, WholeMoves DEF TickThrows
<1>5. QED BY <1>1, <1>2, <1>3, <1>4

LEMMA BootKeeps ==
  ASSUME Whole, Alone, NEW p \in Processes, Boot(p)
  PROVE  Whole'
<1>1. calls[p].pc = "idle" /\ calls' = calls /\ stored' = stored /\ p \in up'
  BY DEF Boot, Whole, At, db
<1>2. portfolio'[p] = stored /\ DOMAIN portfolio' = Processes
  BY DEF Boot, Whole, Shape
<1>3. \A q \in Processes : q = p
  BY DEF Alone
<1>4. Shape'
  BY <1>1, <1>2 DEF Boot, Whole, Shape
<1>5. QED BY <1>1, <1>2, <1>3, <1>4 DEF Whole, At, BeingFolded

LEMMA CrashKeeps ==
  ASSUME Whole, Alone, NEW p \in Processes, Crash(p)
  PROVE  Whole'
<1>1. p \in Actors /\ calls[p].proc = p
  BY DEF Whole, Actors
<1>2. p \notin up' /\ stored' = stored
  BY DEF Crash, db
<1>3. calls'[p].pc = "idle" /\ calls'[p].proc = p
  BY <1>1, IdleShape DEF Crash
<1>4. Shape'
  BY IdleShape DEF Crash, Whole, Shape
<1>5. \A q \in Processes : q = p
  BY DEF Alone
<1>6. QED BY <1>2, <1>3, <1>4, <1>5 DEF Whole, At

LEMMA WholeStep ==
  ASSUME Whole, Alone, Answering, [Next]_vars
  PROVE  Whole'
<1>1. ASSUME NEW p \in Processes, Boot(p) PROVE Whole'
  BY <1>1, BootKeeps
<1>2. ASSUME NEW p \in Processes, Promote(p) \/ Lose(p) PROVE Whole'
  BY <1>2, WholeUnmoved DEF Promote, Lose, db, memory
<1>3. ASSUME NEW p \in Processes, Crash(p) PROVE Whole'
  BY <1>3, CrashKeeps
<1>4. ASSUME NEW p \in Processes,
             Tick(p) \/ GetFills(p) \/ GetFillsFails(p) \/ TickThrows(p)
      PROVE  Whole'
  BY <1>4, LoopKeeps
<1>5. ASSUME NEW p \in Processes, Reconciling(p) PROVE Whole'
  BY <1>5, ReconcilingKeeps
<1>6. ASSUME NEW p \in Processes, Deciding(p) PROVE Whole'
  BY <1>6, DecidingMoves
<1>7. ASSUME NEW a \in Actors, Submission(a) PROVE Whole'
  BY <1>7, SubmissionMoves
<1>8. ASSUME NEW c \in Clicks, NEW p \in Processes, Flatten(c, p) PROVE Whole'
  <2>1. Moves(c)
    BY <1>8, IdsAssumption, IdleShape DEF Flatten, Moves, Whole, Shape, Fields, Actors, At
  <2>2. QED BY <1>8, <2>1, WholeMoves DEF Flatten, Actors, db, who, memory
<1>9. ASSUME NEW c \in Clicks, NEW p \in Processes, NEW o \in Entries, Approve(c, p, o)
      PROVE  Whole'
  <2>1. c \in Actors /\ c \notin Processes /\ calls[c].pc # "fold"
    BY <1>9, IdsAssumption DEF Actors, Approve, At
  <2>2. Moves(c)
    BY <2>1, <1>9, SendMoves DEF Approve
  <2>3. QED BY <2>1, <2>2, <1>9, WholeMoves DEF Approve, db, who
<1>10. ASSUME NEW c \in Clicks, FlattenRefused(c) PROVE Whole'
  <2>1. Moves(c)
    BY <1>10, WholeGoto, IdsAssumption DEF FlattenRefused, Actors, At
  <2>2. QED BY <1>10, <2>1, WholeMoves DEF FlattenRefused, Actors, db, who, memory
<1>11. ASSUME NEW c \in Clicks, NEW o \in Exits, FlattenSends(c, o) PROVE Whole'
  <2>1. c \in Actors /\ c \notin Processes
    BY IdsAssumption DEF Actors
  <2>2. PICK b \in BrokerIds :
          calls' = [calls EXCEPT ![c] = [Idle(calls[c].proc) EXCEPT
                      !.pc = "submit", !.kind = "exit", !.order = o, !.bid = b]]
    BY <1>11 DEF FlattenSends, Send
  <2>3. Moves(c)
    BY <2>1, <1>11, <2>2, IdleShape DEF FlattenSends, Moves, At, Whole, Shape, Fields
  <2>4. QED BY <2>1, <2>3, <1>11, WholeMoves DEF FlattenSends, db, who
<1>12. ASSUME NEW b \in BrokerIds, ExchangeAccepts(b) \/ ExchangeSettles(b) PROVE Whole'
  BY <1>12, WholeUnmoved DEF ExchangeAccepts, ExchangeSettles, db, who, memory
<1>13. CASE UNCHANGED vars
  BY <1>13, WholeUnmoved DEF vars
<1>14. QED
  BY <1>1, <1>2, <1>3, <1>4, <1>5, <1>6, <1>7, <1>8, <1>9, <1>10, <1>11, <1>12, <1>13 DEF Next

LEMMA WholeIsLedger == Whole => PortfolioIsLedger
<1> SUFFICES ASSUME Whole, NEW p \in up PROVE portfolio[p] = stored \ BeingFolded(p)
  BY DEF PortfolioIsLedger
<1> QED BY DEF Whole, Shape

\* With one process, and a database that says what it has committed, the
\* portfolio of the process that trades is the fill table but for the fill its
\* reconciler is about to fold: start()'s replay and the reconciler together
\* neither lose a stored fill nor add one.
THEOREM PortfolioFollowsLedger ==
  ASSUME Alone, Answering
  PROVE  Spec => []PortfolioIsLedger
<1>1. Init => Whole
  BY WholeInit
<1>2. Whole /\ [Next]_vars => Whole'
  BY WholeStep
<1>3. Whole => PortfolioIsLedger
  BY WholeIsLedger
<1>4. QED BY <1>1, <1>2, <1>3, PTL DEF Spec

-----------------------------------------------------------------------------
(* Sums over finite sets, by which sales and positions are compared.       *)

\* A set of subsets of a finite set has one that contains no other of them.
LEMMA LeastSubset ==
  ASSUME NEW S, IsFiniteSet(S), NEW B \in SUBSET SUBSET S, B # {}
  PROVE  \E T \in B : \A U \in SUBSET T : U # T => U \notin B
<1>1. FiniteSubsetsOf(S) = SUBSET S
  BY FS_FiniteSubsetsOfFinite
<1>2. IsWellFoundedOn(StrictSubsetOrdering(S), SUBSET S)
  BY <1>1, FS_StrictSubsetOrderingWellFounded
<1>3. PICK T \in B : \A U \in B : <<U, T>> \notin StrictSubsetOrdering(S)
  BY <1>2, WFMin
<1>4. ASSUME NEW U \in SUBSET T, U # T PROVE U \notin B
  BY <1>3, <1>4 DEF StrictSubsetOrdering
<1>5. QED BY <1>4

\* What SumFunctionOnSet computes, subset by subset.
Adds(w, g, S) ==
  g = [s \in SUBSET S |-> IF s = {} THEN 0
                          ELSE w[CHOOSE x \in s : TRUE] + g[s \ {CHOOSE x \in s : TRUE}]]

LEMMA SumIs ==
  ASSUME NEW w, NEW S, NEW g, Adds(w, g, S)
  PROVE  \E h : Adds(w, h, S) /\ SumFunctionOnSet(w, S) = h[S]
<1>1. SumFunctionOnSet(w, S) = (CHOOSE h : Adds(w, h, S))[S]
  BY DEF SumFunctionOnSet, FoldFunctionOnSet, MapThenFoldSet, Adds
<1>2. QED BY <1>1

SameOn(w, v, S) == \A x \in S : w[x] = v[x]

\* Two such functions agree on the subsets on which their numbers do.
LEMMA SumsAgree ==
  ASSUME NEW S, NEW T, NEW U, U \in SUBSET S, U \in SUBSET T, IsFiniteSet(U),
         NEW w, NEW v, SameOn(w, v, U), NEW g, Adds(w, g, S), NEW h, Adds(v, h, T)
  PROVE  g[U] = h[U]
<1> DEFINE Apart == {s \in SUBSET U : g[s] # h[s]}
<1> SUFFICES ASSUME Apart # {} PROVE FALSE
  OBVIOUS
<1>1. PICK t \in Apart : \A u \in SUBSET t : u # t => u \notin Apart
  <2>1. Apart \in SUBSET SUBSET U
    OBVIOUS
  <2> HIDE DEF Apart
  <2>2. QED BY <2>1, LeastSubset
<1> DEFINE c == CHOOSE x \in t : TRUE
<1>2. t \in SUBSET S /\ t \in SUBSET T
  OBVIOUS
<1>3. g[t] = IF t = {} THEN 0 ELSE w[c] + g[t \ {c}]
  BY <1>2 DEF Adds
<1>4. h[t] = IF t = {} THEN 0 ELSE v[c] + h[t \ {c}]
  BY <1>2 DEF Adds
<1>5. t # {}
  BY <1>1, <1>3, <1>4
<1>6. c \in t
  BY <1>5
<1> HIDE DEF c
<1>7. t \ {c} \in SUBSET t /\ t \ {c} # t /\ c \in U
  BY <1>6
<1>8. g[t \ {c}] = h[t \ {c}] /\ w[c] = v[c]
  BY <1>1, <1>7 DEF SameOn
<1>9. QED BY <1>1, <1>3, <1>4, <1>5, <1>8

\* The function exists.
LEMMA SumExists ==
  ASSUME NEW S, IsFiniteSet(S), NEW w
  PROVE  \E g : Adds(w, g, S)
<1> DEFINE Missing == {T \in SUBSET S : ~\E g : Adds(w, g, T)}
<1> SUFFICES ASSUME Missing # {} PROVE FALSE
  OBVIOUS
<1>1. PICK T \in Missing : \A U \in SUBSET T : U # T => U \notin Missing
  <2>1. Missing \in SUBSET SUBSET S
    OBVIOUS
  <2> HIDE DEF Missing
  <2>2. QED BY <2>1, LeastSubset
<1>2. T \in SUBSET S /\ IsFiniteSet(T)
  BY FS_Subset
<1>3. \A U \in SUBSET T : U # T => \E g : Adds(w, g, U)
  BY <1>1, <1>2
<1> DEFINE of(U) == CHOOSE g : Adds(w, g, U)
           c(s)  == CHOOSE x \in s : TRUE
           value(s) == IF s = {} THEN 0 ELSE w[c(s)] + of(s \ {c(s)})[s \ {c(s)}]
           g == [s \in SUBSET T |-> value(s)]
<1>4. \A U \in SUBSET T : U # T => Adds(w, of(U), U)
  BY <1>3
<1>5. ASSUME NEW s \in SUBSET T, s # {} PROVE c(s) \in s
  BY <1>5
<1> HIDE DEF of
<1>6. ASSUME NEW U \in SUBSET T, U # T PROVE of(U)[U] = value(U)
  <2>1. Adds(w, of(U), U)
    BY <1>4, <1>6
  <2>2. of(U)[U] = IF U = {} THEN 0 ELSE w[c(U)] + of(U)[U \ {c(U)}]
    BY <2>1 DEF Adds
  <2>3. CASE U = {}
    BY <2>2, <2>3
  <2>4. CASE U # {}
    <3> DEFINE V == U \ {c(U)}
    <3>1. c(U) \in U
      BY <1>5, <2>4
    <3> HIDE DEF c
    <3>2. V \in SUBSET T /\ V # T /\ V \in SUBSET U /\ IsFiniteSet(V) /\ V \in SUBSET V
      BY <1>2, <1>6, <3>1, FS_Subset
    <3>3. Adds(w, of(V), V)
      BY <1>4, <3>2
    <3> HIDE DEF V
    <3>4. of(U)[V] = of(V)[V]
      BY <2>1, <3>2, <3>3, SumsAgree DEF SameOn
    <3>5. QED BY <2>2, <2>4, <3>4 DEF V
  <2>5. QED BY <2>3, <2>4
<1>7. ASSUME NEW s \in SUBSET T PROVE g[s] = IF s = {} THEN 0 ELSE w[c(s)] + g[s \ {c(s)}]
  <2>1. CASE s = {}
    BY <2>1
  <2>2. CASE s # {}
    <3>1. c(s) \in s
      BY <1>5, <2>2
    <3> HIDE DEF c
    <3>2. s \ {c(s)} \in SUBSET T /\ s \ {c(s)} # T
      BY <3>1
    <3>3. g[s \ {c(s)}] = of(s \ {c(s)})[s \ {c(s)}]
      BY <1>6, <3>2
    <3>4. QED BY <2>2, <3>3
  <2>3. QED BY <2>1, <2>2
<1>8. Adds(w, g, T)
  <2>1. g = [s \in SUBSET T |-> IF s = {} THEN 0 ELSE w[c(s)] + g[s \ {c(s)}]]
    <3> HIDE DEF value, c
    <3>1. g = [s \in SUBSET T |-> g[s]]
      OBVIOUS
    <3> HIDE DEF g
    <3>2. QED BY <1>7, <3>1
  <2> HIDE DEF g
  <2>2. QED BY <2>1 DEF Adds, c
<1>9. QED BY <1>1, <1>8

\* What is summed: nothing, one number more.  This is all the proofs below use.
Total(w, S) == SumFunctionOnSet(w, S)

LEMMA TotalAddsUp ==
  ASSUME NEW S, IsFiniteSet(S), NEW w, NEW g, Adds(w, g, S), NEW T \in SUBSET S
  PROVE  Total(w, T) = g[T]
<1>1. IsFiniteSet(T)
  BY FS_Subset
<1>2. PICK h : Adds(w, h, T)
  BY <1>1, SumExists
<1>3. PICK k : Adds(w, k, T) /\ SumFunctionOnSet(w, T) = k[T]
  BY <1>2, SumIs
<1>4. T \in SUBSET T
  OBVIOUS
<1>5. k[T] = g[T]
  BY <1>1, <1>3, <1>4, SumsAgree DEF SameOn
<1>6. QED BY <1>3, <1>5 DEF Total

LEMMA TotalSame ==
  ASSUME NEW S, IsFiniteSet(S), NEW w, NEW v, \A x \in S : w[x] = v[x]
  PROVE  Total(w, S) = Total(v, S)
<1>1. PICK g : Adds(w, g, S)
  BY SumExists
<1>2. PICK h : Adds(v, h, S)
  BY SumExists
<1>3. S \in SUBSET S
  OBVIOUS
<1>4. SameOn(w, v, S)
  BY DEF SameOn
<1>5. g[S] = h[S]
  BY <1>1, <1>2, <1>3, <1>4, SumsAgree
<1>6. QED BY <1>1, <1>2, <1>3, <1>5, TotalAddsUp

LEMMA TotalNone == ASSUME NEW w PROVE Total(w, {}) = 0
<1>1. IsFiniteSet({}) /\ {} \in SUBSET {}
  BY FS_EmptySet
<1>2. PICK g : Adds(w, g, {})
  BY <1>1, SumExists
<1>3. g[{}] = 0
  BY <1>1, <1>2 DEF Adds
<1>4. QED BY <1>1, <1>2, <1>3, TotalAddsUp

LEMMA TotalLess ==
  ASSUME NEW S, IsFiniteSet(S), NEW w, \A x \in S : w[x] \in Int
  PROVE  /\ Total(w, S) \in Int
         /\ \A x \in S : Total(w, S) = w[x] + Total(w, S \ {x})
<1>1. PICK g : Adds(w, g, S)
  BY SumExists
<1> DEFINE Wrong == {T \in SUBSET S : ~(/\ g[T] \in Int
                                       /\ \A x \in T : g[T] = w[x] + g[T \ {x}])}
<1>2. Wrong = {}
  <2> SUFFICES ASSUME Wrong # {} PROVE FALSE
    OBVIOUS
  <2>1. PICK T \in Wrong : \A U \in SUBSET T : U # T => U \notin Wrong
    <3>1. Wrong \in SUBSET SUBSET S
      OBVIOUS
    <3> HIDE DEF Wrong
    <3>2. QED BY <3>1, LeastSubset
  <2> DEFINE c == CHOOSE x \in T : TRUE
  <2>2. T \in SUBSET S
    OBVIOUS
  <2>3. g[T] = IF T = {} THEN 0 ELSE w[c] + g[T \ {c}]
    BY <1>1, <2>2 DEF Adds
  <2>4. T # {}
    BY <2>1, <2>3
  <2>5. c \in T
    BY <2>4
  <2> HIDE DEF c
  <2>6. ASSUME NEW U \in SUBSET T, U # T
        PROVE  g[U] \in Int /\ \A x \in U : g[U] = w[x] + g[U \ {x}]
    BY <2>1, <2>2, <2>6
  <2>7. g[T] \in Int
    BY <2>2, <2>3, <2>4, <2>5, <2>6
  <2>8. ASSUME NEW x \in T PROVE g[T] = w[x] + g[T \ {x}]
    <3>1. CASE x = c
      BY <2>3, <2>4, <3>1
    <3>2. CASE x # c
      <4>1. /\ T \ {c} \in SUBSET T /\ T \ {c} # T /\ x \in T \ {c}
            /\ T \ {x} \in SUBSET T /\ T \ {x} # T /\ c \in T \ {x}
            /\ (T \ {c}) \ {x} = (T \ {x}) \ {c}
            /\ (T \ {c}) \ {x} \in SUBSET T /\ (T \ {c}) \ {x} # T
        BY <2>5, <2>8, <3>2
      <4>2. g[T \ {c}] = w[x] + g[(T \ {c}) \ {x}]
        BY <2>6, <4>1
      <4>3. g[T \ {x}] = w[c] + g[(T \ {x}) \ {c}]
        BY <2>6, <4>1
      <4>4. g[(T \ {c}) \ {x}] \in Int /\ w[x] \in Int /\ w[c] \in Int
        BY <2>2, <2>5, <2>6, <4>1
      <4>5. QED BY <2>3, <2>4, <4>1, <4>2, <4>3, <4>4
    <3>3. QED BY <3>1, <3>2
  <2>9. QED BY <2>7, <2>8
<1>3. S \in SUBSET S /\ S \notin Wrong /\ \A x \in S : S \ {x} \in SUBSET S
  BY <1>2
<1>4. g[S] \in Int /\ \A x \in S : g[S] = w[x] + g[S \ {x}]
  BY <1>3
<1>5. Total(w, S) = g[S] /\ \A x \in S : Total(w, S \ {x}) = g[S \ {x}]
  BY <1>1, <1>3, TotalAddsUp
<1>6. QED BY <1>4, <1>5

LEMMA TotalMore ==
  ASSUME NEW S, IsFiniteSet(S), NEW x, x \notin S, NEW w, \A y \in S \cup {x} : w[y] \in Int
  PROVE  Total(w, S \cup {x}) = Total(w, S) + w[x] /\ Total(w, S) \in Int
<1> DEFINE T == S \cup {x}
<1>1. IsFiniteSet(T) /\ x \in T /\ \A y \in T : w[y] \in Int
  BY FS_AddElement
<1>2. \A R : R = S => Total(w, R) = Total(w, S)
  OBVIOUS
<1>3. T \ {x} = S
  OBVIOUS
<1> HIDE DEF T
<1>4. Total(w, T) = w[x] + Total(w, T \ {x})
  BY <1>1, TotalLess
<1>5. Total(w, T \ {x}) = Total(w, S)
  BY <1>2, <1>3
<1>6. Total(w, S) \in Int /\ w[x] \in Int
  BY <1>1, TotalLess
<1>7. Total(w, T) = Total(w, S) + w[x]
  BY <1>4, <1>5, <1>6
<1>8. QED BY <1>6, <1>7 DEF T

\* A set that has some more of what counts for something has a total no less.
LEMMA TotalGrows ==
  ASSUME NEW S, IsFiniteSet(S), NEW T \in SUBSET S, NEW w, \A x \in S : w[x] \in Int,
         \A x \in S \ T : w[x] >= 0
  PROVE  Total(w, T) <= Total(w, S)
<1> DEFINE Wrong == {U \in SUBSET S : T \subseteq U /\ ~(Total(w, T) <= Total(w, U))}
<1> SUFFICES ASSUME Wrong # {} PROVE FALSE
  OBVIOUS
<1>1. PICK U \in Wrong : \A V \in SUBSET U : V # U => V \notin Wrong
  <2>1. Wrong \in SUBSET SUBSET S
    OBVIOUS
  <2> HIDE DEF Wrong
  <2>2. QED BY <2>1, LeastSubset
<1>2. U \in SUBSET S /\ T \subseteq U /\ IsFiniteSet(U) /\ IsFiniteSet(T)
  BY FS_Subset
<1>3. Total(w, T) \in Int /\ Total(w, U) \in Int
  BY <1>2, TotalLess
<1>4. U # T
  BY <1>1, <1>3
<1>5. PICK x \in U : x \notin T
  BY <1>2, <1>4
<1>6. U \ {x} \in SUBSET U /\ U \ {x} # U /\ U \ {x} \in SUBSET S /\ T \subseteq U \ {x}
  BY <1>2, <1>5
<1>7. Total(w, T) <= Total(w, U \ {x})
  BY <1>1, <1>6
<1>8. Total(w, U) = w[x] + Total(w, U \ {x}) /\ w[x] >= 0 /\ w[x] \in Int
  BY <1>2, <1>5, TotalLess
<1>9. Total(w, U \ {x}) \in Int
  BY <1>2, <1>6, FS_Subset, TotalLess
<1>10. QED BY <1>1, <1>3, <1>7, <1>8, <1>9

\* The total over fills is the total over their broker ids, where no two share one.
LEMMA TotalByName ==
  ASSUME NEW fs, IsFiniteSet(fs), NEW w, NEW ids, \A f \in fs : f.fill \in ids, \A b \in ids : w[b] \in Int,
         \A f, g \in fs : f.fill = g.fill => f = g
  PROVE  /\ IsFiniteSet({f.fill : f \in fs})
         /\ Total([f \in fs |-> w[f.fill]], fs) = Total(w, {f.fill : f \in fs})
<1> DEFINE v == [f \in fs |-> w[f.fill]]
           Names(T) == {f.fill : f \in T}
           Wrong == {T \in SUBSET fs : ~(IsFiniteSet(Names(T)) /\ Total(v, T) = Total(w, Names(T)))}
<1>1. Wrong = {}
  <2> SUFFICES ASSUME Wrong # {} PROVE FALSE
    OBVIOUS
  <2>1. PICK T \in Wrong : \A U \in SUBSET T : U # T => U \notin Wrong
    <3>1. Wrong \in SUBSET SUBSET fs
      OBVIOUS
    <3> HIDE DEF Wrong
    <3>2. QED BY <3>1, LeastSubset
  <2>2. T \in SUBSET fs /\ IsFiniteSet(T)
    BY FS_Subset
  <2>3. T # {}
    <3>1. Total(v, {}) = 0 /\ Total(w, {}) = 0 /\ IsFiniteSet({})
      BY TotalNone, FS_EmptySet
    <3> HIDE DEF v
    <3>2. Names({}) = {}
      OBVIOUS
    <3>3. QED BY <2>1, <3>1, <3>2
  <2>4. PICK f \in T : TRUE
    BY <2>3
  <2> DEFINE U == T \ {f}
  <2>5. U \in SUBSET T /\ U # T /\ U \in SUBSET fs
    BY <2>2
  <2>6. IsFiniteSet(Names(U)) /\ Total(v, U) = Total(w, Names(U))
    BY <2>1, <2>5
  <2>7. f.fill \notin Names(U) /\ Names(T) = Names(U) \cup {f.fill}
    BY <2>2
  <2>8. \A x \in Names(U) \cup {f.fill} : w[x] \in Int
    BY <2>2
  <2>9. v[f] = w[f.fill] /\ \A x \in T : v[x] \in Int
    BY <2>2
  <2> HIDE DEF v
  <2>10. Total(v, T) = v[f] + Total(v, U)
    BY <2>2, <2>9, TotalLess
  <2> HIDE DEF U, Names
  <2>11. Total(w, Names(U) \cup {f.fill}) = Total(w, Names(U)) + w[f.fill] /\ Total(w, Names(U)) \in Int
    BY <2>6, <2>7, <2>8, TotalMore
  <2>12. IsFiniteSet(Names(T))
    BY <2>6, <2>7, FS_AddElement
  <2>13. w[f.fill] \in Int
    BY <2>8
  <2>14. Total(v, T) = Total(w, Names(T))
    BY <2>6, <2>7, <2>9, <2>10, <2>11, <2>13
  <2>15. QED BY <2>1, <2>12, <2>14
<1>2. fs \in SUBSET fs /\ fs \notin Wrong
  BY <1>1
<1>3. QED BY <1>2

-----------------------------------------------------------------------------
(* Once each.  For any number of processes, with promotions, unguarded     *)
(* approvals and a failing database: a fill is filed under one id only.    *)
(* The reconciler looks for the row of an order when no row of that order  *)
(* can still be on its way to the table, since whoever submits an order    *)
(* that will get a row keeps the loop from running.                        *)

\* Manual exits wait for the loop, as the lease makes them do, or there are
\* none; and where a living leader can lose the lock, or a strategy decides
\* again on a bar it has traded, there is one process, in the latter case with no
\* other exit than the square-off.
NoClosing == "flatten" \notin Features
InTurns   == /\ Deployment = "leader" => NoClosing
             /\ "loss" \in Features => Alone
             /\ "again" \in Features => Alone /\ Answering /\ NoClosing

Sends(a) == calls[a].pc \in {"submit", "persist", "write"}
Busy(a)  == ~At(a, "idle") /\ calls[a].kind # "approve"
Sent(a)  == oms[calls[a].proc][calls[a].order]

\* The broker id b is on its way to a row of the order table.
Pending(b) == \E a \in Actors :
                /\ Busy(a)
                /\ \/ At(a, "submit") /\ calls[a].bid = b
                   \/ calls[a].pc \in {"persist", "write"} /\ Sent(a).bid = b

CallTyped(a) ==
  /\ DOMAIN calls[a] = Fields
  /\ calls[a].open \subseteq OpenRow /\ calls[a].report \subseteq BrokerIds
  /\ calls[a].status \in Status /\ calls[a].bid \in BrokerIds \cup {NoBid}
  /\ Sends(a) \/ At(a, "update") => calls[a].order \in Orders
Typed ==
  /\ Shape
  /\ rows \in [Orders -> Row] /\ stored \subseteq Fill
  /\ oms \in [Processes -> [Orders -> Row]]
  /\ DOMAIN exchange = BrokerIds
  /\ \A b \in BrokerIds : /\ DOMAIN exchange[b] = {"status", "order", "lots"}
                          /\ exchange[b].status \in Status \cup {"SENT"}
  /\ \A a \in Actors : CallTyped(a)

\* One actor at a time does what the loop or a manual exit does.
TurnOf(a) ==
  /\ ~At(a, "idle") => calls[a].proc \in up
  /\ a \in Processes => calls[a].proc = a /\ calls[a].kind # "approve"
  /\ a \in Clicks /\ ~Sends(a) => At(a, "idle") \/ (At(a, "checking") /\ ~NoClosing)
  /\ calls[a].kind = "approve" => calls[a].pc = "submit"
  /\ Busy(a) /\ Deployment = "leader" => a \in Processes /\ (leader = a \/ Alone)
Turns ==
  /\ \A a \in Actors : TurnOf(a)
  /\ \A a, c \in Actors : Busy(a) /\ Busy(c) => a = c

\* A platform id is being submitted by one actor, and not when a fill is filed
\* under it; and a broker id is known only as that of its order.
Untold(o) == \A f \in stored : f.as # o
SubmissionOf(a) ==
  /\ Sent(a).status # "ABSENT"
  /\ \A c \in Actors : Sends(c) /\ calls[c].order = calls[a].order => a = c
  /\ Busy(a) => Untold(calls[a].order)
  /\ At(a, "submit") => /\ Sent(a).bid = NoBid
                        /\ calls[a].bid \in BrokerIds /\ Placed(calls[a].bid)
                        /\ exchange[calls[a].bid].order = calls[a].order
Known(row, o) == row.bid # NoBid => /\ Placed(row.bid) /\ ~OnItsWay(row.bid)
                                    /\ exchange[row.bid].order = o
OneOrderEach ==
  /\ \A a \in Actors : Sends(a) => SubmissionOf(a)
  /\ \A o \in Orders : /\ Known(rows[o], o)
                       /\ rows[o].status = "ABSENT" => rows[o].bid = NoBid
  /\ \A p \in Processes, o \in Orders : Known(oms[p][o], o)

\* A stored fill is one of the exchange, filed under the id that would be found
\* for it again.
Filled(b) == exchange[b].status = "FILLED"
Filed(f)  == Filled(f.fill) /\ ~Pending(f.fill) /\ f.as = Attribution(f.fill)
FiledOnce == /\ \A f \in stored : Filed(f)
             /\ IsFiniteSet(stored)
             /\ \A p \in Processes : portfolio[p] \subseteq stored

\* What a reconciler carries from one await to the next still holds.
Adopts(p) == /\ calls[p].bid \in BrokerIds /\ Filled(calls[p].bid)
             /\ Adopting(p) = [fill |-> calls[p].bid, as |-> Attribution(calls[p].bid)]
Reads(p)  == \A r \in calls[p].open :
               /\ rows[r.order].status = r.status /\ rows[r.order].bid = r.bid
               /\ r.status \notin Terminal \cup {"ABSENT"}
Holding(p) ==
  /\ calls[p].pc \in {"fills", "append", "fold"} => \A b \in calls[p].report : Filled(b)
  /\ calls[p].pc \in {"append", "fold"} => Adopts(p)
  /\ At(p, "fold") => Adopting(p) \in stored
  /\ calls[p].pc \in {"orders", "update"} => Reads(p)
  /\ At(p, "update") => /\ rows[calls[p].order].status \notin Terminal \cup {"ABSENT"}
                        /\ rows[calls[p].order].bid = calls[p].bid
                        /\ calls[p].status # "ABSENT"
                        /\ \A r \in calls[p].open : r.order # calls[p].order

OnceInv == /\ Typed /\ Turns /\ OneOrderEach /\ FiledOnce
           /\ \A p \in Processes : Holding(p)

LEMMA IdleCall ==
  \A p : /\ DOMAIN Idle(p) = Fields /\ Idle(p).pc = "idle" /\ Idle(p).proc = p
         /\ Idle(p).kind = "bar" /\ Idle(p).open = {} /\ Idle(p).report = {}
         /\ Idle(p).status \in Status /\ Idle(p).bid = NoBid
BY DEF Idle, Fields, Status

LEMMA OnceInit == Init => OnceInv
<1> SUFFICES ASSUME Init PROVE OnceInv
  OBVIOUS
<1>1. Shape /\ \A p \in Processes : calls[p].proc = p
  BY WholeInit DEF Whole
<1>2. ASSUME NEW a \in Actors
      PROVE  /\ CallTyped(a) /\ calls[a].pc = "idle" /\ calls[a].kind = "bar"
  <2> DEFINE home(x) == CHOOSE p \in Processes : x \in Processes => p = x
  <2>1. calls = [x \in Actors |-> Idle(home(x))]
    BY DEF Init
  <2> HIDE DEF home
  <2>2. QED BY <2>1, IdleCall DEF CallTyped, Sends, At
<1>3. Absent \in Row /\ Absent.status = "ABSENT" /\ Absent.bid = NoBid /\ "ABSENT" \in Status
  BY DEF Absent, Row, Status
<1>4. Typed
  BY <1>1, <1>2, <1>3 DEF Typed, Init
<1>5. Turns
  BY <1>1, <1>2 DEF Turns, TurnOf, Busy, At
<1>6. OneOrderEach
  BY <1>2, <1>3 DEF OneOrderEach, Sends, Init, Placed, Known
<1>7. FiledOnce
  BY FS_EmptySet DEF FiledOnce, Init
<1>8. \A p \in Processes : Holding(p)
  BY <1>2 DEF Holding, At, Actors
<1>9. QED BY <1>4, <1>5, <1>6, <1>7, <1>8 DEF OnceInv

LEMMA SoleTurn ==
  ASSUME Turns, NEW a \in Actors, Busy(a), NEW p \in Processes, p # a
  PROVE  At(p, "idle")
BY DEF Turns, TurnOf, Busy, Actors

LEMMA SameAttribution ==
  ASSUME OneOrderEach, NEW b \in BrokerIds, \A o \in Orders : rows'[o].bid = b <=> rows[o].bid = b
  PROVE  Attribution(b)' = Attribution(b)
<1>1. ASSUME NEW o \in Orders, NEW q \in Orders, rows[o].bid = b, rows[q].bid = b PROVE o = q
  BY <1>1, IdsAssumption DEF OneOrderEach, Known
<1>2. CASE \E o \in Orders : rows[o].bid = b
  <2> DEFINE now == CHOOSE o \in Orders : rows[o].bid = b
             then == CHOOSE o \in Orders : rows'[o].bid = b
  <2>1. now \in Orders /\ rows[now].bid = b
    BY <1>2
  <2>2. then \in Orders /\ rows'[then].bid = b
    BY <1>2
  <2>3. Attribution(b) = now /\ Attribution(b)' = then
    BY <1>2 DEF Attribution
  <2> HIDE DEF now, then
  <2>4. QED BY <1>1, <2>1, <2>2, <2>3
<1>3. CASE ~\E o \in Orders : rows[o].bid = b
  BY <1>3 DEF Attribution
<1>4. QED BY <1>2, <1>3

\* What a process holds stands while the rows and the table do.
LEMMA HoldingStands ==
  ASSUME Typed, OneOrderEach, NEW p \in Processes, Holding(p), calls'[p] = calls[p],
         rows' = rows, stored' = stored, \A b \in BrokerIds : Filled(b) => Filled(b)'
  PROVE  Holding(p)'
<1>1. p \in Actors /\ calls[p].report \subseteq BrokerIds
  BY DEF Typed, CallTyped, Actors
<1>2. \A b \in BrokerIds : Attribution(b)' = Attribution(b)
  BY SameAttribution
<1>3. Adopting(p)' = Adopting(p)
  BY DEF Adopting
<1>4. QED BY <1>1, <1>2, <1>3 DEF Holding, Adopts, Reads, At

LEMMA HoldsNothing ==
  ASSUME NEW p, calls'[p].pc \notin {"fills", "append", "fold", "orders", "update"}
  PROVE  Holding(p)'
BY DEF Holding, At

\* An await of the loop or of a manual exit, that changes the call alone.
Strolls(a) ==
  /\ UNCHANGED <<rows, stored, exchange, up, leader, oms, portfolio>>
  /\ DOMAIN calls' = Actors /\ \A x \in Actors : x # a => calls'[x] = calls[x]
  /\ ~Sends(a) /\ ~Sends(a)'
\* It goes on, or it begins when it may.
Continues(a) == Busy(a)' => \/ Busy(a)
                            \/ MayAct(a) /\ a \in Processes
                            \/ MayAct(calls'[a].proc) /\ Deployment = "lease"

LEMMA TurnsGoOn ==
  ASSUME Turns, NEW a \in Actors, \A x \in Actors : x # a => calls'[x] = calls[x],
         up' = up, leader' = leader, TurnOf(a)', Continues(a)
  PROVE  Turns'
<1>1. ASSUME NEW x \in Actors, x # a PROVE TurnOf(x)' /\ Busy(x)' = Busy(x)
  BY <1>1 DEF Turns, TurnOf, Busy, Sends, At
<1>2. ASSUME NEW x \in Actors, x # a, Busy(x), Busy(a)' PROVE FALSE
  <2>1. CASE Busy(a)
    BY <1>2, <2>1 DEF Turns
  <2>2. CASE Deployment = "leader" /\ leader = a /\ a \in Processes
    <3>1. x \in Processes /\ (leader = x \/ Alone)
      BY <1>2, <2>2 DEF Turns, TurnOf
    <3>2. QED BY <1>2, <2>2, <3>1 DEF Alone
  <2>3. CASE Deployment = "lease" /\ \A c \in Actors : At(c, "idle")
    BY <1>2, <2>3 DEF Busy
  <2>4. QED BY <1>2, <2>1, <2>2, <2>3, DeploymentAssumption DEF Continues, MayAct
<1>3. QED BY <1>1, <1>2 DEF Turns

LEMMA StrollKeeps ==
  ASSUME OnceInv, NEW a \in Actors, Strolls(a), Continues(a), CallTyped(a)', TurnOf(a)',
         a \in Processes => Holding(a)'
  PROVE  OnceInv'
<1> USE DEF OnceInv
<1>1. \A x \in Actors : x # a => calls'[x] = calls[x]
  BY DEF Strolls
<1>2. Shape'
  BY DEF Typed, Shape, CallTyped, Strolls
<1>3. Typed'
  <2>1. \A x \in Actors : CallTyped(x)'
    BY <1>1 DEF Typed, CallTyped, Sends, At
  <2>2. QED BY <1>2, <2>1 DEF Typed, Strolls
<1>4. Turns'
  BY <1>1, TurnsGoOn DEF Strolls
<1>5. \A x \in Actors : /\ Sends(x)' = Sends(x)
                        /\ Sends(x) => calls'[x] = calls[x] /\ Sent(x)' = Sent(x)
  BY <1>1 DEF Strolls, Sends, Sent
<1>6. OneOrderEach'
  <2>1. ASSUME NEW x \in Actors, Sends(x) PROVE SubmissionOf(x)'
    <3>1. SubmissionOf(x)
      BY <2>1 DEF OneOrderEach
    <3>2. QED BY <1>5, <2>1, <3>1 DEF SubmissionOf, Strolls, At, Placed, Busy, Untold
  <2>2. QED BY <1>5, <2>1 DEF OneOrderEach, Strolls, Placed, OnItsWay, Known
<1>7. FiledOnce'
  <2>1. ASSUME NEW f \in stored PROVE Filed(f)'
    <3>1. Filed(f) /\ f.fill \in BrokerIds
      BY DEF FiledOnce, Typed, Fill
    <3>2. Attribution(f.fill)' = Attribution(f.fill)
      BY <3>1, SameAttribution DEF Strolls
    <3>3. ~Pending(f.fill)'
      BY <1>5, <3>1 DEF Filed, Pending, Sends, Busy, At
    <3>4. QED BY <3>1, <3>2, <3>3 DEF Filed, Filled, Strolls
  <2>2. QED BY <2>1 DEF FiledOnce, Strolls
<1>8. \A p \in Processes : Holding(p)'
  BY <1>1, HoldingStands DEF Strolls, Filled, Actors
<1>9. QED BY <1>3, <1>4, <1>6, <1>7, <1>8

\* The awaits of the loop.
LEMMA LoopCall ==
  ASSUME OnceInv, NEW p \in Processes, ~At(p, "idle"), ~Sends(p)
  PROVE  /\ p \in Actors /\ Busy(p) /\ p \in up /\ calls[p].proc = p /\ calls[p].kind # "approve"
         /\ CallTyped(p) /\ DOMAIN calls = Actors
         /\ Deployment = "leader" => leader = p \/ Alone
BY DEF OnceInv, Turns, TurnOf, Busy, Actors, Typed, Shape

LEMMA LoopGoes ==
  ASSUME OnceInv, NEW p \in Processes, ~At(p, "idle"), ~Sends(p),
         NEW pc, pc \in {"idle", "bars", "fills", "orders", "fold"},
         Goto(p, pc) \/ (pc = "idle" /\ Finish(p)), up' = up, leader' = leader
  PROVE  /\ CallTyped(p)' /\ TurnOf(p)' /\ ~Sends(p)' /\ Continues(p)
         /\ DOMAIN calls' = Actors /\ \A x \in Actors : x # p => calls'[x] = calls[x]
         /\ calls'[p].pc = pc
         /\ Goto(p, pc) => calls'[p].open = calls[p].open /\ calls'[p].report = calls[p].report
<1>1. /\ p \in Actors /\ Busy(p) /\ p \in up /\ calls[p].proc = p /\ calls[p].kind # "approve"
      /\ CallTyped(p) /\ DOMAIN calls = Actors /\ (Deployment = "leader" => leader = p \/ Alone)
  BY LoopCall
<1>2. p \notin Clicks
  BY IdsAssumption
<1>3. CASE Goto(p, pc)
  <2>1. calls'[p] = [calls[p] EXCEPT !.pc = pc] /\ \A x \in Actors : x # p => calls'[x] = calls[x]
    BY <1>1, <1>3 DEF Goto
  <2>2. DOMAIN calls' = Actors
    BY <1>1, <1>3 DEF Goto
  <2>3. QED
    BY <1>1, <1>2, <2>1, <2>2 DEF CallTyped, Fields, TurnOf, Sends, At, Busy, Continues
<1>4. CASE pc = "idle" /\ ~Goto(p, pc) /\ Finish(p)
  <2>1. calls'[p] = Idle(p) /\ \A x \in Actors : x # p => calls'[x] = calls[x]
    BY <1>1, <1>4 DEF Finish
  <2>2. DOMAIN calls' = Actors
    BY <1>1, <1>4 DEF Finish
  <2>3. QED
    BY <1>1, <1>2, <1>4, <2>1, <2>2, IdleCall DEF CallTyped, TurnOf, Sends, At, Busy, Continues
<1>5. QED BY <1>3, <1>4

LEMMA LoopStrolls ==
  ASSUME OnceInv, NEW p \in Processes, Strolls(p), CallTyped(p)', TurnOf(p)', Continues(p),
         calls'[p].pc \in {"idle", "bars", "findOpen", "mark"} \/ Holding(p)'
  PROVE  OnceInv'
<1>1. Holding(p)'
  BY HoldsNothing
<1>2. QED BY <1>1, StrollKeeps DEF Actors

\* A call that is where it was but for some of its fields.
LEMMA CallMoves ==
  ASSUME OnceInv, NEW p \in Processes, ~At(p, "idle"), ~Sends(p), up' = up, leader' = leader,
         DOMAIN calls'[p] = Fields, calls'[p].proc = calls[p].proc, calls'[p].kind = calls[p].kind,
         ~Sends(p)'
  PROVE  TurnOf(p)' /\ Continues(p)
<1>1. p \notin Clicks
  BY IdsAssumption
<1>2. QED BY <1>1, LoopCall DEF TurnOf, Busy, Sends, At, Continues

LEMMA ReconcilerStrolls ==
  ASSUME OnceInv, NEW p \in Processes,
         \/ FindOpen(p) \/ SkipOrder(p) \/ AskOrder(p) \/ GetFills(p)
         \/ \E b \in BrokerIds : MatchFill(p, b)
  PROVE  OnceInv'
<1>1. ~At(p, "idle") /\ ~Sends(p)
  BY DEF FindOpen, SkipOrder, AskOrder, GetFills, MatchFill, At, Sends
<1>2. /\ p \in Actors /\ CallTyped(p) /\ DOMAIN calls = Actors /\ DOMAIN calls[p] = Fields
      /\ Holding(p) /\ Typed /\ OneOrderEach
  BY <1>1, LoopCall DEF OnceInv, CallTyped
<1> USE DEF db, who, memory
<1>3. CASE FindOpen(p)
  <2>1. calls' = [calls EXCEPT ![p].pc = "orders", ![p].open = OpenRows]
    BY <1>3 DEF FindOpen
  <2>2. calls'[p] = [calls[p] EXCEPT !.pc = "orders", !.open = OpenRows]
    BY <1>2, <2>1
  <2>3. \A r \in OpenRows : /\ r \in OpenRow /\ r.status \notin Terminal \cup {"ABSENT"}
                            /\ rows[r.order].status = r.status /\ rows[r.order].bid = r.bid
    <3>1. ASSUME NEW r \in OpenRows
          PROVE  /\ r \in OpenRow /\ r.status \notin Terminal \cup {"ABSENT"}
                 /\ rows[r.order].status = r.status /\ rows[r.order].bid = r.bid
      <4>1. PICK o \in Orders : /\ rows[o].status \notin Terminal \cup {"ABSENT"}
                                /\ r = [order |-> o, status |-> rows[o].status, bid |-> rows[o].bid]
        BY DEF OpenRows
      <4>2. rows[o] \in Row
        BY <1>2 DEF Typed
      <4>3. QED BY <4>1, <4>2 DEF OpenRow, Row
    <3>2. QED BY <3>1
  <2>4. Strolls(p)
    BY <1>1, <1>2, <1>3, <2>1, <2>2 DEF FindOpen, Strolls, Sends, Fields
  <2>5. CallTyped(p)' /\ DOMAIN calls'[p] = Fields
    BY <1>2, <2>2, <2>3 DEF CallTyped, Fields, Sends, At
  <2>6. TurnOf(p)' /\ Continues(p)
    BY <1>1, <1>2, <1>3, <2>2, <2>4, <2>5, CallMoves DEF FindOpen, Fields, Strolls
  <2>7. Holding(p)'
    BY <1>2, <1>3, <2>2, <2>3 DEF FindOpen, Holding, Reads, At, Fields
  <2>8. QED BY <2>4, <2>5, <2>6, <2>7, LoopStrolls
<1>4. CASE SkipOrder(p)
  <2>1. PICK r \in calls[p].open : calls' = [calls EXCEPT ![p].open = @ \ {r}]
    BY <1>4 DEF SkipOrder
  <2>2. calls'[p] = [calls[p] EXCEPT !.open = calls[p].open \ {r}]
    BY <1>2, <2>1
  <2>4. Strolls(p)
    BY <1>1, <1>2, <1>4, <2>1, <2>2 DEF SkipOrder, Strolls, Sends, Fields
  <2>5. CallTyped(p)' /\ DOMAIN calls'[p] = Fields
    BY <1>2, <2>2 DEF CallTyped, Fields, Sends, At
  <2>6. TurnOf(p)' /\ Continues(p)
    BY <1>1, <1>2, <1>4, <2>2, <2>4, <2>5, CallMoves DEF SkipOrder, Fields, Strolls
  <2>7. Holding(p)'
    BY <1>2, <1>4, <2>2 DEF SkipOrder, Holding, Reads, At, Fields
  <2>8. QED BY <2>4, <2>5, <2>6, <2>7, LoopStrolls
<1>5. CASE AskOrder(p)
  <2> DEFINE next(r) == IF exchange[r.bid].status = r.status
                        THEN [calls[p] EXCEPT !.open = calls[p].open \ {r}]
                        ELSE [calls[p] EXCEPT !.open = calls[p].open \ {r}, !.pc = "update",
                                !.order = r.order, !.bid = r.bid, !.status = exchange[r.bid].status]
  <2>1. PICK r \in calls[p].open : r.bid # NoBid /\ calls' = [calls EXCEPT ![p] = next(r)]
    BY <1>5 DEF AskOrder
  <2> HIDE DEF next
  <2>0. calls'[p] = next(r)
    BY <1>2, <2>1
  <2>2. calls'[p] = IF exchange[r.bid].status = r.status
                    THEN [calls[p] EXCEPT !.open = calls[p].open \ {r}]
                    ELSE [calls[p] EXCEPT !.open = calls[p].open \ {r}, !.pc = "update",
                            !.order = r.order, !.bid = r.bid, !.status = exchange[r.bid].status]
    BY <2>0 DEF next
  <2>3. r \in OpenRow /\ r.order \in Orders /\ r.bid \in BrokerIds /\ exchange[r.bid].status \in Status
    <3>1. r \in OpenRow /\ r.order \in Orders /\ r.bid \in BrokerIds
      BY <1>2, <2>1 DEF CallTyped, OpenRow
    <3>2. rows[r.order].bid = r.bid
      BY <1>2, <1>5, <2>1 DEF AskOrder, Holding, Reads, At
    <3>3. QED BY <1>2, <2>1, <3>1, <3>2 DEF OneOrderEach, Known, OnItsWay, Typed
  <2>4. Strolls(p)
    BY <1>1, <1>2, <1>5, <2>1, <2>2 DEF AskOrder, Strolls, Sends, Fields, At
  <2>5. CallTyped(p)' /\ DOMAIN calls'[p] = Fields
    <3>1. calls'[p].open \subseteq calls[p].open /\ calls'[p].report = calls[p].report
          /\ DOMAIN calls'[p] = Fields
      BY <1>2, <2>2 DEF Fields
    <3>2. calls'[p].status \in Status /\ calls'[p].bid \in BrokerIds \cup {NoBid}
      BY <1>2, <2>2, <2>3 DEF Fields, CallTyped
    <3>3. At(p, "update")' => calls'[p].order \in Orders
      BY <1>2, <1>5, <2>2, <2>3 DEF Fields, At, AskOrder
    <3>4. QED BY <1>2, <2>4, <3>1, <3>2, <3>3 DEF CallTyped, Strolls
  <2>6. TurnOf(p)' /\ Continues(p)
    BY <1>1, <1>2, <1>5, <2>2, <2>4, <2>5, CallMoves, ZenonT(60) DEF AskOrder, Fields, Strolls
  <2>7. Holding(p)'
    <3>1. At(p, "orders") /\ Reads(p)
      BY <1>2, <1>5 DEF AskOrder, Holding, At
    <3>2. rows' = rows
      BY <1>5 DEF AskOrder
    <3>3. \A s \in calls[p].open : s.order = r.order => s = r
      BY <1>2, <2>1, <3>1 DEF Reads, CallTyped, OpenRow
    <3>4. CASE exchange[r.bid].status = r.status
      BY <1>2, <2>2, <3>1, <3>2, <3>4 DEF Holding, Reads, At, Fields
    <3>5. CASE exchange[r.bid].status # r.status
      <4>1. /\ calls'[p].open = calls[p].open \ {r} /\ calls'[p].pc = "update"
            /\ calls'[p].order = r.order /\ calls'[p].bid = r.bid
            /\ calls'[p].status = exchange[r.bid].status
        BY <1>2, <2>2, <3>5 DEF Fields
      <4>2. exchange[r.bid].status # "ABSENT"
        BY <1>2, <2>1, <2>3, <3>1 DEF Reads, OneOrderEach, Known, Placed
      <4>3. QED BY <2>1, <3>1, <3>2, <3>3, <4>1, <4>2 DEF Holding, Reads, At
    <3>6. QED BY <3>4, <3>5
  <2>8. QED BY <2>4, <2>5, <2>6, <2>7, LoopStrolls
<1>6. CASE GetFills(p)
  <2>1. calls' = [calls EXCEPT ![p].pc = "fills", ![p].report = Traded]
    BY <1>6 DEF GetFills
  <2>2. calls'[p] = [calls[p] EXCEPT !.pc = "fills", !.report = Traded]
    BY <1>2, <2>1
  <2>4. Strolls(p)
    BY <1>1, <1>2, <1>6, <2>1, <2>2 DEF GetFills, Strolls, Sends, Fields
  <2>5. CallTyped(p)' /\ DOMAIN calls'[p] = Fields
    BY <1>2, <2>2 DEF CallTyped, Fields, Sends, At, Traded
  <2>6. TurnOf(p)' /\ Continues(p)
    BY <1>1, <1>2, <1>6, <2>2, <2>4, <2>5, CallMoves DEF GetFills, Fields, Strolls
  <2>7. Holding(p)'
    BY <1>2, <1>6, <2>2 DEF GetFills, Holding, At, Fields, Traded, Filled
  <2>8. QED BY <2>4, <2>5, <2>6, <2>7, LoopStrolls
<1>7. ASSUME NEW b \in BrokerIds, MatchFill(p, b) PROVE OnceInv'
  <2> DEFINE as   == Attribution(b)
             next == [calls[p] EXCEPT !.pc = "append", !.bid = b,
                        !.report = calls[p].report \ {b}, !.found = as # b,
                        !.order = IF as # b THEN as ELSE AnyOrder]
  <2>1. calls' = [calls EXCEPT ![p] = next]
    BY <1>7, ZenonT(60) DEF MatchFill
  <2> HIDE DEF next
  <2>0. calls'[p] = next
    BY <1>2, <2>1
  <2>2. calls'[p] = [calls[p] EXCEPT !.pc = "append", !.bid = b,
                       !.report = calls[p].report \ {b}, !.found = as # b,
                       !.order = IF as # b THEN as ELSE AnyOrder]
    BY <2>0 DEF next
  <2>3. Attribution(b)' = as
    BY <1>2, <1>7, SameAttribution DEF MatchFill
  <2> HIDE DEF as
  <2>4. Strolls(p)
    BY <1>1, <1>2, <1>7, <2>1, <2>2, ZenonT(60) DEF MatchFill, Strolls, Sends, Fields
  <2>5. CallTyped(p)' /\ DOMAIN calls'[p] = Fields
    BY <1>2, <2>2 DEF CallTyped, Fields, Sends, At
  <2>6. TurnOf(p)' /\ Continues(p)
    BY <1>1, <1>2, <1>7, <2>2, <2>4, <2>5, CallMoves, ZenonT(60) DEF MatchFill, Fields, Strolls
  <2>7. Holding(p)'
    <3>1. \A x \in calls[p].report : Filled(x)
      BY <1>2, <1>7 DEF MatchFill, Holding, At
    <3>2. b \in calls[p].report /\ exchange' = exchange
      BY <1>7 DEF MatchFill
    <3>3. /\ calls'[p].pc = "append" /\ calls'[p].bid = b
          /\ calls'[p].report = calls[p].report \ {b}
          /\ calls'[p].found = (as # b) /\ calls'[p].order = (IF as # b THEN as ELSE AnyOrder)
      BY <1>2, <2>2 DEF Fields
    <3>4. Adopting(p)' = [fill |-> b, as |-> as]
      BY <3>3 DEF Adopting
    <3>5. QED BY <2>3, <3>1, <3>2, <3>3, <3>4 DEF Holding, Adopts, At, Filled
  <2>8. QED BY <2>4, <2>5, <2>6, <2>7, LoopStrolls
<1>8. QED BY <1>3, <1>4, <1>5, <1>6, <1>7

LEMMA LoopEnds ==
  ASSUME OnceInv, NEW p \in Processes,
         \/ GetFillsFails(p) \/ ReconcileDone(p) \/ TickThrows(p) \/ BarsQuiet(p)
         \/ SquareOffNothing(p) \/ MarkThrows(p)
  PROVE  OnceInv'
<1> USE DEF GetFillsFails, ReconcileDone, TickThrows, BarsQuiet, SquareOffNothing, MarkThrows
<1>1. ~At(p, "idle") /\ ~Sends(p)
  BY DEF At, Sends
<1>2. UNCHANGED <<rows, stored, exchange, up, leader, oms, portfolio>>
  BY DEF db, who, memory
<1>3. PICK pc \in {"idle", "bars"} : Goto(p, pc) \/ (pc = "idle" /\ Finish(p))
  OBVIOUS
<1>4. /\ CallTyped(p)' /\ TurnOf(p)' /\ ~Sends(p)' /\ Continues(p)
      /\ DOMAIN calls' = Actors /\ \A x \in Actors : x # p => calls'[x] = calls[x]
      /\ calls'[p].pc = pc
  BY <1>1, <1>2, <1>3, LoopGoes
<1>5. QED BY <1>1, <1>2, <1>4, LoopStrolls DEF Strolls

LEMMA LoopBegins ==
  ASSUME OnceInv, NEW p \in Processes, Tick(p) \/ SquareOffReads(p)
  PROVE  OnceInv'
<1> USE DEF db, who, memory
<1>1. /\ p \in Actors /\ p \notin Clicks /\ CallTyped(p) /\ DOMAIN calls = Actors
      /\ DOMAIN calls[p] = Fields /\ calls[p].proc = p /\ calls[p].kind # "approve"
  BY IdsAssumption DEF OnceInv, Typed, Turns, TurnOf, CallTyped, Shape, Actors
<1>2. CASE Tick(p)
  <2>1. PICK pc \in {"findOpen", "bars"} : calls' = [calls EXCEPT ![p].pc = pc]
    BY <1>2 DEF Tick, Goto
  <2>2. calls'[p] = [calls[p] EXCEPT !.pc = pc]
    BY <1>1, <2>1
  <2>3. Strolls(p) /\ CallTyped(p)'
    BY <1>1, <1>2, <2>1, <2>2 DEF Tick, Strolls, CallTyped, Sends, At, Fields
  <2>4. p \in up /\ MayAct(p)
    BY <1>2 DEF Tick
  <2>5. TurnOf(p)' /\ Continues(p)
    BY <1>1, <2>2, <2>3, <2>4 DEF TurnOf, Continues, MayAct, Sends, Busy, At, Fields, Strolls
  <2>6. QED BY <2>1, <2>2, <1>1, <2>3, <2>5, LoopStrolls DEF Fields
<1>3. CASE SquareOffReads(p)
  <2> DEFINE lots == -Position(p)
  <2>1. calls' = [calls EXCEPT ![p].pc = "mark", ![p].lots = lots]
    BY <1>3 DEF SquareOffReads
  <2> HIDE DEF lots
  <2>2. calls'[p] = [calls[p] EXCEPT !.pc = "mark", !.lots = lots]
    BY <1>1, <2>1
  <2>3. Strolls(p) /\ CallTyped(p)'
    BY <1>1, <1>3, <2>1, <2>2 DEF SquareOffReads, Strolls, CallTyped, Sends, At, Fields
  <2>4. ~At(p, "idle") /\ ~Sends(p)
    BY <1>3 DEF SquareOffReads, At, Sends
  <2>5. TurnOf(p)' /\ Continues(p)
    BY <1>1, <2>2, <2>3, <2>4, CallMoves DEF Fields, Strolls, CallTyped
  <2>6. QED BY <2>2, <1>1, <2>3, <2>5, LoopStrolls DEF Fields
<1>4. QED BY <1>2, <1>3

\* The awaits of the route that closes a position.
LEMMA ClickStrolls ==
  ASSUME OnceInv, InTurns, NEW c \in Clicks,
         FlattenRefused(c) \/ \E p \in Processes : Flatten(c, p)
  PROVE  OnceInv'
<1> USE DEF db, who, memory
<1>1. /\ c \in Actors /\ c \notin Processes /\ CallTyped(c) /\ DOMAIN calls = Actors
      /\ TurnOf(c)
  BY IdsAssumption DEF OnceInv, Typed, Turns, Shape, Actors
<1>2. CASE FlattenRefused(c)
  <2>1. calls' = [calls EXCEPT ![c] = Idle(calls[c].proc)] /\ calls'[c] = Idle(calls[c].proc)
    BY <1>1, <1>2 DEF FlattenRefused, Finish
  <2>2. Strolls(c) /\ CallTyped(c)'
    BY <1>1, <1>2, <2>1, IdleCall DEF FlattenRefused, Strolls, CallTyped, Sends, At
  <2>3. TurnOf(c)' /\ Continues(c)
    BY <1>1, <2>1, IdleCall DEF TurnOf, Continues, Busy, At
  <2>4. QED BY <1>1, <2>2, <2>3, StrollKeeps
<1>3. ASSUME NEW p \in Processes, Flatten(c, p) PROVE OnceInv'
  <2> DEFINE lots == -Position(p)
             next == [Idle(p) EXCEPT !.pc = "checking", !.lots = lots]
  <2>1. calls' = [calls EXCEPT ![c] = next]
    BY <1>3 DEF Flatten
  <2>2. /\ DOMAIN next = Fields /\ next.pc = "checking" /\ next.proc = p /\ next.kind = "bar"
        /\ next.open = {} /\ next.report = {} /\ next.status \in Status /\ next.bid = NoBid
    BY IdleCall DEF Fields
  <2> HIDE DEF next
  <2>3. calls'[c] = next
    BY <1>1, <2>1
  <2>4. Strolls(c) /\ CallTyped(c)'
    BY <1>1, <1>3, <2>1, <2>2, <2>3 DEF Flatten, Strolls, CallTyped, Sends, At
  <2>5. Deployment = "lease" /\ p \in up /\ MayAct(p)
    BY <1>3, DeploymentAssumption DEF Flatten, InTurns, NoClosing
  <2>6. TurnOf(c)' /\ Continues(c)
    BY <1>1, <1>3, <2>2, <2>3, <2>4, <2>5
       DEF TurnOf, Continues, Busy, Sends, At, Strolls, Flatten, NoClosing
  <2>7. QED BY <1>1, <2>4, <2>6, StrollKeeps
<1>4. QED BY <1>2, <1>3

\* The awaits of the loop that write a table or the portfolio: nobody else is
\* on the way to a row.
LEMMA LoopAlone ==
  ASSUME OnceInv, NEW p \in Processes, ~At(p, "idle"), ~Sends(p), ~Sends(p)',
         \A x \in Actors : x # p => calls'[x] = calls[x], oms' = oms
  PROVE  /\ \A b \in BrokerIds : ~Pending(b) /\ ~Pending(b)'
         /\ \A q \in Processes : q # p => Holding(q)'
         /\ \A x \in Actors : /\ Sends(x)' = Sends(x)
                              /\ Sends(x) => /\ calls'[x] = calls[x] /\ Sent(x)' = Sent(x)
                                             /\ ~Busy(x)
<1>1. p \in Actors /\ Busy(p)
  BY LoopCall
<1>2. \A x \in Actors : /\ Sends(x)' = Sends(x)
                        /\ Sends(x) => x # p /\ calls'[x] = calls[x] /\ Sent(x)' = Sent(x)
  BY DEF Sends, Sent
<1>3. ASSUME NEW x \in Actors, Sends(x) PROVE ~Busy(x)
  BY <1>1, <1>2, <1>3 DEF OnceInv, Turns
<1>4. \A b \in BrokerIds : ~Pending(b) /\ ~Pending(b)'
  BY <1>2, <1>3 DEF Pending, Sends, Busy, At
<1>5. ASSUME NEW q \in Processes, q # p PROVE Holding(q)'
  <2>1. calls[q].pc = "idle"
    BY <1>1, <1>5, SoleTurn DEF OnceInv, At
  <2>2. q \in Actors /\ calls'[q] = calls[q]
    BY <1>5 DEF Actors
  <2>3. QED BY <2>1, <2>2, HoldsNothing
<1>6. QED BY <1>2, <1>3, <1>4, <1>5

\* Where the rows stay as they are, so does what is known of every order.
LEMMA OrdersStand ==
  ASSUME OneOrderEach, rows' = rows, exchange' = exchange, oms' = oms,
         \A x \in Actors : /\ Sends(x)' = Sends(x)
                           /\ Sends(x) => /\ calls'[x] = calls[x] /\ Sent(x)' = Sent(x)
                                          /\ ~Busy(x)
  PROVE  OneOrderEach'
<1>1. ASSUME NEW x \in Actors, Sends(x) PROVE SubmissionOf(x)'
  <2>1. SubmissionOf(x)
    BY <1>1 DEF OneOrderEach
  <2>2. QED BY <1>1, <2>1 DEF SubmissionOf, At, Placed, Busy
<1>2. QED BY <1>1 DEF OneOrderEach, Placed, OnItsWay, Known

LEMMA LoopTyped ==
  ASSUME Typed, NEW p \in Actors, CallTyped(p)', DOMAIN calls' = Actors,
         \A x \in Actors : x # p => calls'[x] = calls[x],
         rows' \in [Orders -> Row], stored' \subseteq Fill,
         oms' = oms, exchange' = exchange, up' = up, DOMAIN portfolio' = Processes
  PROVE  Typed'
<1>1. \A x \in Actors : CallTyped(x)'
  BY DEF Typed, CallTyped, Sends, At
<1>2. Shape'
  BY <1>1 DEF Typed, Shape, CallTyped
<1>3. QED BY <1>1, <1>2 DEF Typed

LEMMA UpdateOrderOnce ==
  ASSUME OnceInv, NEW p \in Processes, UpdateOrder(p)
  PROVE  OnceInv'
<1> DEFINE o == calls[p].order
           row == [status |-> calls[p].status, bid |-> calls[p].bid]
<1> USE DEF db, who, memory
<1>1. ~At(p, "idle") /\ ~Sends(p) /\ Goto(p, "orders")
  BY DEF UpdateOrder, At, Sends
<1>2. /\ CallTyped(p)' /\ TurnOf(p)' /\ ~Sends(p)' /\ Continues(p)
      /\ DOMAIN calls' = Actors /\ \A x \in Actors : x # p => calls'[x] = calls[x]
      /\ calls'[p].pc = "orders" /\ calls'[p].open = calls[p].open
  <2>1. up' = up /\ leader' = leader
    BY DEF UpdateOrder
  <2>2. QED BY <1>1, <2>1, LoopGoes
<1>3. /\ \A b \in BrokerIds : ~Pending(b) /\ ~Pending(b)'
      /\ \A q \in Processes : q # p => Holding(q)'
      /\ \A x \in Actors : /\ Sends(x)' = Sends(x)
                           /\ Sends(x) => /\ calls'[x] = calls[x] /\ Sent(x)' = Sent(x)
                                          /\ ~Busy(x)
  BY <1>1, <1>2, LoopAlone DEF UpdateOrder
<1>4. /\ At(p, "update") /\ o \in Orders /\ row \in Row /\ row.bid = calls[p].bid
      /\ row.status = calls[p].status /\ p \in Actors
  <2>1. p \in Actors /\ CallTyped(p) /\ At(p, "update")
    BY <1>1, LoopCall DEF UpdateOrder
  <2>2. QED BY <2>1 DEF CallTyped, Row
<1>5. /\ rows[o].status \notin Terminal \cup {"ABSENT"} /\ rows[o].bid = row.bid
      /\ row.status # "ABSENT" /\ \A r \in calls[p].open : r.order # o
      /\ Reads(p)
  BY <1>4 DEF OnceInv, Holding, At
<1> HIDE DEF o, row
<1>6. rows' = [rows EXCEPT ![o] = row] /\ rows \in [Orders -> Row]
  BY DEF UpdateOrder, OnceInv, Typed, o, row
<1>7. \A q \in Orders : rows'[q].bid = rows[q].bid /\ (q # o => rows'[q] = rows[q])
  BY <1>4, <1>5, <1>6
<1>8. UNCHANGED <<stored, exchange, up, leader, oms, portfolio>>
  BY DEF UpdateOrder
<1>9. Typed'
  <2>1. rows' \in [Orders -> Row]
    BY <1>4, <1>6
  <2>2. DOMAIN portfolio' = Processes /\ stored' \subseteq Fill /\ Typed
    BY <1>8 DEF OnceInv, Typed, Shape
  <2>3. QED BY <1>2, <1>4, <1>8, <2>1, <2>2, LoopTyped
<1>10. Turns'
  BY <1>2, <1>4, <1>8, TurnsGoOn DEF OnceInv
<1>11. OneOrderEach'
  <2>1. ASSUME NEW x \in Actors, Sends(x) PROVE SubmissionOf(x)'
    <3>1. SubmissionOf(x)
      BY <2>1 DEF OnceInv, OneOrderEach
    <3>2. QED BY <1>3, <1>8, <2>1, <3>1 DEF SubmissionOf, At, Placed, Busy
  <2>2. \A q \in Orders : Known(rows[q], q)' /\ (rows'[q].status = "ABSENT" => rows'[q].bid = NoBid)
    <3>1. \A q \in Orders : Known(rows[q], q) /\ (rows[q].status = "ABSENT" => rows[q].bid = NoBid)
      BY DEF OnceInv, OneOrderEach
    <3>2. rows'[o].status # "ABSENT"
      BY <1>4, <1>5, <1>6
    <3>3. QED BY <1>7, <1>8, <3>1, <3>2 DEF Known, Placed, OnItsWay
  <2>3. QED BY <1>3, <1>8, <2>1, <2>2 DEF OnceInv, OneOrderEach, Placed, OnItsWay, Known
<1>12. \A b \in BrokerIds : Attribution(b)' = Attribution(b)
  BY <1>7, SameAttribution DEF OnceInv
<1>13. FiledOnce'
  <2>1. ASSUME NEW f \in stored PROVE Filed(f)'
    <3>1. Filed(f) /\ f.fill \in BrokerIds
      BY DEF OnceInv, FiledOnce, Typed, Fill
    <3>2. QED BY <1>3, <1>8, <1>12, <3>1 DEF Filed, Filled
  <2>2. QED BY <1>8, <2>1 DEF OnceInv, FiledOnce
<1>14. Holding(p)'
  <2>1. Reads(p)'
    <3>1. \A r \in calls[p].open : r.order \in Orders
      BY <1>4 DEF OnceInv, Typed, CallTyped, OpenRow
    <3>2. QED BY <1>2, <1>5, <1>7, <3>1 DEF Reads
  <2>2. QED BY <1>2, <2>1 DEF Holding, At
<1>15. QED BY <1>3, <1>9, <1>10, <1>11, <1>13, <1>14 DEF OnceInv

LEMMA StoresOnce ==
  ASSUME OnceInv, NEW p \in Processes, AppendFill(p) \/ AppendThrows(p) \/ FoldFill(p)
  PROVE  OnceInv'
<1> USE DEF db, who, memory
<1>1. ~At(p, "idle") /\ ~Sends(p) /\ calls[p].pc \in {"append", "fold"}
  BY DEF AppendFill, AppendThrows, FoldFill, At, Sends
<1>2. UNCHANGED <<rows, exchange, up, leader, oms>>
  BY DEF AppendFill, AppendThrows, FoldFill
<1>3. PICK pc \in {"idle", "fills", "fold"} : Goto(p, pc) \/ (pc = "idle" /\ Finish(p))
  BY DEF AppendFill, AppendThrows, FoldFill
<1>4. /\ CallTyped(p)' /\ TurnOf(p)' /\ ~Sends(p)' /\ Continues(p)
      /\ DOMAIN calls' = Actors /\ \A x \in Actors : x # p => calls'[x] = calls[x]
      /\ calls'[p].pc = pc
  BY <1>1, <1>2, <1>3, LoopGoes
<1>5. /\ \A b \in BrokerIds : ~Pending(b) /\ ~Pending(b)'
      /\ \A q \in Processes : q # p => Holding(q)'
      /\ \A x \in Actors : /\ Sends(x)' = Sends(x)
                           /\ Sends(x) => /\ calls'[x] = calls[x] /\ Sent(x)' = Sent(x)
                                          /\ ~Busy(x)
  BY <1>1, <1>2, <1>4, LoopAlone
<1>6. /\ p \in Actors /\ CallTyped(p) /\ DOMAIN calls = Actors /\ DOMAIN calls[p] = Fields
      /\ Adopts(p) /\ (\A b \in calls[p].report : Filled(b))
  BY <1>1, LoopCall DEF OnceInv, Holding, CallTyped
<1>7. Adopting(p) \in Fill /\ Adopting(p).fill = calls[p].bid
      /\ Adopting(p).as = Attribution(calls[p].bid) /\ Filled(calls[p].bid) /\ calls[p].bid \in BrokerIds
  <2>1. Attribution(calls[p].bid) \in Orders \cup BrokerIds
    <3>1. CASE \E o \in Orders : rows[o].bid = calls[p].bid
      BY <3>1 DEF Attribution
    <3>2. CASE ~\E o \in Orders : rows[o].bid = calls[p].bid
      BY <1>6, <3>2 DEF Attribution, Adopts
    <3>3. QED BY <3>1, <3>2
  <2>2. QED BY <1>6, <2>1 DEF Adopts, Fill
<1>8. \A b \in BrokerIds : Attribution(b)' = Attribution(b)
  BY <1>2, SameAttribution DEF OnceInv
<1>9. stored' \in {stored, stored \cup {Adopting(p)}} /\ stored \subseteq stored'
  BY DEF AppendFill, AppendThrows, FoldFill
<1>10. /\ At(p, "fold") => Adopting(p) \in stored
       /\ \A q \in Processes : portfolio[q] \subseteq stored
  BY DEF OnceInv, Holding, FiledOnce
<1>11. DOMAIN portfolio' = Processes /\ \A q \in Processes : portfolio'[q] \subseteq stored'
  <2>1. DOMAIN portfolio = Processes
    BY DEF OnceInv, Typed, Shape
  <2>2. CASE FoldFill(p)
    BY <1>9, <1>10, <2>1, <2>2 DEF FoldFill
  <2>3. CASE AppendFill(p) \/ AppendThrows(p)
    BY <1>9, <1>10, <2>1, <2>3 DEF AppendFill, AppendThrows
  <2>4. QED BY <2>2, <2>3
<1>12. Typed'
  <2>1. stored' \subseteq Fill /\ Typed /\ rows' \in [Orders -> Row]
    BY <1>2, <1>7, <1>9 DEF OnceInv, Typed
  <2>2. QED BY <1>2, <1>4, <1>6, <1>11, <2>1, LoopTyped
<1>13. Turns'
  BY <1>2, <1>4, <1>6, TurnsGoOn DEF OnceInv
<1>14. OneOrderEach'
  BY <1>2, <1>5, OrdersStand DEF OnceInv
<1>15. FiledOnce'
  <2>1. ASSUME NEW f \in stored' PROVE Filed(f)'
    <3>1. f.fill \in BrokerIds /\ Filled(f.fill) /\ f.as = Attribution(f.fill)
      BY <1>7, <1>9 DEF OnceInv, FiledOnce, Filed, Typed, Fill
    <3>2. QED BY <1>2, <1>5, <1>8, <3>1 DEF Filed, Filled
  <2>2. IsFiniteSet(stored')
    BY <1>9, FS_AddElement DEF OnceInv, FiledOnce
  <2>3. QED BY <1>11, <2>1, <2>2 DEF FiledOnce
<1>16. Holding(p)'
  <2>1. CASE AppendFill(p)
    <3>1. calls' = [calls EXCEPT ![p].pc = pc]
      <4>1. Goto(p, "fold") \/ Goto(p, "fills")
        BY <2>1 DEF AppendFill
      <4>2. ASSUME NEW to, Goto(p, to) PROVE calls'[p].pc = to
        BY <1>6, <4>2 DEF Goto, Fields
      <4>3. QED BY <1>4, <4>1, <4>2 DEF Goto
    <3>2. calls'[p] = [calls[p] EXCEPT !.pc = pc]
      BY <1>6, <3>1
    <3>3. /\ calls'[p].bid = calls[p].bid /\ calls'[p].report = calls[p].report
          /\ Adopting(p)' = Adopting(p)
      BY <1>6, <3>2 DEF Fields, Adopting
    <3>4. Adopting(p) \in stored'
      BY <2>1 DEF AppendFill
    <3>5. QED BY <1>2, <1>4, <1>6, <1>8, <3>3, <3>4 DEF Holding, Adopts, Filled, At
  <2>2. CASE AppendThrows(p)
    <3>1. calls'[p].pc = "idle"
      BY <1>6, <2>2, IdleCall DEF AppendThrows, Finish
    <3>2. QED BY <3>1, HoldsNothing
  <2>3. CASE FoldFill(p)
    <3>1. calls' = [calls EXCEPT ![p].pc = "fills"]
      BY <2>3 DEF FoldFill, Goto
    <3>2. calls'[p].pc = "fills" /\ calls'[p].report = calls[p].report
      BY <1>6, <3>1 DEF Fields
    <3>3. QED BY <1>2, <1>6, <3>2 DEF Holding, Filled, At
  <2>4. QED BY <2>1, <2>2, <2>3
<1>17. QED BY <1>5, <1>12, <1>13, <1>14, <1>15, <1>16 DEF OnceInv

\* An order is sent under an id that nobody is sending, and one that will get a row
\* under an id that no fill is filed under.
LEMMA SendOnce ==
  ASSUME OnceInv, NEW a \in Actors, NEW p \in up, NEW o \in Orders, NEW lots,
         NEW kind \in {"bar", "exit", "approve"}, ~Sends(a), Send(a, p, kind, o, lots),
         \A x \in Actors : Sends(x) => calls[x].order # o,
         UNCHANGED <<rows, stored, up, leader, portfolio>>,
         a \in Processes => a = p /\ kind # "approve",
         kind # "approve" => Busy(a) /\ Untold(o)
  PROVE  OnceInv'
<1>0. PICK b \in BrokerIds :
        /\ ~Placed(b)
        /\ exchange' = [exchange EXCEPT ![b] = [status |-> "SENT", order |-> o, lots |-> lots]]
        /\ calls' = [calls EXCEPT ![a] = [Idle(p) EXCEPT !.pc = "submit", !.kind = kind,
                                                         !.order = o, !.bid = b]]
  BY DEF Send
<1> DEFINE new == [Idle(p) EXCEPT !.pc = "submit", !.kind = kind, !.order = o, !.bid = b]
           row == [status |-> "PENDING_NEW", bid |-> NoBid]
<1>1. DOMAIN calls = Actors /\ p \in Processes /\ oms \in [Processes -> [Orders -> Row]]
      /\ row \in Row
  BY DEF OnceInv, Typed, Shape, Row, Status
<1>2. /\ DOMAIN new = Fields /\ new.pc = "submit" /\ new.kind = kind /\ new.order = o
      /\ new.proc = p /\ new.open = {} /\ new.report = {} /\ new.status \in Status /\ new.bid = b
  BY IdleCall DEF Fields
<1>3. calls' = [calls EXCEPT ![a] = new] /\ oms' = [oms EXCEPT ![p][o] = row]
  BY <1>0 DEF Send
<1> HIDE DEF new
<1>4. calls'[a] = new /\ DOMAIN calls' = Actors /\ \A x \in Actors : x # a => calls'[x] = calls[x]
  BY <1>1, <1>3
<1>5. oms' \in [Processes -> [Orders -> Row]]
  BY <1>1, <1>3
<1>6. \A q \in Processes, r \in Orders : oms'[q][r] = IF q = p /\ r = o THEN row ELSE oms[q][r]
  BY <1>1, <1>3
<1>7. row.status = "PENDING_NEW" /\ row.bid = NoBid
  OBVIOUS
<1> HIDE DEF row
<1>8. /\ DOMAIN exchange' = BrokerIds /\ \A d \in BrokerIds : d # b => exchange'[d] = exchange[d]
      /\ DOMAIN exchange'[b] = {"status", "order", "lots"} /\ exchange'[b].status = "SENT"
      /\ exchange'[b].order = o
  BY <1>0 DEF OnceInv, Typed
<1>9. /\ \A d \in BrokerIds : Placed(d) => d # b /\ Placed(d)' /\ exchange'[d] = exchange[d]
      /\ Placed(b)'
      /\ \A d \in BrokerIds : Filled(d) => d # b /\ Filled(d)'
  BY <1>0, <1>8 DEF Placed, Filled
<1>10. CallTyped(a)'
  BY <1>2, <1>4 DEF CallTyped
<1>11. Typed'
  <2>1. \A x \in Actors : CallTyped(x)'
    BY <1>4, <1>10 DEF OnceInv, Typed, CallTyped, Sends, At
  <2>2. Shape'
    BY <1>2, <1>4 DEF OnceInv, Typed, Shape
  <2>3. \A d \in BrokerIds : /\ DOMAIN exchange'[d] = {"status", "order", "lots"}
                             /\ exchange'[d].status \in Status \cup {"SENT"}
    BY <1>8 DEF OnceInv, Typed
  <2>4. QED BY <1>5, <1>8, <2>1, <2>2, <2>3 DEF OnceInv, Typed
<1>12. Turns'
  <2>1. TurnOf(a)'
    BY <1>2, <1>4 DEF OnceInv, Turns, TurnOf, Sends, Busy, At
  <2>2. Continues(a)
    BY <1>2, <1>4 DEF Continues, Busy
  <2>3. QED BY <1>4, <2>1, <2>2, TurnsGoOn DEF OnceInv
<1>13. ASSUME NEW x \in Actors, Sends(x)
       PROVE  /\ x # a /\ calls'[x] = calls[x] /\ calls[x].proc \in Processes
              /\ calls[x].order \in Orders \ {o} /\ Sent(x)' = Sent(x) /\ Busy(x)' = Busy(x)
  <2>1. x # a /\ calls'[x] = calls[x]
    BY <1>4, <1>13
  <2>2. calls[x].proc \in Processes /\ calls[x].order \in Orders \ {o}
    BY <1>13 DEF OnceInv, Turns, TurnOf, Typed, CallTyped, Shape, Sends, At
  <2>3. QED BY <1>6, <2>1, <2>2 DEF Sent, Busy, At
<1>14. \A x \in Actors : Sends(x)' <=> (x = a \/ Sends(x))
  BY <1>2, <1>4 DEF Sends
<1>15. OneOrderEach'
  <2>1. ASSUME NEW x \in Actors, Sends(x) PROVE SubmissionOf(x)'
    <3>1. SubmissionOf(x)
      BY <2>1 DEF OnceInv, OneOrderEach
    <3>2. \A c \in Actors : Sends(c)' /\ calls'[c].order = calls'[x].order => x = c
      BY <1>2, <1>4, <1>13, <1>14, <2>1, <3>1 DEF SubmissionOf
    <3>3. Untold(calls[x].order)' = Untold(calls[x].order)
      BY <1>13, <2>1 DEF Untold
    <3>4. QED BY <1>9, <1>13, <2>1, <3>1, <3>2, <3>3 DEF SubmissionOf, At
  <2>2. SubmissionOf(a)'
    <3>1. Busy(a)' => Untold(o)'
      BY <1>2, <1>4 DEF Busy, Untold
    <3>2. Sent(a)' = row
      BY <1>1, <1>2, <1>4, <1>6 DEF Sent
    <3>3. \A c \in Actors : Sends(c)' /\ calls'[c].order = o => a = c
      BY <1>13, <1>14
    <3>4. QED BY <1>2, <1>4, <1>7, <1>8, <1>9, <3>1, <3>2, <3>3 DEF SubmissionOf, At
  <2>3. ASSUME NEW q \in Processes, NEW r \in Orders PROVE Known(oms[q][r], r)'
    <3>1. Known(oms[q][r], r) /\ oms[q][r] \in Row /\ oms'[q][r] \in Row
      BY <1>5 DEF OnceInv, OneOrderEach, Typed
    <3>2. QED BY <1>6, <1>7, <1>9, <3>1 DEF Known, OnItsWay, Row
  <2>4. ASSUME NEW r \in Orders PROVE Known(rows[r], r)'
    <3>1. Known(rows[r], r) /\ rows[r] \in Row
      BY DEF OnceInv, OneOrderEach, Typed
    <3>2. QED BY <1>9, <3>1 DEF Known, OnItsWay, Row
  <2>5. QED BY <1>14, <2>1, <2>2, <2>3, <2>4 DEF OnceInv, OneOrderEach
<1>16. FiledOnce'
  <2>1. ASSUME NEW f \in stored PROVE Filed(f)'
    <3>1. Filed(f) /\ f.fill \in BrokerIds
      BY DEF OnceInv, FiledOnce, Typed, Fill
    <3>2. Attribution(f.fill)' = Attribution(f.fill)
      BY <3>1, SameAttribution DEF OnceInv
    <3>3. ~Pending(f.fill)'
      <4>1. f.fill # b
        BY <1>9, <3>1 DEF Filed
      <4>2. ASSUME NEW x \in Actors, calls'[x].pc \in {"submit", "persist", "write"}, x # a
            PROVE  Sends(x)
        BY <1>4, <4>2 DEF Sends
      <4>3. QED BY <1>2, <1>4, <1>13, <3>1, <4>1, <4>2 DEF Filed, Pending, Busy, At
    <3>4. QED BY <1>9, <3>1, <3>2, <3>3 DEF Filed
  <2>2. QED BY <2>1 DEF OnceInv, FiledOnce
<1>17. \A q \in Processes : Holding(q)'
  <2>1. ASSUME NEW q \in Processes, q # a PROVE Holding(q)'
    BY <1>4, <1>9, <2>1, HoldingStands DEF OnceInv, Actors
  <2>2. Holding(a)'
    BY <1>2, <1>4, HoldsNothing
  <2>3. QED BY <2>1, <2>2
<1>18. QED BY <1>11, <1>12, <1>15, <1>16, <1>17 DEF OnceInv

\* Without manual exits every order is an entry of one lot until the square-off;
\* and where strategies may decide again, the portfolio is the fill table.
Entered   == NoClosing /\ ~squaredOff => \A b \in BrokerIds : Placed(b) => exchange[b].lots = 1
Settled   == "again" \in Features => Whole

\* An id that nobody has used is being sent by nobody, and no fill is filed under it.
LEMMA FreshIsFree ==
  ASSUME OnceInv, NEW o \in Orders, Fresh(o)
  PROVE  Untold(o) /\ \A x \in Actors : Sends(x) => calls[x].order # o
<1>1. ASSUME NEW f \in stored PROVE f.as # o
  <2>1. f.fill \in BrokerIds /\ f.as = Attribution(f.fill) /\ o \notin BrokerIds
    BY IdsAssumption DEF OnceInv, FiledOnce, Filed, Typed, Fill, Orders
  <2>2. rows[o].bid = NoBid
    BY DEF Fresh, OnceInv, OneOrderEach
  <2>3. CASE \E r \in Orders : rows[r].bid = f.fill
    BY <2>1, <2>2, <2>3, IdsAssumption DEF Attribution
  <2>4. QED BY <2>1, <2>3 DEF Attribution
<1>2. ASSUME NEW x \in Actors, Sends(x) PROVE calls[x].order # o
  BY <1>2 DEF OnceInv, OneOrderEach, SubmissionOf, Sent, Fresh, NewTo, Turns, TurnOf, Typed, Shape,
     Sends, At
<1>3. QED BY <1>1, <1>2 DEF Untold

\* With one process, its order manager knows what is being sent.
LEMMA NewIsFree ==
  ASSUME OnceInv, Alone, NEW p \in Processes, NEW o, NewTo(p, o)
  PROVE  \A x \in Actors : Sends(x) => calls[x].order # o
<1>1. ASSUME NEW x \in Actors, Sends(x) PROVE calls[x].order # o
  <2>1. calls[x].proc = p
    BY <1>1 DEF OnceInv, Turns, TurnOf, Typed, Shape, Sends, At, Alone
  <2>2. QED BY <1>1, <2>1 DEF OnceInv, OneOrderEach, SubmissionOf, Sent, NewTo
<1>2. QED BY <1>1

\* A strategy that finds the position flat has nothing in the fill table.
LEMMA FlatIsEmpty ==
  ASSUME OnceInv, Whole, Entered, NoClosing, ~squaredOff, NEW p \in Processes, At(p, "bars"), Position(p) = 0
  PROVE  stored = {}
<1> DEFINE v == [f \in stored |-> exchange[f.fill].lots]
<1>1. portfolio[p] = stored
  BY DEF Whole, BeingFolded, At
<1>2. Opening + Total(v, stored) = 0
  BY <1>1 DEF Position, Lots, Total
<1>3. \A f \in stored : v[f] = 1
  BY DEF Entered, OnceInv, FiledOnce, Filed, Filled, Placed, Typed, Fill
<1> HIDE DEF v
<1>4. SUFFICES ASSUME NEW f \in stored PROVE FALSE
  OBVIOUS
<1> DEFINE rest == stored \ {f}
<1>5. Total(v, stored) = v[f] + Total(v, rest)
  BY <1>3, TotalLess DEF OnceInv, FiledOnce
<1>6. IsFiniteSet(rest) /\ \A x \in rest : v[x] \in Int /\ v[x] >= 0
  BY <1>3, FS_Subset DEF OnceInv, FiledOnce
<1> HIDE DEF rest
<1>7. Total(v, {}) <= Total(v, rest) /\ Total(v, rest) \in Int /\ Total(v, {}) = 0
  BY <1>6, TotalGrows, TotalLess, TotalNone
<1>8. QED BY <1>2, <1>3, <1>5, <1>7, BoundsAssumption

LEMMA OrdersOnce ==
  ASSUME OnceInv, InTurns, Entered, Settled,
         \/ \E p \in Processes, o \in Orders : BarTrades(p, o) \/ SquareOffSends(p, o)
         \/ \E c \in Clicks, o \in Exits : FlattenSends(c, o)
         \/ \E c \in Clicks, p \in Processes, o \in Entries : Approve(c, p, o)
  PROVE  OnceInv'
<1> USE DEF db, who
<1>1. ASSUME NEW p \in Processes, NEW o \in Orders, BarTrades(p, o) \/ SquareOffSends(p, o)
      PROVE  OnceInv'
  <2>1. ~At(p, "idle") /\ ~Sends(p)
    BY <1>1 DEF BarTrades, SquareOffSends, At, Sends
  <2>2. p \in Actors /\ p \in up /\ Busy(p)
    BY <2>1, LoopCall
  <2>3. Untold(o) /\ \A x \in Actors : Sends(x) => calls[x].order # o
    <3>1. CASE Fresh(o)
      BY <3>1, FreshIsFree
    <3>2. CASE BarTrades(p, o) /\ "again" \in Features
      <4>1. Alone /\ NewTo(p, o) /\ stored = {}
        BY <3>2, FlatIsEmpty DEF BarTrades, InTurns, NoClosing, Settled
      <4>2. QED BY <4>1, NewIsFree DEF Untold
    <3>3. QED BY <1>1, <3>1, <3>2 DEF BarTrades, SquareOffSends, Decides
  <2>4. PICK kind \in {"bar", "exit"}, lots \in {1, calls[p].lots} : Send(p, p, kind, o, lots)
    BY <1>1 DEF BarTrades, SquareOffSends
  <2>5. UNCHANGED <<rows, stored, up, leader, portfolio>>
    BY <1>1 DEF BarTrades, SquareOffSends
  <2>6. QED BY <2>1, <2>2, <2>3, <2>4, <2>5, SendOnce
<1>2. ASSUME NEW c \in Clicks, NEW o \in Exits, FlattenSends(c, o) PROVE OnceInv'
  <2>1. c \in Actors /\ c \notin Processes /\ o \in Orders
    BY IdsAssumption DEF Actors, Orders
  <2>2. ~At(c, "idle") /\ ~Sends(c) /\ calls[c].kind # "approve" /\ calls[c].proc \in up
    BY <1>2, <2>1 DEF FlattenSends, At, Sends, OnceInv, Turns, TurnOf
  <2>3. Send(c, calls[c].proc, "exit", o, calls[c].lots)
    BY <1>2 DEF FlattenSends
  <2>4. Untold(o) /\ \A x \in Actors : Sends(x) => calls[x].order # o
    BY <1>2, <2>1, FreshIsFree DEF FlattenSends
  <2>5. UNCHANGED <<rows, stored, up, leader, portfolio>>
    BY <1>2 DEF FlattenSends
  <2>6. QED BY <2>1, <2>2, <2>3, <2>4, <2>5, SendOnce DEF Busy
<1>3. ASSUME NEW c \in Clicks, NEW p \in Processes, NEW o \in Entries, Approve(c, p, o)
      PROVE  OnceInv'
  <2>1. c \in Actors /\ c \notin Processes /\ o \in Orders
    BY IdsAssumption DEF Actors, Orders
  <2>2. ~Sends(c) /\ p \in up /\ Send(c, p, "approve", o, 1)
    BY <1>3 DEF Approve, At, Sends
  <2>3. \A x \in Actors : Sends(x) => calls[x].order # o
    <3>1. CASE Fresh(o)
      BY <2>1, <3>1, FreshIsFree
    <3>2. QED BY <1>3, <3>1, NewIsFree DEF Approve, Decides, InTurns
  <2>4. UNCHANGED <<rows, stored, up, leader, portfolio>>
    BY <1>3 DEF Approve
  <2>5. QED BY <2>1, <2>2, <2>3, <2>4, SendOnce
<1>4. QED BY <1>1, <1>2, <1>3

\* The awaits of a submission.
LEMMA SenderCall ==
  ASSUME OnceInv, NEW a \in Actors, Sends(a)
  PROVE  /\ calls[a].proc \in Processes /\ calls[a].proc \in up /\ calls[a].order \in Orders
         /\ CallTyped(a) /\ DOMAIN calls[a] = Fields /\ DOMAIN calls = Actors
         /\ SubmissionOf(a) /\ TurnOf(a)
         /\ \A x \in Actors : Sends(x) /\ x # a => calls[x].order # calls[a].order
BY DEF OnceInv, Turns, TurnOf, Typed, CallTyped, Shape, OneOrderEach, SubmissionOf, Sends, At

LEMMA SenderGoes ==
  ASSUME OnceInv, NEW a \in Actors, Sends(a), up' = up, leader' = leader,
         \/ Goto(a, "write") /\ calls[a].kind # "approve"
         \/ Goto(a, "persist") /\ calls[a].kind # "approve"
         \/ Finish(a)
  PROVE  /\ CallTyped(a)' /\ Turns' /\ DOMAIN calls' = Actors
         /\ \A x \in Actors : x # a => calls'[x] = calls[x]
         /\ \/ /\ calls'[a].pc \in {"persist", "write"}
               /\ \A f \in {"order", "proc", "bid", "kind"} : calls'[a][f] = calls[a][f]
            \/ calls'[a].pc = "idle"
<1>1. /\ calls[a].proc \in up /\ calls[a].order \in Orders /\ TurnOf(a)
      /\ CallTyped(a) /\ DOMAIN calls[a] = Fields /\ DOMAIN calls = Actors /\ ~At(a, "idle")
  BY SenderCall DEF Sends, At
<1>2. DOMAIN calls' = Actors /\ \A x \in Actors : x # a => calls'[x] = calls[x]
  BY <1>1 DEF Goto, Finish
<1>3. ASSUME NEW pc \in {"persist", "write"}, Goto(a, pc), calls[a].kind # "approve"
      PROVE  /\ CallTyped(a)' /\ TurnOf(a)' /\ Continues(a) /\ calls'[a].pc = pc
             /\ \A f \in {"order", "proc", "bid", "kind"} : calls'[a][f] = calls[a][f]
  <2>1. calls'[a] = [calls[a] EXCEPT !.pc = pc]
    BY <1>1, <1>3 DEF Goto
  <2>2. QED BY <1>1, <1>3, <2>1 DEF CallTyped, TurnOf, Continues, Busy, Sends, At, Fields
<1>4. CASE Finish(a)
  <2>1. calls'[a] = Idle(calls[a].proc)
    BY <1>1, <1>4 DEF Finish
  <2>2. CallTyped(a)' /\ TurnOf(a)' /\ Continues(a) /\ calls'[a].pc = "idle"
    BY <1>1, <2>1, IdleCall DEF CallTyped, TurnOf, Continues, Busy, Sends, At
  <2>3. QED BY <1>2, <2>2, TurnsGoOn DEF OnceInv
<1>5. CASE \E pc \in {"persist", "write"} : Goto(a, pc) /\ calls[a].kind # "approve"
  BY <1>2, <1>3, <1>5, TurnsGoOn DEF OnceInv
<1>6. QED BY <1>4, <1>5

\* What the exchange does to an order it was sent.
Advances == /\ DOMAIN exchange' = BrokerIds
            /\ \A b \in BrokerIds : /\ DOMAIN exchange'[b] = {"status", "order", "lots"}
                                    /\ exchange'[b].status \in Status \cup {"SENT"}
                                    /\ exchange'[b].order = exchange[b].order
                                    /\ Placed(b)' = Placed(b)
                                    /\ OnItsWay(b)' => OnItsWay(b)
                                    /\ Filled(b) => Filled(b)'

LEMMA StatusAdvances ==
  ASSUME OnceInv, \/ exchange' = exchange
                  \/ \E b \in BrokerIds, s \in Status \ {"ABSENT"} :
                       Placed(b) /\ ~Filled(b) /\ exchange' = [exchange EXCEPT ![b].status = s]
  PROVE  Advances
<1>1. /\ DOMAIN exchange = BrokerIds
      /\ \A b \in BrokerIds : /\ DOMAIN exchange[b] = {"status", "order", "lots"}
                              /\ exchange[b].status \in Status \cup {"SENT"}
  BY DEF OnceInv, Typed
<1>2. CASE exchange' = exchange
  BY <1>1, <1>2 DEF Advances, Placed, OnItsWay, Filled
<1>3. ASSUME NEW b \in BrokerIds, NEW s \in Status \ {"ABSENT"}, Placed(b), ~Filled(b),
             exchange' = [exchange EXCEPT ![b].status = s]
      PROVE  Advances
  <2>1. DOMAIN exchange' = BrokerIds /\ exchange'[b] = [exchange[b] EXCEPT !.status = s]
        /\ \A d \in BrokerIds : d # b => exchange'[d] = exchange[d]
    BY <1>1, <1>3
  <2>2. s # "SENT" /\ s # "ABSENT" /\ s \in Status
    BY DEF Status
  <2>3. QED BY <1>1, <1>3, <2>1, <2>2 DEF Advances, Placed, OnItsWay, Filled
<1>4. QED BY <1>2, <1>3

LEMMA AnswerOnce ==
  ASSUME OnceInv, NEW a \in Actors,
         \/ SubmitAcked(a) \/ SubmitRefused(a) \/ SubmitUncertain(a)
         \/ PersistFinds(a) \/ PersistFails(a)
  PROVE  OnceInv'
<1> USE DEF db, who, memory
<1> DEFINE o == calls[a].order
           q == calls[a].proc
<1>1. Sends(a) /\ ~At(a, "idle")
  BY DEF SubmitAcked, SubmitRefused, SubmitUncertain, PersistFinds, PersistFails, At, Sends
<1>2. /\ q \in Processes /\ q \in up /\ o \in Orders
      /\ CallTyped(a) /\ DOMAIN calls[a] = Fields /\ DOMAIN calls = Actors
      /\ SubmissionOf(a) /\ TurnOf(a)
      /\ \A x \in Actors : Sends(x) /\ x # a => calls[x].order # o
  BY <1>1, SenderCall
<1>3. UNCHANGED <<rows, stored, up, leader, portfolio>> /\ Advances
  <2>1. CASE SubmitRefused(a)
    <3>1. /\ exchange' = [exchange EXCEPT ![calls[a].bid].status = "REJECTED"]
          /\ OnItsWay(calls[a].bid) /\ calls[a].bid \in BrokerIds
      BY <1>2, <2>1 DEF SubmitRefused, SubmissionOf, At
    <3>2. Placed(calls[a].bid) /\ ~Filled(calls[a].bid) /\ "REJECTED" \in Status \ {"ABSENT"}
      BY <3>1 DEF Placed, Filled, OnItsWay, Status
    <3>3. QED BY <2>1, <3>1, <3>2, StatusAdvances DEF SubmitRefused
  <2>2. CASE ~SubmitRefused(a)
    BY <2>2, StatusAdvances DEF SubmitAcked, SubmitUncertain, PersistFinds, PersistFails
  <2>3. QED BY <2>1, <2>2
\* What is remembered of the order: as before, refused, or with its broker id.
<1>4. PICK row \in Row :
        /\ oms' = [oms EXCEPT ![q][o] = row] /\ row.status # "ABSENT" /\ Known(row, o)
        /\ row.bid # NoBid => \/ row.bid = Sent(a).bid /\ calls[a].pc \in {"persist", "write"}
                              \/ row.bid = calls[a].bid /\ At(a, "submit")
  <2>1. Sent(a) \in Row /\ oms \in [Processes -> [Orders -> Row]] /\ Known(Sent(a), o)
    BY <1>2 DEF OnceInv, Typed, OneOrderEach, Sent
  <2>2. CASE SubmitAcked(a)
    <3> DEFINE row == [status |-> "OPEN", bid |-> calls[a].bid]
    <3>1. At(a, "submit") /\ ~OnItsWay(calls[a].bid) /\ oms' = [oms EXCEPT ![q][o] = row]
      BY <2>2 DEF SubmitAcked, Remember
    <3>2. row \in Row /\ row.status # "ABSENT" /\ row.bid = calls[a].bid
      BY <1>2 DEF Row, Status, CallTyped
    <3>3. Known(row, o)
      BY <1>2, <3>1 DEF SubmissionOf, Known
    <3>4. QED BY <3>1, <3>2, <3>3
  <2>3. CASE SubmitRefused(a)
    <3> DEFINE row == [status |-> "REJECTED", bid |-> NoBid]
    <3>1. oms' = [oms EXCEPT ![q][o] = row]
      BY <2>3 DEF SubmitRefused, Remember
    <3>2. row \in Row /\ row.status # "ABSENT" /\ row.bid = NoBid
      BY DEF Row, Status
    <3>3. QED BY <3>1, <3>2 DEF Known
  <2>4. CASE SubmitUncertain(a) \/ PersistFinds(a) \/ PersistFails(a)
    <3>1. oms' = [oms EXCEPT ![q][o] = Sent(a)]
      BY <1>2, <2>1, <2>4 DEF SubmitUncertain, PersistFinds, PersistFails, Sent
    <3>2. Sent(a).bid # NoBid => calls[a].pc \in {"persist", "write"}
      BY <1>1, <1>2 DEF SubmissionOf, Sends, At
    <3>3. Sent(a).status # "ABSENT"
      BY <1>2 DEF SubmissionOf
    <3>4. QED BY <2>1, <3>1, <3>2, <3>3
  <2>5. QED BY <2>2, <2>3, <2>4
<1>5. /\ CallTyped(a)' /\ Turns' /\ DOMAIN calls' = Actors
      /\ \A x \in Actors : x # a => calls'[x] = calls[x]
      /\ \/ /\ calls'[a].pc \in {"persist", "write"}
            /\ calls'[a].order = o /\ calls'[a].proc = q /\ calls'[a].kind = calls[a].kind
         \/ calls'[a].pc = "idle"
  <2>1. CASE SubmitAcked(a) \/ SubmitRefused(a) \/ SubmitUncertain(a) \/ PersistFails(a)
    <3>1. (Goto(a, "persist") /\ calls[a].kind # "approve") \/ Finish(a)
      BY <2>1 DEF SubmitAcked, SubmitRefused, SubmitUncertain, PersistFails, Return,
         PersistsAcked, PersistsRefused
    <3>2. QED BY <1>1, <1>3, <3>1, SenderGoes
  <2>2. CASE PersistFinds(a)
    <3> DEFINE found == rows[calls[a].order].status # "ABSENT"
    <3>1. calls' = [calls EXCEPT ![a].pc = "write", ![a].found = found] /\ At(a, "persist")
      BY <2>2 DEF PersistFinds
    <3> HIDE DEF found
    <3>2. calls'[a] = [calls[a] EXCEPT !.pc = "write", !.found = found] /\ DOMAIN calls' = Actors
          /\ \A x \in Actors : x # a => calls'[x] = calls[x]
      BY <1>2, <3>1
    <3>3. /\ CallTyped(a)' /\ calls'[a].pc = "write"
          /\ calls'[a].order = o /\ calls'[a].proc = q /\ calls'[a].kind = calls[a].kind
      BY <1>1, <1>2, <3>2 DEF CallTyped, Sends, At, Fields
    <3>4. TurnOf(a)' /\ Continues(a)
      BY <1>2, <1>3, <3>1, <3>3 DEF TurnOf, Continues, Busy, Sends, At
    <3>5. QED BY <1>3, <3>2, <3>3, <3>4, TurnsGoOn DEF OnceInv
  <2>3. QED BY <2>1, <2>2
<1> HIDE DEF o, q
<1>6. oms \in [Processes -> [Orders -> Row]]
  BY DEF OnceInv, Typed
<1>7. \A p \in Processes, r \in Orders : oms'[p][r] = IF p = q /\ r = o THEN row ELSE oms[p][r]
  BY <1>2, <1>4, <1>6
<1>8. Typed'
  <2>1. \A x \in Actors : CallTyped(x)'
    BY <1>5 DEF OnceInv, Typed, CallTyped, Sends, At
  <2>2. Shape'
    BY <1>3, <1>5, <2>1 DEF OnceInv, Typed, Shape, CallTyped
  <2>3. oms' \in [Processes -> [Orders -> Row]]
    BY <1>2, <1>4, <1>6
  <2>4. QED BY <1>3, <2>1, <2>2, <2>3 DEF OnceInv, Typed, Advances
<1>9. ASSUME NEW x \in Actors, Sends(x), x # a
      PROVE  calls'[x] = calls[x] /\ Sent(x)' = Sent(x) /\ calls[x].order # o
  <2>1. calls'[x] = calls[x] /\ calls[x].order # o
    BY <1>2, <1>5, <1>9 DEF o
  <2>2. calls[x].proc \in Processes /\ calls[x].order \in Orders
    BY <1>9, SenderCall
  <2>3. QED BY <1>7, <2>1, <2>2 DEF Sent
<1>10. /\ Sends(a)' => /\ calls'[a].pc \in {"persist", "write"} /\ calls'[a].order = o
                       /\ calls'[a].kind = calls[a].kind /\ Sent(a)' = row
       /\ ~Sends(a)' => calls'[a].pc = "idle"
  BY <1>2, <1>5, <1>7 DEF Sends, Sent
<1>11. ASSUME NEW x \in Actors, x # a PROVE Sends(x)' <=> Sends(x)
  BY <1>5, <1>11 DEF Sends
<1>12. OneOrderEach'
  <2>1. ASSUME NEW x \in Actors, Sends(x), x # a PROVE SubmissionOf(x)'
    <3>1. SubmissionOf(x)
      BY <2>1 DEF OnceInv, OneOrderEach
    <3>2. \A c \in Actors : Sends(c)' /\ calls'[c].order = calls'[x].order => x = c
      BY <1>9, <1>10, <1>11, <2>1, <3>1 DEF SubmissionOf
    <3>3. Busy(x)' = Busy(x) /\ Untold(calls[x].order)' = Untold(calls[x].order)
      BY <1>3, <1>9, <2>1 DEF Busy, Untold, At
    <3>4. QED BY <1>3, <1>9, <2>1, <3>1, <3>2, <3>3 DEF SubmissionOf, At, Advances
  <2>2. ASSUME Sends(a)' PROVE SubmissionOf(a)'
    <3>1. \A c \in Actors : Sends(c)' /\ calls'[c].order = o => a = c
      BY <1>9, <1>11
    <3>2. Busy(a)' => Untold(calls[a].order)'
      BY <1>1, <1>2, <1>3, <1>10, <2>2 DEF SubmissionOf, Busy, Untold, o
    <3>3. calls'[a].order = o /\ Sent(a)' = row /\ calls'[a].pc # "submit"
      BY <1>10, <2>2
    <3>4. \A c \in Actors : Sends(c)' /\ calls'[c].order = calls'[a].order => a = c
      BY <3>1, <3>3
    <3>5. QED BY <1>4, <3>2, <3>3, <3>4 DEF SubmissionOf, At
  <2>3. ASSUME NEW p \in Processes, NEW r \in Orders PROVE Known(oms[p][r], r)'
    <3>1. Known(oms[p][r], r)
      BY DEF OnceInv, OneOrderEach
    <3>2. oms'[p][r] \in Row /\ Known(oms'[p][r], r)
      BY <1>2, <1>4, <1>6, <1>7, <3>1 DEF Known
    <3>3. QED BY <1>3, <3>2 DEF Known, Advances, Row
  <2>4. ASSUME NEW r \in Orders
        PROVE  Known(rows[r], r)' /\ (rows'[r].status = "ABSENT" => rows'[r].bid = NoBid)
    <3>1. rows[r] \in Row /\ Known(rows[r], r) /\ (rows[r].status = "ABSENT" => rows[r].bid = NoBid)
      BY DEF OnceInv, Typed, OneOrderEach
    <3>2. QED BY <1>3, <3>1 DEF Known, Advances, Row
  <2>5. QED BY <1>11, <2>1, <2>2, <2>3, <2>4 DEF OneOrderEach
<1>13. FiledOnce'
  <2>1. ASSUME NEW f \in stored PROVE Filed(f)'
    <3>1. Filed(f) /\ f.fill \in BrokerIds
      BY DEF OnceInv, FiledOnce, Typed, Fill
    <3>2. Attribution(f.fill)' = Attribution(f.fill)
      BY <1>3, <3>1, SameAttribution DEF OnceInv
    <3>3. ~Pending(f.fill)'
      <4>1. SUFFICES ASSUME NEW x \in Actors, Busy(x)',
                            \/ At(x, "submit")' /\ calls'[x].bid = f.fill
                            \/ calls'[x].pc \in {"persist", "write"} /\ Sent(x)'.bid = f.fill
                     PROVE  Pending(f.fill)
        BY <3>1 DEF Filed, Pending
      <4>2. Sends(x)'
        BY <4>1 DEF Sends, At
      <4>3. CASE x # a
        <5>1. Sends(x) /\ calls'[x] = calls[x] /\ Sent(x)' = Sent(x)
          BY <1>9, <1>11, <4>2, <4>3
        <5>2. QED BY <4>1, <5>1 DEF Pending, Busy, At
      <4>4. CASE x = a
        <5>1. calls'[a].pc \in {"persist", "write"} /\ calls'[a].kind = calls[a].kind /\ Sent(a)' = row
          BY <1>10, <4>2, <4>4
        <5>2. row.bid = f.fill /\ f.fill # NoBid
          BY <3>1, <4>1, <4>4, <5>1, IdsAssumption DEF At
        <5>3. Busy(a)
          BY <1>1, <4>1, <4>4, <5>1 DEF Busy
        <5>4. QED BY <1>4, <5>2, <5>3 DEF Pending
      <4>5. QED BY <4>3, <4>4
    <3>4. QED BY <1>3, <3>1, <3>2, <3>3 DEF Filed, Advances
  <2>2. QED BY <1>3, <2>1 DEF OnceInv, FiledOnce
<1>14. \A p \in Processes : Holding(p)'
  <2>1. ASSUME NEW p \in Processes, p # a PROVE Holding(p)'
    BY <1>3, <1>5, <2>1, HoldingStands DEF OnceInv, Advances, Actors
  <2>2. Holding(a)'
    BY <1>5, HoldsNothing
  <2>3. QED BY <2>1, <2>2
<1>15. QED BY <1>5, <1>8, <1>12, <1>13, <1>14 DEF OnceInv

LEMMA RowOnce ==
  ASSUME OnceInv, NEW a \in Actors, PersistWrites(a)
  PROVE  OnceInv'
<1> USE DEF db, who, memory
<1> DEFINE o   == calls[a].order
           row == Sent(a)
<1>1. Sends(a) /\ ~At(a, "idle") /\ At(a, "write") /\ Finish(a)
  BY DEF PersistWrites, At, Sends
<1>2. /\ calls[a].proc \in Processes /\ o \in Orders
      /\ CallTyped(a) /\ DOMAIN calls[a] = Fields /\ DOMAIN calls = Actors
      /\ SubmissionOf(a) /\ TurnOf(a)
      /\ \A x \in Actors : Sends(x) /\ x # a => calls[x].order # o
  BY <1>1, SenderCall
<1>3. UNCHANGED <<stored, exchange, up, leader, oms, portfolio>>
  BY DEF PersistWrites
<1>4. /\ row \in Row /\ row.status # "ABSENT" /\ Known(row, o)
      /\ rows \in [Orders -> Row]
  BY <1>2 DEF OnceInv, Typed, OneOrderEach, SubmissionOf, Sent
\* An insert that meets a row of the same id fails.
<1>5. rows' = [rows EXCEPT ![o] = row] \/ rows' = rows
  BY <1>4 DEF PersistWrites, Sent
<1>6. /\ CallTyped(a)' /\ Turns' /\ DOMAIN calls' = Actors
      /\ \A x \in Actors : x # a => calls'[x] = calls[x]
  BY <1>1, <1>3, SenderGoes
<1>7. calls'[a].pc = "idle" /\ ~Sends(a)'
  BY <1>1, <1>2, IdleCall DEF Finish, Sends
<1>8. Busy(a) /\ Untold(o) /\ (row.bid # NoBid => Pending(row.bid))
  BY <1>1, <1>2 DEF TurnOf, Busy, At, Pending, SubmissionOf
<1> HIDE DEF o, row
<1>9. \A r \in Orders : rows'[r] = rows[r] \/ (r = o /\ rows'[r] = row)
  <2>1. CASE rows' = [rows EXCEPT ![o] = row]
    BY <1>4, <2>1
  <2>2. QED BY <1>5, <2>1
<1>10. Typed'
  <2>1. rows' \in [Orders -> Row]
    BY <1>2, <1>4, <1>5
  <2>2. Typed /\ DOMAIN portfolio' = Processes /\ stored' \subseteq Fill
    BY <1>3 DEF OnceInv, Typed, Shape
  <2>3. \A x \in Actors : CallTyped(x)'
    BY <1>6, <2>2 DEF Typed, CallTyped, Sends, At
  <2>4. Shape'
    BY <1>3, <1>6, <2>2, <2>3 DEF Typed, Shape, CallTyped
  <2>5. QED BY <1>3, <2>1, <2>2, <2>3, <2>4 DEF Typed
<1>11. ASSUME NEW x \in Actors, Sends(x)'
       PROVE  Sends(x) /\ x # a /\ calls'[x] = calls[x] /\ Sent(x)' = Sent(x)
              /\ calls[x].order \in Orders \ {o}
  <2>1. x # a /\ calls'[x] = calls[x]
    BY <1>6, <1>7, <1>11
  <2>2. Sends(x)
    BY <1>11, <2>1 DEF Sends
  <2>3. QED BY <1>2, <1>3, <2>1, <2>2, SenderCall DEF Sent, o
<1>12. OneOrderEach'
  <2>1. ASSUME NEW x \in Actors, Sends(x)' PROVE SubmissionOf(x)'
    <3>1. SubmissionOf(x) /\ calls'[x] = calls[x] /\ Sent(x)' = Sent(x)
      BY <1>11, <2>1 DEF OnceInv, OneOrderEach
    <3>2. Busy(x)' = Busy(x) /\ Untold(calls[x].order)' = Untold(calls[x].order)
      BY <1>3, <3>1 DEF Busy, Untold, At
    <3>3. \A c \in Actors : Sends(c)' /\ calls'[c].order = calls'[x].order => x = c
      BY <1>11, <2>1, <3>1 DEF SubmissionOf
    <3>4. QED BY <1>3, <3>1, <3>2, <3>3 DEF SubmissionOf, At, Placed
  <2>2. ASSUME NEW r \in Orders
        PROVE  Known(rows[r], r)' /\ (rows'[r].status = "ABSENT" => rows'[r].bid = NoBid)
    <3>1. Known(rows[r], r) /\ (rows[r].status = "ABSENT" => rows[r].bid = NoBid)
      BY DEF OnceInv, OneOrderEach
    <3>2. QED BY <1>3, <1>4, <1>9, <3>1 DEF Known, Placed, OnItsWay
  <2>3. QED BY <1>3, <2>1, <2>2 DEF OnceInv, OneOrderEach, Placed, OnItsWay, Known
<1>13. \A b \in BrokerIds : Pending(b)' => Pending(b)
  <2>1. ASSUME NEW x \in Actors, calls'[x].pc \in {"submit", "persist", "write"}
        PROVE  calls'[x] = calls[x] /\ Sent(x)' = Sent(x)
    BY <1>11, <2>1 DEF Sends
  <2>2. QED BY <2>1 DEF Pending, Busy, At
<1>14. FiledOnce'
  <2>1. ASSUME NEW f \in stored PROVE Filed(f)'
    <3>1. Filed(f) /\ f.fill \in BrokerIds
      BY DEF OnceInv, FiledOnce, Typed, Fill
    <3>2. row.bid # f.fill /\ f.fill # NoBid
      BY <1>8, <3>1, IdsAssumption DEF Filed
    <3>3. rows[o].bid # f.fill
      <4>1. SUFFICES ASSUME rows[o].bid = f.fill PROVE Attribution(f.fill) = o
        BY <1>8, <3>1 DEF Filed, Untold
      <4>2. \A r \in Orders : rows[r].bid = f.fill => r = o
        BY <1>2, <3>2, <4>1 DEF OnceInv, OneOrderEach, Known
      <4>3. QED BY <1>2, <4>1, <4>2 DEF Attribution
    <3>4. \A r \in Orders : rows'[r].bid = f.fill <=> rows[r].bid = f.fill
      BY <1>4, <1>9, <3>2, <3>3
    <3>5. Attribution(f.fill)' = Attribution(f.fill)
      BY <3>1, <3>4, SameAttribution DEF OnceInv
    <3>6. QED BY <1>3, <1>13, <3>1, <3>5 DEF Filed, Filled
  <2>2. QED BY <1>3, <2>1 DEF OnceInv, FiledOnce
<1>15. \A p \in Processes : Holding(p)'
  <2>1. ASSUME NEW p \in Processes PROVE calls'[p].pc = "idle"
    <3>1. CASE p = a
      BY <1>7, <3>1
    <3>2. CASE p # a
      BY <1>6, <1>8, <3>2, SoleTurn DEF OnceInv, At, Actors
    <3>3. QED BY <3>1, <3>2
  <2>2. QED BY <2>1, HoldsNothing
<1>16. QED BY <1>6, <1>10, <1>12, <1>14, <1>15 DEF OnceInv

\* The exchange, the processes that start, are promoted and die.
LEMMA CallsStand ==
  ASSUME OnceInv, UNCHANGED <<rows, stored, oms, calls>>, Advances,
         up' \subseteq Processes, up \subseteq up', leader \in Processes => leader' = leader \/ Alone,
         DOMAIN portfolio' = Processes, \A p \in Processes : portfolio'[p] \subseteq stored
  PROVE  OnceInv'
<1>1. \A b \in BrokerIds : Placed(b)' = Placed(b) /\ exchange'[b].order = exchange[b].order
                           /\ (OnItsWay(b)' => OnItsWay(b)) /\ (Filled(b) => Filled(b)')
  BY DEF Advances
<1>2. Typed'
  BY DEF OnceInv, Typed, Shape, CallTyped, Sends, At, Advances
<1>3. Turns'
  <2>1. ASSUME NEW a \in Actors PROVE TurnOf(a)' /\ Busy(a)' = Busy(a)
    BY DEF OnceInv, Turns, TurnOf, Busy, Sends, At
  <2>2. QED BY <2>1 DEF OnceInv, Turns
<1>4. OneOrderEach'
  <2>1. ASSUME NEW a \in Actors, Sends(a) PROVE SubmissionOf(a)'
    <3>1. SubmissionOf(a)
      BY <2>1 DEF OnceInv, OneOrderEach
    <3>2. QED BY <1>1, <3>1 DEF SubmissionOf, At, Sends, Sent, Busy, Untold
  <2>2. ASSUME NEW row \in Row, NEW o, Known(row, o), row.bid # NoBid
        PROVE  Placed(row.bid)' /\ ~OnItsWay(row.bid)' /\ exchange'[row.bid].order = o
    BY <1>1, <2>2 DEF Known, Row
  <2>3. \A o \in Orders : rows[o] \in Row /\ Known(rows[o], o)
                          /\ \A p \in Processes : oms[p][o] \in Row /\ Known(oms[p][o], o)
    BY DEF OnceInv, Typed, OneOrderEach
  <2>4. ASSUME NEW o \in Orders PROVE Known(rows[o], o)'
    BY <2>2, <2>3 DEF Known, Placed, OnItsWay
  <2>5. ASSUME NEW o \in Orders, NEW p \in Processes PROVE Known(oms[p][o], o)'
    <3>1. oms'[p][o] = oms[p][o] /\ oms[p][o] \in Row /\ Known(oms[p][o], o)
      BY <2>3
    <3>2. QED BY <2>2, <3>1 DEF Known, Placed, OnItsWay
  <2>6. \A a \in Actors : Sends(a)' = Sends(a)
    BY DEF Sends
  <2>7. QED BY <1>1, <2>1, <2>4, <2>5, <2>6 DEF OnceInv, OneOrderEach
<1>5. FiledOnce'
  <2>1. ASSUME NEW f \in stored PROVE Filed(f)'
    <3>1. Filed(f) /\ f.fill \in BrokerIds
      BY DEF OnceInv, FiledOnce, Typed, Fill
    <3>2. Attribution(f.fill)' = Attribution(f.fill) /\ Pending(f.fill)' = Pending(f.fill)
      BY <3>1, SameAttribution DEF OnceInv, Pending, Busy, Sent, At
    <3>3. QED BY <1>1, <3>1, <3>2 DEF Filed
  <2>2. QED BY <2>1 DEF OnceInv, FiledOnce
<1>6. \A p \in Processes : Holding(p)'
  BY <1>1, HoldingStands DEF OnceInv
<1>7. QED BY <1>2, <1>3, <1>4, <1>5, <1>6 DEF OnceInv

LEMMA WorldOnce ==
  ASSUME OnceInv, InTurns,
         \/ \E p \in Processes : Boot(p) \/ Promote(p) \/ Lose(p)
         \/ \E b \in BrokerIds : ExchangeAccepts(b) \/ ExchangeSettles(b)
  PROVE  OnceInv'
<1> USE DEF db, who, memory
<1>1. /\ up \subseteq Processes /\ DOMAIN portfolio = Processes
      /\ \A p \in Processes : portfolio[p] \subseteq stored
  BY DEF OnceInv, Typed, Shape, FiledOnce
<1>2. CASE \E p \in Processes : Boot(p) \/ Promote(p) \/ Lose(p)
  <2>1. /\ up' \subseteq Processes /\ up \subseteq up'
        /\ leader \in Processes => leader' = leader \/ Alone
        /\ UNCHANGED <<rows, stored, oms, calls, exchange>>
    BY <1>1, <1>2, IdsAssumption DEF Boot, Promote, Lose, InTurns
  <2>2. DOMAIN portfolio' = Processes /\ \A p \in Processes : portfolio'[p] \subseteq stored
    BY <1>1, <1>2 DEF Boot, Promote, Lose
  <2>3. QED BY <2>1, <2>2, CallsStand, StatusAdvances
<1>3. ASSUME NEW b \in BrokerIds, ExchangeAccepts(b) \/ ExchangeSettles(b) PROVE OnceInv'
  <2>1. PICK s \in Terminal \cup {"OPEN"} : exchange' = [exchange EXCEPT ![b].status = s]
    BY <1>3 DEF ExchangeAccepts, ExchangeSettles
  <2>2. s \in Status \ {"ABSENT"} /\ Placed(b) /\ ~Filled(b)
    BY <1>3 DEF ExchangeAccepts, ExchangeSettles, OnItsWay, Placed, Filled, Terminal, Status
  <2>3. UNCHANGED <<rows, stored, oms, calls, up, leader, portfolio>>
    BY <1>3 DEF ExchangeAccepts, ExchangeSettles
  <2>4. QED BY <1>1, <2>1, <2>2, <2>3, CallsStand, StatusAdvances
<1>4. QED BY <1>2, <1>3

LEMMA CrashOnce ==
  ASSUME OnceInv, NEW p \in Processes, Crash(p)
  PROVE  OnceInv'
<1> USE DEF db
<1>1. /\ UNCHANGED <<rows, stored, exchange>> /\ up' = up \ {p}
      /\ leader' = (IF leader = p THEN NoOne ELSE leader)
      /\ oms' = [oms EXCEPT ![p] = [o \in Orders |-> Absent]]
      /\ portfolio' = [portfolio EXCEPT ![p] = {}]
      /\ calls' = [a \in Actors |-> IF calls[a].proc = p THEN Idle(p) ELSE calls[a]]
  BY DEF Crash
<1>2. \A a \in Actors : calls'[a] = IF calls[a].proc = p THEN Idle(p) ELSE calls[a]
  BY <1>1
<1>3. Absent \in Row /\ Absent.bid = NoBid
  BY DEF Absent, Row, Status
<1>4. oms \in [Processes -> [Orders -> Row]] /\ DOMAIN portfolio = Processes
  BY DEF OnceInv, Typed, Shape
<1>5. oms' \in [Processes -> [Orders -> Row]] /\ DOMAIN portfolio' = Processes
  BY <1>1, <1>3, <1>4
<1>6. \A q \in Processes, o \in Orders : oms'[q][o] = IF q = p THEN Absent ELSE oms[q][o]
  BY <1>1, <1>4
<1>7. ASSUME NEW a \in Actors PROVE CallTyped(a)'
  BY <1>2, IdleCall DEF OnceInv, Typed, CallTyped, Sends, At
<1>8. Typed'
  <2>1. Shape'
    BY <1>1, <1>5, <1>7 DEF OnceInv, Typed, Shape, CallTyped
  <2>2. QED BY <1>1, <1>5, <1>7, <2>1 DEF OnceInv, Typed
<1>9. ASSUME NEW a \in Actors
      PROVE  \/ calls'[a] = Idle(p) /\ ~Sends(a)' /\ ~Busy(a)' /\ calls'[a].pc = "idle" /\ calls[a].proc = p
             \/ calls'[a] = calls[a] /\ calls[a].proc # p
  BY <1>2, IdleCall DEF Sends, Busy, At
<1>10. Turns'
  <2>1. ASSUME NEW a \in Actors PROVE TurnOf(a)' /\ (Busy(a)' => Busy(a))
    <3>1. TurnOf(a)
      BY DEF OnceInv, Turns
    <3>2. CASE calls'[a] = Idle(p) /\ calls[a].proc = p
      BY <3>1, <3>2, IdleCall DEF TurnOf, Sends, Busy, At
    <3>3. CASE calls'[a] = calls[a] /\ calls[a].proc # p
      BY <1>1, <3>1, <3>3 DEF TurnOf, Sends, Busy, At
    <3>4. QED BY <1>9, <3>2, <3>3
  <2>2. QED BY <2>1 DEF OnceInv, Turns
<1>11. ASSUME NEW a \in Actors, Sends(a)'
       PROVE  Sends(a) /\ calls'[a] = calls[a] /\ Sent(a)' = Sent(a)
  <2>1. calls'[a] = calls[a] /\ calls[a].proc # p
    BY <1>9, <1>11
  <2>2. Sends(a)
    BY <1>11, <2>1 DEF Sends
  <2>3. QED BY <1>6, <2>1, <2>2, SenderCall DEF Sent
<1>12. OneOrderEach'
  <2>1. ASSUME NEW a \in Actors, Sends(a)' PROVE SubmissionOf(a)'
    <3>1. SubmissionOf(a) /\ calls'[a] = calls[a] /\ Sent(a)' = Sent(a)
      BY <1>11, <2>1 DEF OnceInv, OneOrderEach
    <3>2. \A c \in Actors : Sends(c)' /\ calls'[c].order = calls'[a].order => a = c
      BY <1>11, <2>1, <3>1 DEF SubmissionOf
    <3>3. QED BY <1>1, <3>1, <3>2 DEF SubmissionOf, At, Placed, Busy, Untold
  <2>2. ASSUME NEW q \in Processes, NEW o \in Orders PROVE Known(oms[q][o], o)'
    <3>1. Known(oms[q][o], o)
      BY DEF OnceInv, OneOrderEach
    <3>2. QED BY <1>1, <1>3, <1>6, <3>1 DEF Known, Placed, OnItsWay
  <2>3. QED BY <1>1, <2>1, <2>2 DEF OnceInv, OneOrderEach, Placed, OnItsWay, Known
<1>13. FiledOnce'
  <2>1. ASSUME NEW f \in stored PROVE Filed(f)'
    <3>1. Filed(f) /\ f.fill \in BrokerIds
      BY DEF OnceInv, FiledOnce, Typed, Fill
    <3>2. Attribution(f.fill)' = Attribution(f.fill)
      BY <1>1, <3>1, SameAttribution DEF OnceInv
    <3>3. ASSUME NEW a \in Actors, calls'[a].pc \in {"submit", "persist", "write"}
          PROVE  calls'[a] = calls[a] /\ Sent(a)' = Sent(a)
      BY <1>11, <3>3 DEF Sends
    <3>4. ~Pending(f.fill)'
      BY <3>1, <3>3 DEF Filed, Pending, Busy, At
    <3>5. QED BY <1>1, <3>1, <3>2, <3>4 DEF Filed, Filled
  <2>2. \A q \in Processes : portfolio'[q] \subseteq stored'
    BY <1>1, <1>4 DEF OnceInv, FiledOnce
  <2>3. QED BY <1>1, <2>1, <2>2 DEF OnceInv, FiledOnce
<1>14. ASSUME NEW q \in Processes PROVE Holding(q)'
  <2>1. q \in Actors
    BY DEF Actors
  <2>2. CASE calls'[q].pc = "idle"
    BY <2>2, HoldsNothing
  <2>3. CASE calls'[q] = calls[q]
    BY <1>1, <2>3, HoldingStands DEF OnceInv, Filled
  <2>4. QED BY <1>9, <2>1, <2>2, <2>3
<1>15. QED BY <1>8, <1>10, <1>12, <1>13, <1>14 DEF OnceInv

LEMMA OnceStep ==
  ASSUME OnceInv, InTurns, Entered, Settled, [Next]_vars
  PROVE  OnceInv'
<1>1. ASSUME NEW p \in Processes, Boot(p) \/ Promote(p) \/ Lose(p) PROVE OnceInv'
  BY <1>1, WorldOnce
<1>2. ASSUME NEW p \in Processes, Crash(p) PROVE OnceInv'
  BY <1>2, CrashOnce
<1>3. ASSUME NEW p \in Processes, Tick(p) PROVE OnceInv'
  BY <1>3, LoopBegins
<1>4. ASSUME NEW p \in Processes, Reconciling(p) \/ GetFills(p) PROVE OnceInv'
  BY <1>4, ReconcilerStrolls, UpdateOrderOnce, StoresOnce, LoopEnds DEF Reconciling
<1>5. ASSUME NEW p \in Processes, GetFillsFails(p) \/ TickThrows(p) PROVE OnceInv'
  BY <1>5, LoopEnds
<1>6. ASSUME NEW p \in Processes, Deciding(p) PROVE OnceInv'
  BY <1>6, LoopEnds, LoopBegins, OrdersOnce DEF Deciding
<1>7. ASSUME NEW a \in Actors, Submission(a) PROVE OnceInv'
  BY <1>7, AnswerOnce, RowOnce DEF Submission
<1>8. ASSUME NEW c \in Clicks, FlattenRefused(c) \/ \E p \in Processes : Flatten(c, p) PROVE OnceInv'
  BY <1>8, ClickStrolls
<1>9. ASSUME NEW c \in Clicks, \/ \E o \in Exits : FlattenSends(c, o)
                               \/ \E p \in Processes, o \in Entries : Approve(c, p, o)
      PROVE  OnceInv'
  BY <1>9, OrdersOnce
<1>10. ASSUME NEW b \in BrokerIds, ExchangeAccepts(b) \/ ExchangeSettles(b) PROVE OnceInv'
  BY <1>10, WorldOnce
<1>11. CASE UNCHANGED vars
  BY <1>11, CallsStand, StatusAdvances DEF vars, OnceInv, Typed, Shape, FiledOnce
<1>12. QED
  BY <1>1, <1>2, <1>3, <1>4, <1>5, <1>6, <1>7, <1>8, <1>9, <1>10, <1>11 DEF Next

\* What the exchange holds changes when an order is sent, and when it accepts,
\* trades or closes one.
LEMMA StepsOfExchange ==
  ASSUME OnceInv, [Next]_vars
  PROVE  \/ Advances /\ \A b \in BrokerIds : exchange'[b].lots = exchange[b].lots
         \/ \E a \in Actors, p \in Processes, kind \in {"bar", "approve"}, o \in Orders :
              Send(a, p, kind, o, 1) /\ squaredOff' = squaredOff
         \/ \E p \in Processes, o \in Orders : SquareOffSends(p, o)
         \/ ~NoClosing
<1> DEFINE Stands == Advances /\ \A b \in BrokerIds : exchange'[b].lots = exchange[b].lots
           Enters == \E a \in Actors, p \in Processes, kind \in {"bar", "approve"}, o \in Orders :
                       Send(a, p, kind, o, 1) /\ squaredOff' = squaredOff
<1>0. /\ DOMAIN exchange = BrokerIds
      /\ \A b \in BrokerIds : DOMAIN exchange[b] = {"status", "order", "lots"}
  BY DEF OnceInv, Typed
<1>1. ASSUME exchange' = exchange PROVE Stands
  BY <1>1, StatusAdvances
<1>2. ASSUME NEW b \in BrokerIds, NEW s \in Status \ {"ABSENT"}, Placed(b), ~Filled(b),
             exchange' = [exchange EXCEPT ![b].status = s]
      PROVE  Stands
  <2>1. Advances
    BY <1>2, StatusAdvances
  <2>2. \A d \in BrokerIds : exchange'[d].lots = exchange[d].lots
    BY <1>0, <1>2
  <2>3. QED BY <2>1, <2>2
<1> HIDE DEF Stands
<1>3. ASSUME NEW b \in BrokerIds, ExchangeAccepts(b) \/ ExchangeSettles(b) PROVE Stands
  <2>1. PICK s \in Terminal \cup {"OPEN"} : exchange' = [exchange EXCEPT ![b].status = s]
    BY <1>3 DEF ExchangeAccepts, ExchangeSettles
  <2>2. s \in Status \ {"ABSENT"} /\ Placed(b) /\ ~Filled(b)
    BY <1>3 DEF ExchangeAccepts, ExchangeSettles, OnItsWay, Placed, Filled, Terminal, Status
  <2>3. QED BY <1>2, <2>1, <2>2
<1>4. ASSUME NEW a \in Actors, Submission(a) PROVE Stands
  <2>1. CASE SubmitRefused(a)
    <3>1. calls[a].bid \in BrokerIds
      BY <2>1, SenderCall DEF SubmitRefused, SubmissionOf, Sends, At
    <3>2. /\ exchange' = [exchange EXCEPT ![calls[a].bid].status = "REJECTED"]
          /\ Placed(calls[a].bid) /\ ~Filled(calls[a].bid) /\ "REJECTED" \in Status \ {"ABSENT"}
      BY <2>1 DEF SubmitRefused, OnItsWay, Placed, Filled, Status
    <3>3. QED BY <1>2, <3>1, <3>2
  <2>2. CASE ~SubmitRefused(a)
    <3>1. exchange' = exchange
      BY <1>4, <2>2 DEF Submission, SubmitAcked, SubmitUncertain, PersistFinds, PersistWrites, PersistFails
    <3>2. QED BY <1>1, <3>1
  <2>3. QED BY <2>1, <2>2
<1>5. ASSUME NEW p \in Processes,
             \/ Boot(p) \/ Promote(p) \/ Lose(p) \/ Crash(p) \/ Tick(p) \/ Reconciling(p)
             \/ GetFills(p) \/ GetFillsFails(p) \/ TickThrows(p) \/ BarsQuiet(p)
             \/ SquareOffReads(p) \/ SquareOffNothing(p) \/ MarkThrows(p)
      PROVE  exchange' = exchange
  BY <1>5 DEF Boot, Promote, Lose, Crash, Tick, Reconciling, GetFills, GetFillsFails, TickThrows, BarsQuiet,
     SquareOffReads, SquareOffNothing, MarkThrows, FindOpen, SkipOrder, AskOrder, UpdateOrder, MatchFill,
     AppendFill, AppendThrows, FoldFill, ReconcileDone
<1>6. ASSUME NEW p \in Processes, NEW o \in Orders, BarTrades(p, o) PROVE Enters
  BY <1>6 DEF BarTrades, Actors, db
<1>7. ASSUME NEW c \in Clicks, NEW p \in Processes, NEW o \in Entries, Approve(c, p, o) PROVE Enters
  <2>1. c \in Actors /\ o \in Orders
    BY DEF Actors, Orders
  <2>2. Send(c, p, "approve", o, 1) /\ squaredOff' = squaredOff
    BY <1>7 DEF Approve, db
  <2>3. QED BY <2>1, <2>2
<1>8. ASSUME NEW c \in Clicks, \/ \E p \in Processes : Flatten(c, p)
                               \/ FlattenRefused(c) \/ \E o \in Exits : FlattenSends(c, o)
      PROVE  exchange' = exchange \/ ~NoClosing
  <2>1. CASE \E o \in Exits : FlattenSends(c, o)
    BY <2>1 DEF FlattenSends, OnceInv, Turns, TurnOf, Sends, At, Actors
  <2>2. QED BY <1>8, <2>1 DEF Flatten, FlattenRefused
<1> HIDE DEF Enters
<1>9. Stands \/ Enters \/ (\E p \in Processes, o \in Orders : SquareOffSends(p, o)) \/ ~NoClosing
  <2>1. CASE UNCHANGED vars
    BY <1>1, <2>1 DEF vars
  <2>2. exchange' = exchange => Stands
    BY <1>1
  <2>3. QED BY <1>3, <1>4, <1>5, <1>6, <1>7, <1>8, <2>1, <2>2 DEF Next, Deciding
<1>10. QED BY <1>9 DEF Stands, Enters

\* The day is marked by the one that squares off.
LEMMA StepsOfMark ==
  ASSUME [Next]_vars
  PROVE  \/ squaredOff' = squaredOff
         \/ \E p \in Processes : /\ SquareOffNothing(p) \/ MarkThrows(p)
                                    \/ \E o \in Orders : SquareOffSends(p, o)
                                 /\ squaredOff' \in {squaredOff, TRUE}
<1> DEFINE Same == squaredOff' = squaredOff
<1>1. ASSUME NEW p \in Processes,
             \/ Boot(p) \/ Promote(p) \/ Lose(p) \/ Crash(p) \/ Tick(p) \/ Reconciling(p)
             \/ GetFills(p) \/ GetFillsFails(p) \/ TickThrows(p) \/ BarsQuiet(p)
             \/ SquareOffReads(p) \/ (\E o \in Orders : BarTrades(p, o))
      PROVE  Same
  BY <1>1 DEF Boot, Promote, Lose, Crash, Tick, Reconciling, GetFills, GetFillsFails, TickThrows, BarsQuiet,
     SquareOffReads, BarTrades, FindOpen, SkipOrder, AskOrder, UpdateOrder, MatchFill,
     AppendFill, AppendThrows, FoldFill, ReconcileDone, db
<1>2. ASSUME NEW a \in Actors, Submission(a) PROVE Same
  BY <1>2 DEF Submission, SubmitAcked, SubmitRefused, SubmitUncertain, PersistFinds, PersistWrites,
     PersistFails, db
<1>3. ASSUME NEW c \in Clicks,
             \/ \E p \in Processes : Flatten(c, p) \/ \E q \in Entries : Approve(c, p, q)
             \/ FlattenRefused(c) \/ \E q \in Exits : FlattenSends(c, q)
      PROVE  Same
  BY <1>3 DEF Flatten, Approve, FlattenRefused, FlattenSends, db
<1>4. ASSUME UNCHANGED vars \/ \E b \in BrokerIds : ExchangeAccepts(b) \/ ExchangeSettles(b)
      PROVE  Same
  BY <1>4 DEF vars, ExchangeAccepts, ExchangeSettles, db
<1>5. ASSUME NEW p \in Processes,
             SquareOffNothing(p) \/ MarkThrows(p) \/ \E o \in Orders : SquareOffSends(p, o)
      PROVE  squaredOff' \in {squaredOff, TRUE}
  BY <1>5 DEF SquareOffNothing, MarkThrows, SquareOffSends, Marked
<1> HIDE DEF Same
<1> DEFINE Marks == \E p \in Processes : /\ SquareOffNothing(p) \/ MarkThrows(p)
                                            \/ \E o \in Orders : SquareOffSends(p, o)
                                         /\ squaredOff' \in {squaredOff, TRUE}
<1>6. ASSUME NEW p \in Processes, Deciding(p) PROVE Same \/ Marks
  BY <1>1, <1>5, <1>6 DEF Deciding
<1> HIDE DEF Marks
<1>7. Same \/ Marks
  BY <1>1, <1>2, <1>3, <1>4, <1>6 DEF Next
<1>8. QED BY <1>7 DEF Same, Marks

\* What an order that is sent weighs.
LEMMA SendWeighs ==
  ASSUME OnceInv, NEW a, NEW p, NEW kind, NEW o, NEW lots, Send(a, p, kind, o, lots)
  PROVE  \E b \in BrokerIds :
           /\ ~Placed(b) /\ Placed(b)' /\ exchange'[b].lots = lots /\ ~Filled(b)'
           /\ \A d \in BrokerIds : d # b => exchange'[d] = exchange[d]
<1>1. PICK b \in BrokerIds :
        /\ ~Placed(b)
        /\ exchange' = [exchange EXCEPT ![b] = [status |-> "SENT", order |-> o, lots |-> lots]]
  BY DEF Send
<1>2. /\ exchange'[b] = [status |-> "SENT", order |-> o, lots |-> lots]
      /\ \A d \in BrokerIds : d # b => exchange'[d] = exchange[d]
  BY <1>1 DEF OnceInv, Typed
<1>3. Placed(b)' /\ exchange'[b].lots = lots /\ ~Filled(b)'
  BY <1>2 DEF Placed, Filled
<1>4. QED BY <1>1, <1>2, <1>3

LEMMA EnteredStep ==
  ASSUME OnceInv, Entered, [Next]_vars
  PROVE  Entered'
<1> SUFFICES ASSUME NoClosing, ~squaredOff', NEW b \in BrokerIds, Placed(b)'
             PROVE  exchange'[b].lots = 1
  BY DEF Entered
<1>1. ~squaredOff
  BY StepsOfMark
<1>2. \A d \in BrokerIds : Placed(d) => exchange[d].lots = 1
  BY <1>1 DEF Entered
<1>3. CASE Advances /\ \A d \in BrokerIds : exchange'[d].lots = exchange[d].lots
  BY <1>2, <1>3 DEF Advances
<1>4. ASSUME NEW a \in Actors, NEW p \in Processes, NEW kind \in {"bar", "approve"}, NEW o \in Orders,
             Send(a, p, kind, o, 1)
      PROVE  exchange'[b].lots = 1
  BY <1>2, <1>4, SendWeighs DEF Placed
<1>5. ASSUME NEW p \in Processes, NEW o \in Orders, SquareOffSends(p, o) PROVE FALSE
  BY <1>5 DEF SquareOffSends, Marked
<1>6. QED BY <1>3, <1>4, <1>5, StepsOfExchange

FillsInv == OnceInv /\ Entered /\ Settled

LEMMA FillsInit == Init => FillsInv
<1>1. Init => Entered
  BY DEF Init, Entered, Placed
<1>2. QED BY <1>1, OnceInit, WholeInit DEF FillsInv, Settled

LEMMA FillsStep == ASSUME FillsInv, InTurns, [Next]_vars PROVE FillsInv'
<1>1. Settled'
  BY WholeStep DEF FillsInv, Settled, InTurns
<1>2. QED BY <1>1, OnceStep, EnteredStep DEF FillsInv

LEMMA OnceMeansOnce == OnceInv => NoFillCountedTwice
<1> SUFFICES ASSUME OnceInv, NEW p \in Processes, NEW f \in portfolio[p], NEW g \in portfolio[p],
                    f.fill = g.fill
             PROVE  f = g
  BY DEF NoFillCountedTwice
<1>1. f \in stored /\ g \in stored /\ stored \subseteq Fill
  BY DEF OnceInv, FiledOnce, Typed
<1>2. f.as = g.as
  BY <1>1 DEF OnceInv, FiledOnce, Filed
<1>3. QED BY <1>1, <1>2 DEF Fill

\* No portfolio counts a fill of the exchange twice, for any number of processes,
\* with promotions, crashes, late answers, unguarded approvals, broker outages,
\* failing queries, order rows that are not written and lost answers of the
\* database; and for one process also where it loses the lock and trades on, or
\* decides again on a bar after a restart.
THEOREM FillsOnce ==
  ASSUME InTurns
  PROVE  Spec => []NoFillCountedTwice
<1>1. FillsInv /\ [Next]_vars => FillsInv'
  BY FillsStep
<1>2. FillsInv => NoFillCountedTwice
  BY OnceMeansOnce DEF FillsInv
<1>3. QED BY <1>1, <1>2, FillsInit, PTL DEF Spec

-----------------------------------------------------------------------------
(* Nobody sells what is being sold: without manual exits the square-off is *)
(* the only exit of the day, and what it sells has been bought.            *)

Weights == [b \in BrokerIds |-> exchange[b].lots]
Held    == {b \in BrokerIds : Filled(b) /\ exchange[b].lots > 0}
Sale(b) == Placed(b) /\ exchange[b].lots < 0
Covers(n) == n \in Int /\ n <= 0 /\ Opening + Total(Weights, Held) + n >= 0

Weighed == /\ IsFiniteSet({b \in BrokerIds : Placed(b)})
           /\ \A b \in BrokerIds : exchange[b].lots \in Int
Sold == /\ Weighed
        /\ \A b, c \in BrokerIds : Sale(b) /\ Sale(c) => b = c
        /\ \A b \in BrokerIds : Sale(b) => Covers(exchange[b].lots)
        /\ \A p \in Processes : At(p, "mark") => ~squaredOff /\ Covers(calls[p].lots)

LEMMA InitSold == Init => Sold
<1> SUFFICES ASSUME Init PROVE Sold
  OBVIOUS
<1>1. ASSUME NEW a \in Actors PROVE calls[a].pc = "idle"
  <2> DEFINE home(x) == CHOOSE p \in Processes : x \in Processes => p = x
  <2>1. calls = [x \in Actors |-> Idle(home(x))]
    BY DEF Init
  <2> HIDE DEF home
  <2>2. QED BY <2>1 DEF Idle
<1>2. \A b \in BrokerIds : ~Placed(b) /\ exchange[b].lots = 0
  BY DEF Init, Placed
<1>3. {b \in BrokerIds : Placed(b)} = {}
  BY <1>2
<1>4. Weighed
  <2>1. IsFiniteSet({b \in BrokerIds : Placed(b)})
    BY <1>3, FS_EmptySet
  <2>2. QED BY <1>2, <2>1 DEF Weighed
<1>5. \A p \in Processes : ~At(p, "mark")
  BY <1>1 DEF At, Actors
<1>6. \A b \in BrokerIds : ~Sale(b)
  BY <1>2 DEF Sale
<1>7. QED BY <1>4, <1>5, <1>6 DEF Sold

\* What is held, as a sum.
LEMMA HeldAddsUp ==
  ASSUME Weighed
  PROVE  /\ IsFiniteSet(Held) /\ Held \subseteq BrokerIds /\ Opening \in Int /\ Opening >= 0
         /\ \A b \in BrokerIds : Weights[b] = exchange[b].lots /\ Weights[b] \in Int
         /\ Total(Weights, Held) \in Int
<1>1. Held \subseteq {b \in BrokerIds : Placed(b)}
  BY DEF Held, Filled, Placed
<1>2. IsFiniteSet(Held)
  BY <1>1, FS_Subset DEF Weighed
<1>3. \A b \in BrokerIds : Weights[b] = exchange[b].lots /\ Weights[b] \in Int
  BY DEF Weighed, Weights
<1>4. Held \subseteq BrokerIds
  BY <1>1
<1> HIDE DEF Weights, Held
<1>5. Total(Weights, Held) \in Int
  BY <1>2, <1>3, <1>4, TotalLess
<1>6. QED BY <1>2, <1>3, <1>4, <1>5, BoundsAssumption

\* More may be held after a step, not less.
LEMMA CoversStill ==
  ASSUME Weighed, Weighed', Held \subseteq Held', \A b \in Held : exchange'[b].lots = exchange[b].lots,
         NEW n, Covers(n)
  PROVE  Covers(n)'
<1>1. /\ IsFiniteSet(Held) /\ Held \subseteq BrokerIds /\ Opening \in Int
      /\ \A b \in BrokerIds : Weights[b] = exchange[b].lots /\ Weights[b] \in Int
      /\ Total(Weights, Held) \in Int
  BY HeldAddsUp
<1>2. /\ IsFiniteSet(Held') /\ Held' \subseteq BrokerIds
      /\ \A b \in BrokerIds : Weights'[b] = exchange'[b].lots /\ Weights'[b] \in Int
      /\ Total(Weights', Held') \in Int
  <2>1. Held' \subseteq {b \in BrokerIds : Placed(b)'}
    BY DEF Held, Filled, Placed
  <2>2. IsFiniteSet({b \in BrokerIds : Placed(b)'})
    BY DEF Weighed
  <2>3. IsFiniteSet(Held')
    BY <2>1, <2>2, FS_Subset
  <2>4. \A b \in BrokerIds : Weights'[b] = exchange'[b].lots /\ Weights'[b] \in Int
    BY DEF Weighed, Weights
  <2>5. Held' \subseteq BrokerIds
    BY <2>1
  <2> HIDE DEF Weights, Held
  <2>6. Total(Weights', Held') \in Int
    BY <2>3, <2>4, <2>5, TotalLess
  <2>7. QED BY <2>3, <2>4, <2>5, <2>6
<1>3. \A b \in Held' : Weights'[b] >= 0
  BY <1>2 DEF Held
<1>4. Covers(n)' <=> n \in Int /\ n <= 0 /\ Opening + Total(Weights', Held') + n >= 0
  BY DEF Covers, Total
<1>5. \A b \in Held : Weights[b] = Weights'[b]
  BY <1>1, <1>2
<1> HIDE DEF Weights, Held
<1>6. Total(Weights', Held) = Total(Weights, Held)
  BY <1>1, <1>5, TotalSame
<1>7. Total(Weights', Held) <= Total(Weights', Held')
  BY <1>2, <1>3, TotalGrows
<1>8. QED BY <1>1, <1>2, <1>4, <1>6, <1>7 DEF Covers

\* The numbers after a step: a new order weighs what was said, the others as before.
LEMMA MoneyStep ==
  ASSUME OnceInv, Sold, NoClosing, [Next]_vars
  PROVE  /\ Weighed' /\ Held \subseteq Held' /\ \A b \in Held : exchange'[b].lots = exchange[b].lots
         /\ \/ \A b \in BrokerIds : Placed(b)' = Placed(b) /\ exchange'[b].lots = exchange[b].lots
            \/ \E b \in BrokerIds :
                 /\ ~Placed(b) /\ Placed(b)' /\ \A d \in BrokerIds : d # b => exchange'[d] = exchange[d]
                 /\ \/ exchange'[b].lots = 1
                    \/ \E p \in Processes, o \in Orders : SquareOffSends(p, o) /\ exchange'[b].lots = calls[p].lots
<1> DEFINE Same == \A b \in BrokerIds : Placed(b)' = Placed(b) /\ exchange'[b].lots = exchange[b].lots
           Sells(b) == \E p \in Processes, o \in Orders : SquareOffSends(p, o) /\ exchange'[b].lots = calls[p].lots
           New == \E b \in BrokerIds :
                    /\ ~Placed(b) /\ Placed(b)' /\ \A d \in BrokerIds : d # b => exchange'[d] = exchange[d]
                    /\ exchange'[b].lots = 1 \/ Sells(b)
<1>1. CASE Advances /\ \A b \in BrokerIds : exchange'[b].lots = exchange[b].lots
  <2>1. Same
    BY <1>1 DEF Advances
  <2>2. {b \in BrokerIds : Placed(b)'} = {b \in BrokerIds : Placed(b)}
    BY <2>1
  <2>3. Weighed'
    BY <2>1, <2>2 DEF Sold, Weighed
  <2>4. Held \subseteq Held' /\ \A b \in Held : exchange'[b].lots = exchange[b].lots
    BY <1>1 DEF Held, Advances
  <2>5. QED BY <2>1, <2>3, <2>4
<1>2. ASSUME NEW b \in BrokerIds, ~Placed(b), Placed(b)', exchange'[b].lots = 1 \/ Sells(b),
             \A d \in BrokerIds : d # b => exchange'[d] = exchange[d]
      PROVE  Weighed' /\ Held \subseteq Held' /\ (\A d \in Held : exchange'[d].lots = exchange[d].lots) /\ New
  <2>1. exchange'[b].lots \in Int
    <3>1. ASSUME NEW p \in Processes, NEW o \in Orders, SquareOffSends(p, o) PROVE calls[p].lots \in Int
      BY <3>1 DEF SquareOffSends, Sold, Covers
    <3>2. QED BY <1>2, <3>1
  <2>2. \A d \in BrokerIds : Placed(d)' <=> d = b \/ Placed(d)
    BY <1>2 DEF Placed
  <2>3. {d \in BrokerIds : Placed(d)'} = {d \in BrokerIds : Placed(d)} \cup {b}
    BY <2>2
  <2>4. Weighed'
    <3>1. IsFiniteSet({d \in BrokerIds : Placed(d)'})
      BY <2>3, FS_AddElement DEF Sold, Weighed
    <3>2. \A d \in BrokerIds : exchange'[d].lots \in Int
      BY <1>2, <2>1 DEF Sold, Weighed
    <3>3. QED BY <3>1, <3>2 DEF Weighed
  <2>5. \A d \in Held : d \in BrokerIds /\ exchange'[d] = exchange[d]
    BY <1>2 DEF Held, Filled, Placed
  <2>6. Held \subseteq Held'
    BY <2>5 DEF Held, Filled
  <2>7. QED BY <1>2, <2>4, <2>5, <2>6
<1>3. ASSUME NEW a \in Actors, NEW p \in Processes, NEW kind \in {"bar", "approve"}, NEW o \in Orders,
             Send(a, p, kind, o, 1)
      PROVE  \E b \in BrokerIds : /\ ~Placed(b) /\ Placed(b)' /\ (exchange'[b].lots = 1 \/ Sells(b))
                                 /\ \A d \in BrokerIds : d # b => exchange'[d] = exchange[d]
  BY <1>3, SendWeighs
<1>4. ASSUME NEW p \in Processes, NEW o \in Orders, SquareOffSends(p, o)
      PROVE  \E b \in BrokerIds : /\ ~Placed(b) /\ Placed(b)' /\ (exchange'[b].lots = 1 \/ Sells(b))
                                 /\ \A d \in BrokerIds : d # b => exchange'[d] = exchange[d]
  <2>1. Send(p, p, "exit", o, calls[p].lots)
    BY <1>4 DEF SquareOffSends
  <2>2. PICK b \in BrokerIds : /\ ~Placed(b) /\ Placed(b)' /\ exchange'[b].lots = calls[p].lots
                              /\ \A d \in BrokerIds : d # b => exchange'[d] = exchange[d]
    BY <2>1, SendWeighs
  <2>3. Sells(b)
    BY <1>4, <2>2
  <2>4. QED BY <2>2, <2>3
<1> HIDE DEF Same, Sells
<1>5. QED BY <1>1, <1>2, <1>3, <1>4, StepsOfExchange DEF Same, Sells

LEMMA CallChanges ==
  ASSUME OnceInv, NEW a \in Actors
  PROVE  /\ \A pc : Goto(a, pc) => /\ \A x \in Actors : x # a => calls'[x] = calls[x]
                                   /\ calls'[a] = [calls[a] EXCEPT !.pc = pc]
                                   /\ calls'[a].pc = pc
                                   /\ \A f \in Fields \ {"pc"} : calls'[a][f] = calls[a][f]
         /\ Finish(a) => /\ \A x \in Actors : x # a => calls'[x] = calls[x]
                         /\ calls'[a] = Idle(calls[a].proc)
                         /\ calls'[a].pc = "idle" /\ calls'[a].lots = 0 /\ calls'[a].kind = "bar"
<1>1. DOMAIN calls = Actors /\ DOMAIN calls[a] = Fields
  BY DEF OnceInv, Typed, CallTyped, Shape
<1>2. ASSUME NEW pc, Goto(a, pc)
      PROVE  /\ \A x \in Actors : x # a => calls'[x] = calls[x]
             /\ calls'[a] = [calls[a] EXCEPT !.pc = pc]
             /\ calls'[a].pc = pc /\ \A f \in Fields \ {"pc"} : calls'[a][f] = calls[a][f]
  <2>1. calls'[a] = [calls[a] EXCEPT !.pc = pc] /\ \A x \in Actors : x # a => calls'[x] = calls[x]
    BY <1>1, <1>2 DEF Goto
  <2>2. "pc" \in Fields
    BY DEF Fields
  <2>3. QED BY <1>1, <2>1, <2>2
<1>3. ASSUME Finish(a)
      PROVE  /\ \A x \in Actors : x # a => calls'[x] = calls[x]
             /\ calls'[a] = Idle(calls[a].proc)
             /\ calls'[a].pc = "idle" /\ calls'[a].lots = 0 /\ calls'[a].kind = "bar"
  <2>1. calls'[a] = Idle(calls[a].proc) /\ \A x \in Actors : x # a => calls'[x] = calls[x]
    BY <1>1, <1>3 DEF Finish
  <2>2. QED BY <2>1 DEF Idle
<1>4. QED BY <1>2, <1>3

\* Whoever is about to square off has just read the position, or stays there.
LEMMA StepsToMark ==
  ASSUME OnceInv, [Next]_vars, NEW p \in Processes, At(p, "mark")'
  PROVE  SquareOffReads(p) \/ calls'[p] = calls[p]
<1>0. DOMAIN calls = Actors /\ p \in Actors /\ \A a \in Actors : DOMAIN calls[a] = Fields
  BY DEF OnceInv, Typed, CallTyped, Shape, Actors
<1> DEFINE Fine == SquareOffReads(p) \/ calls'[p] = calls[p]
<1>1. ASSUME NEW a \in Actors, NEW pc, pc # "mark", Goto(a, pc) \/ Finish(a) PROVE Fine
  BY <1>0, <1>1, CallChanges DEF At
<1>2. ASSUME NEW a \in Actors, NEW x, calls' = [calls EXCEPT ![a] = x], x.pc # "mark" PROVE Fine
  BY <1>0, <1>2 DEF At
<1>3. ASSUME NEW a, NEW q, NEW kind, NEW o, NEW lots, a \in Actors, Send(a, q, kind, o, lots) PROVE Fine
  <2>1. PICK b \in BrokerIds : calls' = [calls EXCEPT ![a] =
          [Idle(q) EXCEPT !.pc = "submit", !.kind = kind, !.order = o, !.bid = b]]
    BY <1>3 DEF Send
  <2>2. [Idle(q) EXCEPT !.pc = "submit", !.kind = kind, !.order = o, !.bid = b].pc # "mark"
    BY IdleCall DEF Fields
  <2>3. QED BY <1>2, <1>3, <2>1, <2>2
<1> HIDE DEF Fine
<1>4. ASSUME calls' = calls PROVE Fine
  BY <1>4 DEF Fine
<1>5. ASSUME NEW q \in Processes, Boot(q) \/ Promote(q) \/ Lose(q) \/ Crash(q) \/ Tick(q) PROVE Fine
  <2>1. CASE Crash(q)
    <3>1. calls'[p] = IF calls[p].proc = q THEN Idle(q) ELSE calls[p]
      BY <1>0, <2>1 DEF Crash
    <3>2. QED BY <3>1, IdleCall DEF Fine, At
  <2>2. CASE Tick(q)
    BY <1>1, <2>2 DEF Tick, Actors
  <2>3. QED BY <1>4, <1>5, <2>1, <2>2 DEF Boot, Promote, Lose
<1>6. ASSUME NEW q \in Processes,
             \/ FindOpen(q) \/ SkipOrder(q) \/ AskOrder(q) \/ (\E b \in BrokerIds : MatchFill(q, b)) \/ GetFills(q)
      PROVE  Fine
  <2>1. q \in Actors /\ DOMAIN calls[q] = Fields
    BY <1>0 DEF Actors
  <2>2. CASE FindOpen(q)
    BY <1>0, <2>1, <2>2 DEF FindOpen, Fields, Fine, At
  <2>3. CASE SkipOrder(q)
    BY <1>0, <2>1, <2>3 DEF SkipOrder, Fields, Fine, At
  <2>4. CASE AskOrder(q)
    <3>1. PICK r \in calls[q].open : calls' = [calls EXCEPT ![q] =
            IF exchange[r.bid].status = r.status
            THEN [calls[q] EXCEPT !.open = calls[q].open \ {r}]
            ELSE [calls[q] EXCEPT !.open = calls[q].open \ {r}, !.pc = "update",
                    !.order = r.order, !.bid = r.bid, !.status = exchange[r.bid].status]]
      BY <1>0, <2>1, <2>4 DEF AskOrder
    <3>2. calls[q].pc = "orders"
      BY <2>4 DEF AskOrder, At
    <3>3. QED BY <1>0, <2>1, <3>1, <3>2 DEF Fields, Fine, At
  <2>5. CASE \E b \in BrokerIds : MatchFill(q, b)
    BY <1>0, <2>1, <2>5 DEF MatchFill, Fields, Fine, At
  <2>6. CASE GetFills(q)
    BY <1>0, <2>1, <2>6 DEF GetFills, Fields, Fine, At
  <2>7. QED BY <1>6, <2>2, <2>3, <2>4, <2>5, <2>6
<1>7. ASSUME NEW q \in Processes,
             \/ UpdateOrder(q) \/ AppendFill(q) \/ AppendThrows(q) \/ FoldFill(q) \/ ReconcileDone(q)
             \/ GetFillsFails(q) \/ TickThrows(q) \/ BarsQuiet(q) \/ SquareOffNothing(q) \/ MarkThrows(q)
      PROVE  Fine
  <2>1. Finish(q) \/ \E pc \in {"orders", "fold", "fills", "bars"} : Goto(q, pc)
    BY <1>7 DEF UpdateOrder, AppendFill, AppendThrows, FoldFill, ReconcileDone, GetFillsFails, TickThrows,
       BarsQuiet, SquareOffNothing, MarkThrows
  <2>2. QED BY <1>1, <2>1 DEF Actors
<1>8. ASSUME NEW q \in Processes, Deciding(q) PROVE Fine
  <2>1. CASE SquareOffReads(q)
    BY <1>0, <2>1 DEF SquareOffReads, Fine, Actors
  <2>2. ASSUME NEW o \in Orders, BarTrades(q, o) \/ SquareOffSends(q, o) PROVE Fine
    BY <1>3, <2>2 DEF BarTrades, SquareOffSends, Actors
  <2>3. QED BY <1>7, <1>8, <2>1, <2>2 DEF Deciding
<1>9. ASSUME NEW a \in Actors, Submission(a) PROVE Fine
  <2>1. CASE PersistFinds(a)
    <3>1. calls' = [calls EXCEPT ![a] = [calls[a] EXCEPT !.pc = "write",
                            !.found = rows[calls[a].order].status # "ABSENT"]]
      BY <1>0, <2>1 DEF PersistFinds
    <3>2. [calls[a] EXCEPT !.pc = "write", !.found = rows[calls[a].order].status # "ABSENT"].pc # "mark"
      BY <1>0 DEF Fields
    <3>3. QED BY <1>2, <3>1, <3>2
  <2>2. CASE ~PersistFinds(a)
    <3>1. Finish(a) \/ Goto(a, "persist")
      BY <1>9, <2>2 DEF Submission, SubmitAcked, SubmitRefused, SubmitUncertain, PersistWrites, PersistFails, Return
    <3>2. QED BY <1>1, <3>1
  <2>3. QED BY <2>1, <2>2
<1>10. ASSUME NEW c \in Clicks,
              \/ \E q \in Processes : Flatten(c, q) \/ \E o \in Entries : Approve(c, q, o)
              \/ FlattenRefused(c) \/ \E o \in Exits : FlattenSends(c, o)
       PROVE  Fine
  <2>1. c \in Actors /\ c # p
    BY IdsAssumption DEF Actors
  <2>2. CASE FlattenRefused(c)
    BY <1>1, <2>1, <2>2 DEF FlattenRefused
  <2>3. ASSUME NEW q \in Processes, Flatten(c, q) PROVE Fine
    BY <1>0, <2>1, <2>3 DEF Flatten, Fine
  <2>4. QED BY <1>3, <1>10, <2>1, <2>2, <2>3 DEF Approve, FlattenSends
<1>11. CASE UNCHANGED vars \/ \E b \in BrokerIds : ExchangeAccepts(b) \/ ExchangeSettles(b)
  BY <1>4, <1>11 DEF vars, ExchangeAccepts, ExchangeSettles, Fine
<1>12. Fine
  BY <1>5, <1>6, <1>7, <1>8, <1>9, <1>10, <1>11 DEF Next, Reconciling, Fine
<1>13. QED BY <1>12 DEF Fine

\* Before the square-off a position is what was bought: its lots are held.
LEMMA PositionIsHeld ==
  ASSUME OnceInv, Entered, NoClosing, Weighed, ~squaredOff, NEW p \in Processes
  PROVE  Covers(-Position(p))
<1> DEFINE fs  == portfolio[p]
           ids == {f.fill : f \in fs}
<1>1. /\ IsFiniteSet(Held) /\ Held \subseteq BrokerIds /\ Opening \in Int /\ Opening >= 0
      /\ \A b \in BrokerIds : Weights[b] = exchange[b].lots /\ Weights[b] \in Int
      /\ Total(Weights, Held) \in Int
  BY HeldAddsUp
<1>2. \A f \in fs : /\ f.fill \in Held /\ f.fill \in BrokerIds
                    /\ f = [fill |-> f.fill, as |-> Attribution(f.fill)]
  BY DEF OnceInv, FiledOnce, Filed, Filled, Placed, Typed, Fill, Entered, Held
<1>3. IsFiniteSet(fs)
  BY FS_Subset DEF OnceInv, FiledOnce
<1>4. \A f, g \in fs : f.fill = g.fill => f = g
  BY <1>2
<1>5. ids \subseteq Held
  BY <1>2
<1>6. [f \in fs |-> exchange[f.fill].lots] = [f \in fs |-> Weights[f.fill]]
  BY <1>1, <1>2
<1>7. Position(p) = Opening + Total([f \in fs |-> Weights[f.fill]], fs)
  BY <1>6 DEF Position, Lots, Total
<1>8. \A b \in Held : Weights[b] > 0
  BY <1>1 DEF Held
<1> HIDE DEF Weights, Held
<1>9. /\ IsFiniteSet(ids)
      /\ Total([f \in fs |-> Weights[f.fill]], fs) = Total(Weights, ids)
  BY <1>1, <1>2, <1>3, <1>4, TotalByName
<1> HIDE DEF fs
<1>10. \A b \in ids : Weights[b] \in Int /\ Weights[b] >= 0
  BY <1>1, <1>5, <1>8
<1> HIDE DEF ids
<1>11. Total(Weights, ids) \in Int /\ Total(Weights, {}) = 0
  BY <1>9, <1>10, TotalLess, TotalNone
<1>12. Total(Weights, {}) <= Total(Weights, ids)
  BY <1>9, <1>10, TotalGrows
<1>13. Total(Weights, ids) <= Total(Weights, Held)
  BY <1>1, <1>5, <1>8, TotalGrows
<1>14. QED BY <1>1, <1>7, <1>9, <1>11, <1>12, <1>13 DEF Covers

LEMMA SoldStep ==
  ASSUME FillsInv, InTurns, NoClosing, Sold, [Next]_vars
  PROVE  Sold'
<1> USE DEF FillsInv
<1>1. /\ Weighed' /\ Held \subseteq Held' /\ \A b \in Held : exchange'[b].lots = exchange[b].lots
      /\ \/ \A b \in BrokerIds : Placed(b)' = Placed(b) /\ exchange'[b].lots = exchange[b].lots
         \/ \E b \in BrokerIds :
              /\ ~Placed(b) /\ Placed(b)' /\ \A d \in BrokerIds : d # b => exchange'[d] = exchange[d]
              /\ \/ exchange'[b].lots = 1
                 \/ \E p \in Processes, o \in Orders : SquareOffSends(p, o) /\ exchange'[b].lots = calls[p].lots
  BY MoneyStep
<1>2. \A n : Covers(n) => Covers(n)'
  BY <1>1, CoversStill DEF Sold
<1>3. \/ \A b \in BrokerIds : Sale(b)' => Sale(b) /\ exchange'[b].lots = exchange[b].lots
      \/ \E b \in BrokerIds, p \in Processes, o \in Orders :
           /\ SquareOffSends(p, o) /\ exchange'[b].lots = calls[p].lots
           /\ \A d \in BrokerIds : d # b => exchange'[d] = exchange[d]
  BY <1>1 DEF Sale, Placed
<1>4. ASSUME \A b \in BrokerIds : Sale(b)' => Sale(b) /\ exchange'[b].lots = exchange[b].lots
      PROVE  /\ \A c, d \in BrokerIds : Sale(c)' /\ Sale(d)' => c = d
             /\ \A d \in BrokerIds : Sale(d)' => Covers(exchange[d].lots)'
  <2>1. \A b, c \in BrokerIds : Sale(b)' /\ Sale(c)' => b = c
    BY <1>4 DEF Sold
  <2>2. ASSUME NEW b \in BrokerIds, Sale(b)' PROVE Covers(exchange[b].lots)'
    <3>1. Covers(exchange[b].lots) /\ exchange'[b].lots = exchange[b].lots
      BY <1>4, <2>2 DEF Sold
    <3>2. QED BY <1>2, <3>1 DEF Covers
  <2>3. QED BY <2>1, <2>2
\* Before the square-off there is no other exit.
<1>5. ASSUME NEW b \in BrokerIds, NEW p \in Processes, NEW o \in Orders, SquareOffSends(p, o),
             exchange'[b].lots = calls[p].lots, \A d \in BrokerIds : d # b => exchange'[d] = exchange[d]
      PROVE  /\ \A c, d \in BrokerIds : Sale(c)' /\ Sale(d)' => c = d
             /\ \A d \in BrokerIds : Sale(d)' => Covers(exchange[d].lots)'
  <2>1. ~squaredOff /\ Covers(calls[p].lots)
    BY <1>5 DEF SquareOffSends, Sold
  <2>2. \A d \in BrokerIds : d # b => ~Sale(d)'
    BY <1>5, <2>1 DEF Entered, Sale, Placed
  <2>3. Covers(exchange[b].lots)'
    BY <1>2, <1>5, <2>1 DEF Covers
  <2>4. QED BY <2>2, <2>3
<1>6. ASSUME NEW p \in Processes, At(p, "mark")' PROVE ~squaredOff' /\ Covers(calls[p].lots)'
  <2>1. CASE SquareOffReads(p)
    <3>1. p \in Actors /\ DOMAIN calls = Actors /\ DOMAIN calls[p] = Fields
      BY DEF OnceInv, Typed, CallTyped, Shape, Actors
    <3> DEFINE lots == -Position(p)
    <3>2. calls' = [calls EXCEPT ![p].pc = "mark", ![p].lots = lots]
      BY <2>1 DEF SquareOffReads
    <3>3. Covers(lots) /\ ~squaredOff /\ squaredOff' = squaredOff
      BY <2>1, PositionIsHeld DEF SquareOffReads, Sold, db
    <3> HIDE DEF lots
    <3>4. calls'[p].lots = lots
      BY <3>1, <3>2 DEF Fields
    <3>5. \A n : Covers(n) /\ n = calls'[p].lots => Covers(calls[p].lots)'
      BY <1>2 DEF Covers
    <3>6. QED BY <3>3, <3>4, <3>5
  <2>2. CASE calls'[p] = calls[p]
    <3>1. At(p, "mark") /\ p \in Actors
      BY <1>6, <2>2 DEF At, Actors
    <3>2. ~squaredOff /\ Covers(calls[p].lots)
      BY <3>1 DEF Sold
    <3>3. ASSUME NEW q \in Processes, At(q, "mark"), squaredOff' # squaredOff,
                 SquareOffNothing(q) \/ MarkThrows(q) \/ \E o \in Orders : SquareOffSends(q, o)
          PROVE  FALSE
      <4>1. q = p
        BY <3>1, <3>3, LoopCall DEF OnceInv, Turns, Sends, At
      <4>2. DOMAIN calls = Actors
        BY DEF OnceInv, Typed, Shape
      <4>3. CASE Finish(p)
        <5>1. calls'[p].pc = "idle"
          BY <3>1, <4>3, CallChanges
        <5>2. QED BY <1>6, <5>1 DEF At
      <4>4. ASSUME NEW o \in Orders, SquareOffSends(p, o) PROVE FALSE
        <5>1. PICK b \in BrokerIds : calls' = [calls EXCEPT ![p] =
                [Idle(p) EXCEPT !.pc = "submit", !.kind = "exit", !.order = o, !.bid = b]]
          BY <4>4 DEF SquareOffSends, Send
        <5>2. calls'[p].pc = "submit"
          BY <3>1, <4>2, <5>1, IdleCall DEF Fields
        <5>3. QED BY <1>6, <5>2 DEF At
      <4>5. QED BY <3>3, <4>1, <4>3, <4>4 DEF SquareOffNothing, MarkThrows
    <3>4. squaredOff' = squaredOff
      BY <3>3, StepsOfMark DEF SquareOffNothing, MarkThrows, SquareOffSends
    <3>5. \A n : Covers(n) /\ n = calls'[p].lots => Covers(calls[p].lots)'
      BY <1>2 DEF Covers
    <3>6. QED BY <2>2, <3>2, <3>4, <3>5
  <2>3. QED BY <1>6, <2>1, <2>2, StepsToMark
<1>7. /\ \A c, d \in BrokerIds : Sale(c)' /\ Sale(d)' => c = d
      /\ \A d \in BrokerIds : Sale(d)' => Covers(exchange[d].lots)'
  BY <1>3, <1>4, <1>5
<1>8. QED BY <1>1, <1>6, <1>7 DEF Sold

LEMMA SoldIsNeverShort == OnceInv /\ Sold => NeverShort
<1> SUFFICES ASSUME OnceInv, Sold PROVE NeverShort
  OBVIOUS
<1> DEFINE selling == {b \in BrokerIds : exchange[b].lots < 0 /\ Live(b)}
<1>1. /\ IsFiniteSet(Held) /\ Held \subseteq BrokerIds /\ Opening \in Int /\ Opening >= 0
      /\ \A b \in BrokerIds : Weights[b] = exchange[b].lots /\ Weights[b] \in Int
      /\ Total(Weights, Held) \in Int
  BY HeldAddsUp DEF Sold
<1>2. NeverShort <=> Opening + Total(Weights, Held \cup selling) >= 0
  <2>1. Held = {b \in BrokerIds : exchange[b].lots > 0 /\ exchange[b].status = "FILLED"}
    BY DEF Held, Filled
  <2>2. QED BY <2>1 DEF NeverShort, Total, Weights
<1>3. \A b \in selling : b \in BrokerIds /\ Sale(b) /\ b \notin Held
  BY <1>1 DEF Live, Sale, Placed, Held
<1>4. \A b \in Held : Weights[b] \in Int /\ Weights[b] >= 0
  BY <1>1 DEF Held
<1> HIDE DEF selling
<1>5. CASE selling = {}
  <2>1. Held \cup selling = Held
    BY <1>5
  <2> HIDE DEF Weights, Held
  <2>2. Total(Weights, {}) = 0 /\ Total(Weights, {}) <= Total(Weights, Held)
    BY <1>1, <1>4, TotalNone, TotalGrows
  <2>3. QED BY <1>1, <1>2, <2>1, <2>2
<1>6. ASSUME NEW b \in selling PROVE NeverShort
  <2>1. Held \cup selling = Held \cup {b}
    BY <1>3, <1>6 DEF Sold
  <2>2. Covers(Weights[b]) /\ b \in BrokerIds /\ b \notin Held
    <3>1. b \in BrokerIds /\ b \notin Held /\ Weights[b] = exchange[b].lots
      BY <1>1, <1>3, <1>6
    <3>2. QED BY <1>3, <1>6, <3>1 DEF Sold
  <2> HIDE DEF Weights, Held
  <2>3. Total(Weights, Held \cup {b}) = Total(Weights, Held) + Weights[b]
    <3>1. \A d \in Held \cup {b} : Weights[d] \in Int
      BY <1>1, <2>2
    <3>2. QED BY <1>1, <2>2, <3>1, TotalMore
  <2>4. Total(Weights, Held \cup selling) = Total(Weights, Held) + Weights[b]
    BY <2>1, <2>3
  <2>5. Opening + Total(Weights, Held) + Weights[b] >= 0 /\ Weights[b] \in Int
    BY <2>2 DEF Covers
  <2>6. QED BY <1>1, <1>2, <2>4, <2>5
<1>7. QED BY <1>5, <1>6

\* The exits on the account never add up to more than what there is to close: the
\* square-off happens once in a day and sells no more than was bought, whatever
\* happens to the processes, the broker and the database, and whatever row or mark
\* is not written.  Without manual exits, that is: the route that closes a position
\* learns of what is being sold from the rows, which need not be there.
THEOREM NobodySellsTwice ==
  ASSUME InTurns, NoClosing
  PROVE  Spec => []NeverShort
<1>1. FillsInv /\ [Next]_vars => FillsInv'
  BY FillsStep
<1>2. FillsInv /\ Sold /\ [Next]_vars => Sold'
  BY SoldStep
<1>3. FillsInv /\ Sold => NeverShort
  BY SoldIsNeverShort DEF FillsInv
<1>4. QED BY <1>1, <1>2, <1>3, FillsInit, InitSold, PTL DEF Spec
=============================================================================
