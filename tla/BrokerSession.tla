---------------------------- MODULE BrokerSession ----------------------------
(***************************************************************************)
(* The Kite session (src/execution/kiteSession.ts) and the calls made with *)
(* it (ZerodhaBroker.call in src/execution/zerodhaBroker.ts): a token that *)
(* lapses once a day, is replaced by an operator's login, and is marked    *)
(* invalid when Kite rejects it, while other calls are under way.  A token *)
(* stands for the login that produced it.  How an order or a fill is       *)
(* written for Kite is left out: an answer is told apart by its class.     *)
(***************************************************************************)
EXTENDS Integers, FiniteSets

CONSTANTS
  Callers,     \* calls that may be under way at once
  Tokens,      \* access tokens; each is the result of one login
  Seed,        \* KITE_ACCESS_TOKEN, one of the tokens
  Day, Expiry, \* moments in a day, and the moment of the day tokens lapse
  MaxClock,    \* bound: the clock stops here
  MaxFaults    \* bound: crashes, failing writes, calls that go wrong

ASSUME SessionAssumption ==
  /\ Day \in Nat \ {0} /\ Expiry \in 0..Day - 1 /\ MaxClock \in Nat /\ MaxFaults \in Nat
  /\ Seed \in Tokens

VARIABLES
  clock,
  alive,     \* the process runs
  session,   \* the token held in memory and when it was obtained
  invalidated, \* invalidatedAt is set
  alarmed,   \* the critical alert about this session went out
  row,       \* the stored session
  writes,    \* statements on the row under way, with who waits for each
  call,      \* per caller: the call it is in
  kite,      \* tokens Kite accepts
  issued,    \* tokens handed out so far
  faults

sessionVars == <<clock, alive, session, invalidated, alarmed, row, writes, call, kite, issued, faults>>

NoSession == [token |-> "none", at |-> 0]
Held      == [token : Tokens, at : 0..MaxClock] \cup {NoSession}
Methods   == {"GET", "POST"}
Results   == {"none", "ok", "retry", "fatal", "uncertain"}
Quiet     == [step |-> "idle", method |-> "GET", token |-> "none", placed |-> FALSE, result |-> "none"]

SessionTypeOK ==
  /\ clock \in 0..MaxClock /\ alive \in BOOLEAN /\ invalidated \in BOOLEAN /\ alarmed \in BOOLEAN
  /\ session \in Held /\ row \in Held
  /\ writes \subseteq [value : Held, why : {"adopt", "invalidate"}]
  /\ call \in [Callers -> [step : {"idle", "sent", "done"}, method : Methods,
                           token : Tokens \cup {"none"}, placed : BOOLEAN, result : Results]]
  /\ kite \subseteq issued /\ issued \subseteq Tokens /\ faults \in 0..MaxFaults

SessionInit ==
  /\ clock = 0 /\ alive = FALSE /\ session = NoSession /\ invalidated = FALSE /\ alarmed = FALSE
  /\ row = NoSession /\ writes = {} /\ call = [c \in Callers |-> Quiet]
  /\ kite = {Seed} /\ issued = {Seed} /\ faults = 0

-----------------------------------------------------------------------------
\* nextTokenExpiry: today's hour of expiry, or tomorrow's when it is past.
TodaysExpiry(t)    == Day * (t \div Day) + Expiry
NextTokenExpiry(t) == IF TodaysExpiry(t) > t THEN TodaysExpiry(t) ELSE TodaysExpiry(t) + Day
Unexpired(s)       == s # NoSession /\ NextTokenExpiry(s.at) > clock
CurrentToken       == IF ~invalidated /\ Unexpired(session) THEN session.token ELSE "none"

Write(v, why) == writes' = writes \cup {[value |-> v, why |-> why]}

\* adopt(): in memory at once, in the table when the write lands.
Adopt(s) == session' = s /\ invalidated' = FALSE /\ alarmed' = FALSE /\ Write(s, "adopt")

\* load(): the stored session if it is not past its expiry, the seed otherwise.
Boot ==
  /\ ~alive /\ alive' = TRUE
  /\ \/ /\ Unexpired(row)
        /\ session' = row /\ invalidated' = FALSE /\ alarmed' = FALSE /\ UNCHANGED writes
     \/ /\ ~Unexpired(row) /\ Adopt([token |-> Seed, at |-> clock])
     \/ /\ ~Unexpired(row)           \* no seed is configured
        /\ session' = NoSession /\ invalidated' = FALSE /\ alarmed' = FALSE /\ UNCHANGED writes
  /\ UNCHANGED <<clock, row, call, kite, issued, faults>>

\* POST /api/broker/session: the login ends the session before it, at Kite.
Login(t) ==
  /\ alive /\ t \notin issued
  /\ issued' = issued \cup {t} /\ kite' = {t}
  /\ Adopt([token |-> t, at |-> clock])
  /\ UNCHANGED <<clock, alive, row, call, faults>>

\* invalidate(): once per session; the alert waits for the write.
Invalidate == IF invalidated THEN UNCHANGED <<invalidated, writes>> ELSE invalidated' = TRUE /\ Write(NoSession, "invalidate")

WriteLands(w) ==
  /\ w \in writes /\ writes' = writes \ {w} /\ row' = w.value
  /\ alarmed' = (alarmed \/ (alive /\ w.why = "invalidate" /\ invalidated))
  /\ UNCHANGED <<clock, alive, session, invalidated, call, kite, issued, faults>>

\* A process that dies forgets all but the row; its statements may still land.
LosesMemory ==
  /\ alive' = FALSE /\ session' = NoSession /\ invalidated' = FALSE /\ alarmed' = FALSE
  /\ call' = [c \in Callers |-> Quiet]
SessionDies ==
  /\ alive /\ faults < MaxFaults /\ faults' = faults + 1 /\ LosesMemory
  /\ UNCHANGED <<clock, row, writes, kite, issued>>

SwallowedFailure(w) == UNCHANGED <<alive, session, invalidated, alarmed, call>>   \* mutant: .catch(() => undefined)

\* Nobody catches a failure inside `void session.invalidate(...)`: the process
\* dies of it.  A login whose write fails is answered with an error and stays.
OnWriteFailure(w) ==
  IF alive /\ w.why = "invalidate" THEN LosesMemory ELSE UNCHANGED <<alive, session, invalidated, alarmed, call>>
WriteFails(w) ==
  /\ w \in writes /\ writes' = writes \ {w}
  /\ faults < MaxFaults /\ faults' = faults + 1
  /\ OnWriteFailure(w)
  /\ UNCHANGED <<clock, row, kite, issued>>

-----------------------------------------------------------------------------
\* call(): the token is read when the request is sent.  Without one, headers()
\* throws where a failure of the network is caught.
Thrown(m) == IF m = "GET" THEN "retry" ELSE "uncertain"
Send(c, m) ==
  /\ alive /\ call[c].step = "idle"
  /\ call' = [call EXCEPT ![c] =
       IF CurrentToken = "none"
       THEN [Quiet EXCEPT !.step = "done", !.method = m, !.result = Thrown(m)]
       ELSE [Quiet EXCEPT !.step = "sent", !.method = m, !.token = CurrentToken]]
  /\ UNCHANGED <<clock, alive, session, invalidated, alarmed, row, writes, kite, issued, faults>>

\* Kite takes the request, and places its order or does not.
Arrives(c) ==
  /\ call[c].step = "sent" /\ call[c].method = "POST" /\ ~call[c].placed
  /\ call[c].token \in kite
  /\ call' = [call EXCEPT ![c].placed = TRUE]
  /\ UNCHANGED <<clock, alive, session, invalidated, alarmed, row, writes, kite, issued, faults>>

\* The answer, as call() classes it.
Answers(k) ==
  CASE k.method = "GET"               -> IF k.token \in kite THEN {"ok"} ELSE {"token"}
    [] k.method = "POST" /\ k.placed  -> {"ok"}
    [] k.method = "POST" /\ ~k.placed -> IF k.token \in kite THEN {"refused", "limited"} ELSE {"token"}
\* Whatever became of the order: no answer, one that cannot be read, a 5xx, a
\* 2xx without data.  The last is an error of its own, whatever the method.
Troubles == {"lost", "garbled", "broken", "empty"}
Classed(m, a) ==
  CASE a = "ok"                            -> "ok"
    [] a \in {"token", "refused", "empty"} -> "fatal"
    [] a = "limited"                       -> "retry"
    [] OTHER                               -> Thrown(m)
GatewayErrorsRetried(m, a) ==   \* mutant: a 5xx is an ordinary failure
  IF a = "broken" THEN "retry" ELSE Classed(m, a)
ClassedAs(m, a) == Classed(m, a)

CallAnswered(c, a) ==
  /\ call' = [call EXCEPT ![c].step = "done", ![c].result = ClassedAs(call[c].method, a)]
  /\ IF a = "token" THEN Invalidate ELSE UNCHANGED <<invalidated, writes>>
  /\ UNCHANGED <<clock, alive, session, alarmed, row, kite, issued>>
Answer(c) ==
  /\ call[c].step = "sent"
  /\ \/ \E a \in Answers(call[c]) : CallAnswered(c, a) /\ UNCHANGED faults
     \/ /\ faults < MaxFaults /\ faults' = faults + 1
        /\ \E a \in Troubles : CallAnswered(c, a)

Return(c) ==
  /\ call[c].step = "done" /\ call' = [call EXCEPT ![c] = Quiet]
  /\ UNCHANGED <<clock, alive, session, invalidated, alarmed, row, writes, kite, issued, faults>>

\* Kite lapses every token at the hour of expiry.
Passes ==
  /\ clock < MaxClock /\ clock' = clock + 1
  /\ kite' = IF clock' = TodaysExpiry(clock') THEN {} ELSE kite
  /\ UNCHANGED <<alive, session, invalidated, alarmed, row, writes, call, issued, faults>>

SessionNext ==
  \/ Boot \/ SessionDies \/ Passes
  \/ \E t \in Tokens : Login(t)
  \/ \E w \in writes : WriteLands(w) \/ WriteFails(w)
  \/ \E c \in Callers : Answer(c) \/ Arrives(c) \/ Return(c) \/ \E m \in Methods : Send(c, m)

\* A statement is answered, or it fails.
SessionFairness == WF_sessionVars(\E w \in writes : WriteLands(w) \/ WriteFails(w))
SessionSpec == SessionInit /\ [][SessionNext]_sessionVars /\ SessionFairness

-----------------------------------------------------------------------------
(* Properties                                                              *)

\* The order manager sends a "retry" again (oms.ts submit), so the order must not
\* be at the exchange already, whatever went wrong on the way.  Of a "fatal" the
\* code gives no such promise: a 2xx without data is one (zerodhaBroker.ts call).
RetriedMeansNotPlaced ==
  \A c \in Callers : call[c].result = "retry" => ~call[c].placed

\* A session that Kite rejected is announced to the operator, unless a login
\* replaces it first or the process is gone.
RejectionIsAnnounced == (alive /\ invalidated) ~> (alarmed \/ ~invalidated \/ ~alive)
=============================================================================
