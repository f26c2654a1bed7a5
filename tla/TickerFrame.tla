---------------------------- MODULE TickerFrame ----------------------------
(***************************************************************************)
(* The binary frames of the ticker (marketdata/kiteTicker.ts): a count, and *)
(* for each packet its length and its bytes.  A frame is a sequence of     *)
(* bytes; prices come out in paise.                                        *)
(***************************************************************************)
EXTENDS Integers, Sequences, SequencesExt

Byte(frame, at)  == frame[at + 1]       \* offsets count from 0
SignedByte(b)    == IF b >= 128 THEN b - 256 ELSE b
Int16(frame, at) == SignedByte(Byte(frame, at)) * 256 + Byte(frame, at + 1)
Int32(frame, at) ==
  SignedByte(Byte(frame, at)) * 16777216 + Byte(frame, at + 1) * 65536
  + Byte(frame, at + 2) * 256 + Byte(frame, at + 3)

\* Packet sizes, which identify the mode.
Ltp        == 8
IndexQuote == 28
IndexFull  == 32
Quote      == 44
Full       == 184

Segment(token) == token % 256
IsIndexToken(token) == Segment(token) = 9
\* priceDivisor(), of the price in paise.
PaiseDivisor(token) == CASE Segment(token) = 3 -> 100000 [] Segment(token) = 6 -> 100 [] OTHER -> 1

\* fromRupees(): halves go away from zero.
ToPaise(raw, divisor) ==
  IF raw < 0 THEN -((-2 * raw + divisor) \div (2 * divisor)) ELSE (2 * raw + divisor) \div (2 * divisor)

\* secondsToMs(); 0 stands for null.
NoTime == 0
Clock(seconds) == IF seconds > 0 THEN seconds ELSE NoTime

\* decodePacket(): the length tells the mode, and nothing else is guessed at.
Skipped(packet) == Len(packet) < Quote /\ Len(packet) \notin {Ltp, IndexQuote, IndexFull}
Decode(packet) ==
  LET token == Int32(packet, 0)
      price == ToPaise(Int32(packet, 4), PaiseDivisor(token))
      tick(quantity, time) == [token |-> token, price |-> price, quantity |-> quantity, time |-> time]
  IN  CASE Len(packet) = IndexFull           -> tick(0, Clock(Int32(packet, 28)))
        [] Len(packet) \in {IndexQuote, Ltp} -> tick(0, NoTime)
        [] Len(packet) >= Quote              ->
             tick(Int32(packet, 8), IF Len(packet) >= Full THEN Clock(Int32(packet, 60)) ELSE NoTime)

\* parseTickerFrame(): what can be read of the packets announced.
Parse(frame) ==
  LET whole(at) == /\ at + 2 <= Len(frame)
                   /\ Int16(frame, at) > 0 /\ at + 2 + Int16(frame, at) <= Len(frame)
      from[left \in Nat, at \in Nat] ==
        IF left = 0 \/ ~whole(at) THEN <<>>
        ELSE LET packet == SubSeq(frame, at + 3, at + 2 + Int16(frame, at))
             IN  (IF Skipped(packet) THEN <<>> ELSE <<Decode(packet)>>)
                 \o from[left - 1, at + 2 + Int16(frame, at)]
  IN  IF Len(frame) <= 2 \/ Int16(frame, 0) <= 0 THEN <<>> ELSE from[Int16(frame, 0), 2]

\* onBinary(): the packets of known symbols, stamped by the exchange or on
\* arrival.
Ticks(frame, known, now) ==
  LET packets == SelectSeq(Parse(frame), LAMBDA p : p.token \in known)
  IN  [i \in DOMAIN packets |->
         [packets[i] EXCEPT !.time = IF @ = NoTime THEN now ELSE @]]
=============================================================================
