------------------------ MODULE AccountingMoney_proofs ------------------------
(***************************************************************************)
(* The money of the episodes: what they say they were charged and what     *)
(* they say they realized, against the executions they were made of.       *)
(***************************************************************************)
EXTENDS Accounting_proofs, Sums_proofs

---------------------------------------------------------------------------
(* What an execution makes of the money of a ledger.                       *)

\* What _record adds to the fees of an episode.
Charge(fill, chargeFee) == IF chargeFee /\ Fee(fill) # None THEN Fee(fill) ELSE 0

\* An episode that goes on with a fill, and one that starts with it.
Books(e, old, fill, chargeFee, gain, basisKnown) ==
    /\ e.fills = old.fills \cup {fill.id}
    /\ e.fees = old.fees + Charge(fill, chargeFee)
    /\ e.feeComplete => old.feeComplete /\ chargeFee /\ Fee(fill) # None
    /\ e.realized = old.realized + gain
    /\ e.costComplete <=> old.costComplete /\ basisKnown

Starts(e, fill, chargeFee) ==
    /\ e \in Episode /\ e.fills = {fill.id} /\ e.closedBy = "nothing"
    /\ e.fees = Charge(fill, chargeFee)
    /\ e.feeComplete => chargeFee /\ Fee(fill) # None
    /\ e.realized = 0 /\ (e.costComplete <=> Price(fill) # None)

LEMMA RecordedMoney ==
    ASSUME NEW episode \in Episode, NEW fill \in Fill, NEW opened, NEW closed,
           NEW gain, NEW after, NEW basisKnown, NEW chargeFee \in BOOLEAN,
           NEW e, e = Executed(episode, fill, opened, closed, gain, after, basisKnown, chargeFee)
    PROVE  Books(e, episode, fill, chargeFee, gain, basisKnown) /\ e.closedBy = episode.closedBy
  <1> DEFINE fills == episode.fills \cup {fill.id}
             open == episode.opened + opened
             close == episode.closed + closed
             left == Abs(after)
             realized == episode.realized + gain
             cost == episode.costComplete /\ basisKnown
             fees == IF chargeFee /\ Fee(fill) # None THEN episode.fees + Fee(fill) ELSE episode.fees
             fee == episode.feeComplete /\ chargeFee /\ Fee(fill) # None
  <1>1. e = [episode EXCEPT !.fills = fills, !.opened = open, !.closed = close,
                            !.remaining = left, !.realized = realized, !.costComplete = cost,
                            !.fees = fees, !.feeComplete = fee, !.last = fill.time]
    BY Zenon DEF Executed
  <1>2. fills = episode.fills \cup {fill.id} /\ realized = episode.realized + gain
    OBVIOUS
  <1>3. cost <=> episode.costComplete /\ basisKnown
    OBVIOUS
  <1>4. fee => episode.feeComplete /\ chargeFee /\ Fee(fill) # None
    OBVIOUS
  <1>5. fees = episode.fees + Charge(fill, chargeFee)
    <2>1. episode.fees \in Int /\ Fee(fill) \in Int
      BY FillWorth DEF Episode
    <2> QED
      BY <2>1 DEF Charge
  <1> HIDE DEF fills, open, close, left, realized, cost, fees, fee
  <1>6. /\ e.fills = fills /\ e.fees = fees /\ e.feeComplete = fee
        /\ e.realized = realized /\ e.costComplete = cost /\ e.closedBy = episode.closedBy
    BY <1>1, Zenon DEF Episode
  <1> QED
    BY <1>2, <1>3, <1>4, <1>5, <1>6, Zenon DEF Books

LEMMA OpeningMoney ==
    ASSUME NEW ledger \in MarketLedger, NEW fill \in Fill, NEW after \in Int,
           NEW chargeFee \in BOOLEAN, NEW l, l = Opening(ledger, fill, after, chargeFee)
    PROVE  /\ l.position = after /\ l.past = ledger.past /\ Starts(l.current, fill, chargeFee)
           /\ l.average = Price(fill) /\ (l.costComplete <=> Price(fill) # None)
  <1> DEFINE new == NewEpisode(fill.id, Sign(after), fill.time)
             known == Price(fill) # None
             e == Executed(new, fill, Abs(after), 0, 0, after, known, chargeFee)
  <1>1. l = [ledger EXCEPT !.position = after, !.average = Price(fill), !.costComplete = known,
                           !.current = e]
    BY DEF Opening
  <1>2. e = Executed(new, fill, Abs(after), 0, 0, after, known, chargeFee)
    OBVIOUS
  <1>3. new \in Episode /\ new.closedBy = "nothing" /\ Abs(after) \in Nat /\ 0 \in Nat /\ 0 \in Int
    BY FillWorth, FreshEpisode DEF Sign, Abs
  <1>4. /\ new.fills = {} /\ new.fees = 0 /\ new.realized = 0 /\ new.costComplete
    BY DEF NewEpisode
  <1>5. known <=> Price(fill) # None
    OBVIOUS
  <1> HIDE DEF new, known, e
  <1>6. Books(e, new, fill, chargeFee, 0, known) /\ e \in Episode /\ e.closedBy = new.closedBy
    BY <1>2, <1>3, RecordedMoney, Recorded
  <1>7. /\ l.position = after /\ l.past = ledger.past /\ l.current = e
        /\ l.average = Price(fill) /\ l.costComplete = known
    BY <1>1, Zenon DEF MarketLedger
  <1>8. Charge(fill, chargeFee) \in Int
    BY FillWorth DEF Charge
  <1>9. e.fees = Charge(fill, chargeFee) /\ e.realized = 0
    BY <1>4, <1>6, <1>8 DEF Books
  <1> QED
    BY <1>3, <1>4, <1>5, <1>6, <1>7, <1>9, Zenon DEF Books, Starts

\* The closed episode of a ledger that an execution took to zero.
Closes(l, ledger, fill, chargeFee) ==
    \E e \in Episode :
        /\ l.past = ledger.past \cup {e} /\ e.closedBy = "fill"
        /\ Books(e, ledger.current, fill, chargeFee, Gain(ledger, fill, Abs(ledger.position)),
                 Priced(ledger, fill))

LEMMA ClosingMoney ==
    ASSUME NEW ledger \in MarketLedger, NEW fill \in Fill, NEW chargeFee \in BOOLEAN,
           NEW l, l = Closing(ledger, fill, chargeFee)
    PROVE  Closes(l, ledger, fill, chargeFee) /\ l.position = 0 /\ l.current = NoEpisode
  <1> DEFINE closed == Abs(ledger.position)
             gain == Gain(ledger, fill, closed)
             priced == Priced(ledger, fill)
             r == Executed(ledger.current, fill, 0, closed, gain, 0, priced, chargeFee)
             e == [r EXCEPT !.closedBy = "fill"]
  <1>1. l = [ledger EXCEPT !.position = 0, !.average = None, !.costComplete = TRUE,
                           !.current = NoEpisode, !.past = @ \cup {e}]
    BY DEF Closing
  <1>2. r = Executed(ledger.current, fill, 0, closed, gain, 0, priced, chargeFee)
        /\ ledger.current \in Episode
    BY DEF MarketLedger
  <1>3. gain = Gain(ledger, fill, Abs(ledger.position)) /\ closed = Abs(ledger.position)
        /\ (priced <=> Priced(ledger, fill))
    OBVIOUS
  <1>4. closed \in Nat
    BY DEF Abs, MarketLedger
  <1>5. gain \in Int
    BY <1>3, <1>4, GainIsMoney
  <1> HIDE DEF closed, gain, priced, r
  <1>6. Books(r, ledger.current, fill, chargeFee, gain, priced) /\ r \in Episode
    <2> DEFINE cur == ledger.current
               zero == 0
    <2>1. zero \in Nat /\ zero \in Int /\ cur \in Episode
      BY <1>2
    <2>2. r = Executed(cur, fill, zero, closed, gain, zero, priced, chargeFee)
      BY <1>2
    <2>3. r \in Episode => Books(r, cur, fill, chargeFee, gain, priced)
      BY <1>2, RecordedMoney
    <2> HIDE DEF cur, zero
    <2>4. r \in Episode
      BY ONLY <2>1, <2>2, <1>4, <1>5, fill \in Fill, Recorded
    <2> QED
      BY <2>3, <2>4 DEF cur
  <1>7. /\ e \in Episode /\ e.closedBy = "fill" /\ e.fills = r.fills /\ e.fees = r.fees
        /\ e.feeComplete = r.feeComplete /\ e.realized = r.realized
        /\ e.costComplete = r.costComplete
    BY <1>6 DEF Episode
  <1> HIDE DEF e
  <1>8. l.position = 0 /\ l.current = NoEpisode /\ l.past = ledger.past \cup {e}
    BY <1>1, Zenon DEF MarketLedger
  <1>9. Books(e, ledger.current, fill, chargeFee, gain, priced)
    BY <1>6, <1>7, Zenon DEF Books
  <1>10. Books(e, ledger.current, fill, chargeFee, Gain(ledger, fill, Abs(ledger.position)),
               Priced(ledger, fill))
    BY <1>3, <1>9 DEF Books
  <1> QED
    BY <1>7, <1>8, <1>10 DEF Closes

\* The current episode goes on: on more contracts, at a new average, or on
\* fewer, at the same one.
GoesOn(l, ledger, fill, after, gain, basisKnown) ==
    /\ l.position = after /\ l.past = ledger.past
    /\ l.current \in Episode /\ l.current.closedBy = ledger.current.closedBy
    /\ Books(l.current, ledger.current, fill, TRUE, gain, basisKnown)

\* The average after more was bought, where both prices are known.
NewAverage(ledger, fill, after) ==
    (ledger.average * Abs(ledger.position) + Price(fill) * Count(fill)) \div Abs(after)

Increases(l, ledger, fill, after) ==
    LET known == Price(fill) # None /\ ledger.average # None
    IN  /\ GoesOn(l, ledger, fill, after, 0, ledger.costComplete /\ known)
        /\ l.average = IF known THEN NewAverage(ledger, fill, after) ELSE None
        /\ l.costComplete <=> ledger.costComplete /\ known

Reduces(l, ledger, fill, after) ==
    /\ GoesOn(l, ledger, fill, after, Gain(ledger, fill, Count(fill)), Priced(ledger, fill))
    /\ l.average = ledger.average /\ (l.costComplete <=> Priced(ledger, fill))

LEMMA IncreasingMoney ==
    ASSUME NEW ledger \in MarketLedger, NEW fill \in Fill, NEW after \in Int,
           NEW l, l = Increasing(ledger, fill, after)
    PROVE  Increases(l, ledger, fill, after)
  <1> DEFINE known == Price(fill) # None /\ ledger.average # None
             average == IF known THEN NewAverage(ledger, fill, after) ELSE None
             basis == ledger.costComplete /\ known
             charged == TRUE
             e == Executed(ledger.current, fill, Count(fill), 0, 0, after, basis, charged)
  <1>1. l = [ledger EXCEPT !.position = after, !.average = average, !.costComplete = basis,
                           !.current = e]
    BY DEF Increasing, NewAverage
  <1>2. e = Executed(ledger.current, fill, Count(fill), 0, 0, after, basis, charged)
        /\ ledger.current \in Episode /\ charged = TRUE
    BY DEF MarketLedger
  <1>3. Count(fill) \in Nat /\ 0 \in Nat /\ 0 \in Int
    BY FillWorth
  <1>4. /\ basis <=> ledger.costComplete /\ Price(fill) # None /\ ledger.average # None
        /\ average = IF Price(fill) # None /\ ledger.average # None
                     THEN NewAverage(ledger, fill, after) ELSE None
    OBVIOUS
  <1> HIDE DEF known, average, basis, charged, e
  <1>5. e \in Episode /\ e.closedBy = ledger.current.closedBy
    <2>1. e = Executed(ledger.current, fill, Count(fill), 0, 0, after, basis, charged)
      BY <1>2
    <2>2. ledger.current \in Episode
      BY <1>2
    <2>3. /\ e \in Episode /\ e.opening = ledger.current.opening /\ e.sign = ledger.current.sign
          /\ e.closedBy = ledger.current.closedBy /\ e.remaining = Abs(after)
      BY <2>1, <2>2, <1>3, Recorded
    <2> QED
      BY <2>3
  <1>6. Books(e, ledger.current, fill, charged, 0, basis)
    <2>1. charged \in BOOLEAN
      BY <1>2
    <2> QED
      BY <1>2, <2>1, RecordedMoney
  <1>7. /\ l.position = after /\ l.past = ledger.past /\ l.current = e
        /\ l.average = average /\ l.costComplete = basis
    BY <1>1, Zenon DEF MarketLedger
  <1>8. GoesOn(l, ledger, fill, after, 0,
               ledger.costComplete /\ Price(fill) # None /\ ledger.average # None)
    BY <1>2, <1>4, <1>5, <1>6, <1>7 DEF GoesOn, Books
  <1> QED
    BY <1>4, <1>7, <1>8 DEF Increases, GoesOn, Books

LEMMA ReducingMoney ==
    ASSUME NEW ledger \in MarketLedger, NEW fill \in Fill, NEW after \in Int,
           NEW l, l = Reducing(ledger, fill, after)
    PROVE  Reduces(l, ledger, fill, after)
  <1> DEFINE priced == Priced(ledger, fill)
             gain == Gain(ledger, fill, Count(fill))
             charged == TRUE
             e == Executed(ledger.current, fill, 0, Count(fill), gain, after, priced, charged)
  <1>1. l = [ledger EXCEPT !.position = after, !.costComplete = priced, !.current = e]
    BY DEF Reducing
  <1>2. e = Executed(ledger.current, fill, 0, Count(fill), gain, after, priced, charged)
        /\ ledger.current \in Episode /\ charged = TRUE
    BY DEF MarketLedger
  <1>3. Count(fill) \in Nat /\ 0 \in Nat
    BY FillWorth
  <1>4. gain \in Int
    BY <1>3, GainIsMoney
  <1>5. (priced <=> Priced(ledger, fill)) /\ gain = Gain(ledger, fill, Count(fill))
    OBVIOUS
  <1> HIDE DEF priced, gain, charged, e
  <1>6. e \in Episode /\ e.closedBy = ledger.current.closedBy
    <2>1. e = Executed(ledger.current, fill, 0, Count(fill), gain, after, priced, charged)
      BY <1>2
    <2>2. ledger.current \in Episode
      BY <1>2
    <2>3. /\ e \in Episode /\ e.opening = ledger.current.opening /\ e.sign = ledger.current.sign
          /\ e.closedBy = ledger.current.closedBy /\ e.remaining = Abs(after)
      BY <2>1, <2>2, <1>3, <1>4, Recorded
    <2> QED
      BY <2>3
  <1>7. Books(e, ledger.current, fill, charged, gain, priced)
    <2>1. charged \in BOOLEAN
      BY <1>2
    <2> QED
      BY <1>2, <2>1, RecordedMoney
  <1>8. /\ l.position = after /\ l.past = ledger.past /\ l.current = e
        /\ l.average = ledger.average /\ l.costComplete = priced
    BY <1>1, Zenon DEF MarketLedger
  <1>9. GoesOn(l, ledger, fill, after, Gain(ledger, fill, Count(fill)), Priced(ledger, fill))
    BY <1>2, <1>5, <1>6, <1>7, <1>8 DEF GoesOn, Books
  <1> QED
    BY <1>5, <1>8, <1>9 DEF Reduces

\* What apply_fill does to the money: it opens, closes, reverses, increases or
\* reduces.
AppliedMoney(l, ledger, fill, after) ==
    \/ /\ ledger.position = 0 /\ l.past = ledger.past /\ Starts(l.current, fill, TRUE)
       /\ l.average = Price(fill) /\ (l.costComplete <=> Price(fill) # None)
    \/ /\ ledger.position # 0 /\ after = 0
       /\ l.current = NoEpisode /\ Closes(l, ledger, fill, TRUE)
    \/ /\ ledger.position # 0 /\ after # 0 /\ Sign(after) # Sign(ledger.position)
       /\ Closes(l, ledger, fill, FALSE) /\ Starts(l.current, fill, FALSE)
       /\ l.average = Price(fill) /\ (l.costComplete <=> Price(fill) # None)
    \/ /\ ledger.position # 0 /\ after # 0 /\ Sign(after) = Sign(ledger.position)
       /\ IF Abs(after) > Abs(ledger.position) THEN Increases(l, ledger, fill, after)
                                               ELSE Reduces(l, ledger, fill, after)

LEMMA ApplyingMoney ==
    ASSUME NEW ledger, Sound(ledger), NEW fill \in Fill,
           NEW l, l = Applied(ledger, fill)
    PROVE  /\ l.position = ledger.position + Signed(fill)
           /\ AppliedMoney(l, ledger, fill, ledger.position + Signed(fill))
  <1> DEFINE before == ledger.position
             after == before + Signed(fill)
             charged == TRUE
             alone == FALSE
  <1>0. ledger \in MarketLedger
    BY DEF Sound
  <1>1. /\ before \in Int /\ Signed(fill) \in Int /\ Signed(fill) # 0 /\ after \in Int
        /\ before = 0 => after # 0
    BY <1>0, FillWorth DEF MarketLedger
  <1>a. /\ before = 0 => l = Opening(ledger, fill, after, charged)
        /\ before # 0 /\ after = 0 => l = Closing(ledger, fill, charged)
        /\ before # 0 /\ after # 0 /\ Sign(after) # Sign(before) =>
              l = Opening(Closing(ledger, fill, alone), fill, after, alone)
        /\ before # 0 /\ after # 0 /\ Sign(after) = Sign(before) =>
              IF Abs(after) > Abs(before) THEN l = Increasing(ledger, fill, after)
                                          ELSE l = Reducing(ledger, fill, after)
    <2>1. before # 0 /\ after # 0 /\ Sign(after) # Sign(before) => Sign(after) = -Sign(before)
      BY <1>1 DEF Sign
    <2>2. before # 0 /\ (after = 0 \/ Sign(after) = Sign(before)) => Sign(after) # -Sign(before)
      BY <1>1 DEF Sign
    <2> QED
      BY <2>1, <2>2 DEF Applied, Reversing
  <1>b. after = ledger.position + Signed(fill) /\ before = ledger.position
        /\ charged \in BOOLEAN /\ alone \in BOOLEAN /\ charged = TRUE /\ alone = FALSE
    OBVIOUS
  <1> SUFFICES l.position = after /\ AppliedMoney(l, ledger, fill, after)
    OBVIOUS
  <1> HIDE DEF before, after, charged, alone
  <1>2. CASE before = 0
    <2>1. l = Opening(ledger, fill, after, charged)
      BY <1>2, <1>a
    <2>2. /\ l.position = after /\ l.past = ledger.past /\ Starts(l.current, fill, charged)
          /\ l.average = Price(fill) /\ (l.costComplete <=> Price(fill) # None)
      <3>1. after \in Int /\ charged \in BOOLEAN
        BY <1>1, <1>b
      <3> QED
        BY <3>1, <2>1, <1>0, OpeningMoney
    <2> QED
      BY <2>2, <1>2, <1>b DEF AppliedMoney
  <1>3. CASE before # 0 /\ after = 0
    <2>1. l = Closing(ledger, fill, charged)
      BY <1>3, <1>a
    <2>2. Closes(l, ledger, fill, charged) /\ l.position = 0 /\ l.current = NoEpisode
      BY <1>b, <2>1, <1>0, ClosingMoney
    <2> QED
      BY <2>2, <1>3, <1>b DEF AppliedMoney
  <1>4. CASE before # 0 /\ after # 0 /\ Sign(after) # Sign(before)
    <2> DEFINE mid == Closing(ledger, fill, alone)
    <2>1. l = Opening(mid, fill, after, alone) /\ mid = Closing(ledger, fill, alone)
      BY <1>4, <1>a
    <2>2. mid \in MarketLedger
      BY <1>4, <1>b, ClosingIsSound DEF Sound
    <2> HIDE DEF mid
    <2>3. Closes(mid, ledger, fill, alone)
      BY <1>b, <2>1, <1>0, ClosingMoney
    <2>4. l = Opening(mid, fill, after, alone)
      BY <2>1
    <2>5. /\ l.position = after /\ l.past = mid.past /\ Starts(l.current, fill, alone)
          /\ l.average = Price(fill) /\ (l.costComplete <=> Price(fill) # None)
      BY <1>1, <1>b, <2>2, <2>4, OpeningMoney
    <2>6. Closes(l, ledger, fill, alone)
      BY <2>3, <2>5 DEF Closes
    <2> QED
      BY <1>4, <1>b, <2>5, <2>6 DEF AppliedMoney
  <1>5. CASE before # 0 /\ after # 0 /\ Sign(after) = Sign(before)
    <2>1. CASE Abs(after) > Abs(before)
      <3>1. l = Increasing(ledger, fill, after)
        BY <1>5, <1>a, <2>1
      <3>2. Increases(l, ledger, fill, after)
        BY <1>1, <3>1, <1>0, IncreasingMoney
      <3>3. l.position = after
        BY <3>2 DEF Increases, GoesOn
      <3> QED
        BY <1>5, <1>b, <2>1, <3>2, <3>3 DEF AppliedMoney
    <2>2. CASE ~(Abs(after) > Abs(before))
      <3>1. l = Reducing(ledger, fill, after)
        BY <1>5, <1>a, <2>2
      <3>2. Reduces(l, ledger, fill, after)
        BY <1>1, <3>1, <1>0, ReducingMoney
      <3>3. l.position = after
        BY <3>2 DEF Reduces, GoesOn
      <3> QED
        BY <1>5, <1>b, <2>2, <3>2, <3>3 DEF AppliedMoney
    <2> QED
      BY <2>1, <2>2
  <1> QED
    BY <1>2, <1>3, <1>4, <1>5

\* What a settlement row adds to the fees of the episode it closes.
RowFee(row) == IF row.fee # None THEN row.fee ELSE 0

Settles(l, ledger, row) ==
    LET known == ledger.costComplete /\ ledger.average # None
    IN  /\ l.position = 0 /\ l.current = NoEpisode
        /\ \E e \in Episode :
              /\ l.past = ledger.past \cup {e} /\ e.closedBy = "settlement"
              /\ e.fills = ledger.current.fills
              /\ e.fees = ledger.current.fees + RowFee(row)
              /\ e.feeComplete => ledger.current.feeComplete
              /\ e.realized = ledger.current.realized
                                + (IF known THEN SettlementGain(ledger, row) ELSE 0)
              /\ e.costComplete <=> ledger.current.costComplete /\ known

LEMMA SettlingMoney ==
    ASSUME NEW ledger, Sound(ledger), ledger.position # 0, NEW row \in Settlement,
           NEW l, l = Settled(ledger, row)
    PROVE  Settles(l, ledger, row)
  <1> DEFINE c == ledger.current
             known == ledger.costComplete /\ ledger.average # None
             close == c.closed + Abs(ledger.position)
             realized == c.realized + (IF known THEN SettlementGain(ledger, row) ELSE 0)
             cost == c.costComplete /\ known
             fees == IF row.fee # None THEN c.fees + row.fee ELSE c.fees
             fee == c.feeComplete /\ row.fee # None
             e == [c EXCEPT !.closed = close, !.remaining = 0, !.closedBy = "settlement",
                            !.realized = realized, !.costComplete = cost,
                            !.fees = fees, !.feeComplete = fee, !.last = row.time]
  <1>1. c = ledger.current /\ c \in Episode /\ ledger \in MarketLedger
    BY DEF Sound, MarketLedger
  <1>2. l = [ledger EXCEPT !.position = 0, !.average = None, !.current = NoEpisode,
                           !.past = @ \cup {e}]
    BY Zenon DEF Settled
  <1>3. e = [c EXCEPT !.closed = close, !.remaining = 0, !.closedBy = "settlement",
                      !.realized = realized, !.costComplete = cost,
                      !.fees = fees, !.feeComplete = fee, !.last = row.time]
    OBVIOUS
  <1>4. fees = ledger.current.fees + RowFee(row)
    <2>1. ledger.current.fees \in Int
      BY <1>1 DEF Episode
    <2> QED
      BY <2>1 DEF RowFee
  <1>5. realized = ledger.current.realized
                    + (IF ledger.costComplete /\ ledger.average # None
                       THEN SettlementGain(ledger, row) ELSE 0)
    OBVIOUS
  <1>6. /\ cost <=> ledger.current.costComplete /\ ledger.costComplete /\ ledger.average # None
        /\ fee => ledger.current.feeComplete
    OBVIOUS
  <1>7. l \in MarketLedger
    BY SettlingIsSound DEF Sound
  <1> HIDE DEF c, known, close, realized, cost, fees, fee, e
  <1>8. /\ e.fills = c.fills /\ e.closedBy = "settlement" /\ e.fees = fees /\ e.feeComplete = fee
        /\ e.realized = realized /\ e.costComplete = cost
    BY <1>1, <1>3, Zenon DEF Episode
  <1>9. l.position = 0 /\ l.current = NoEpisode /\ l.past = ledger.past \cup {e}
    BY <1>1, <1>2, Zenon DEF MarketLedger
  <1>10. e \in Episode
    BY <1>7, <1>9 DEF MarketLedger
  <1> QED
    BY <1>1, <1>4, <1>5, <1>6, <1>8, <1>9, <1>10 DEF Settles

\* The steps that mark the episodes of a ledger leave its money alone.
SameMoney(e, old) ==
    /\ e.opening = old.opening /\ e.fills = old.fills /\ e.closedBy = old.closedBy
    /\ e.fees = old.fees /\ e.feeComplete = old.feeComplete
    /\ e.realized = old.realized /\ e.costComplete = old.costComplete

Remarks(m, l, ledger) ==
    /\ Episodes(l) = {m[e] : e \in Episodes(ledger)}
    /\ \A e \in Episodes(ledger) : SameMoney(m[e], e)
    /\ l.position = ledger.position /\ l.average = ledger.average
    /\ l.costComplete = ledger.costComplete

LEMMA UnresolvedMoney ==
    ASSUME NEW ledger, Sound(ledger), NEW l, l = ledger \/ l = Unresolved(ledger)
    PROVE  \E m : Remarks(m, l, ledger)
  <1>1. CASE l = ledger
    <2> DEFINE m == [e \in Episodes(ledger) |-> e]
    <2>1. Episodes(l) = {m[e] : e \in Episodes(ledger)}
      BY <1>1
    <2>2. \A e \in Episodes(ledger) : SameMoney(m[e], e)
      BY DEF SameMoney
    <2> QED
      BY <1>1, <2>1, <2>2 DEF Remarks
  <1>2. CASE l # ledger
    <2> DEFINE c == ledger.current
               e == [c EXCEPT !.outcomeProvable = FALSE]
               m == [x \in Episodes(ledger) |-> IF x = c THEN e ELSE x]
    <2>1. /\ c # NoEpisode /\ c \in Episode /\ ledger \in MarketLedger
          /\ l = [ledger EXCEPT !.current = e]
      BY <1>2 DEF Unresolved, Sound, MarketLedger
    <2>2. SameMoney(e, c) /\ ~e.outcomeProvable
      BY <2>1 DEF Episode, SameMoney
    <2>3. c \notin ledger.past
      BY <2>1 DEF Sound, FlatToFlat
    <2>4. e # NoEpisode
      BY <2>2 DEF NoEpisode, NewEpisode
    <2>c. c = ledger.current
      OBVIOUS
    <2>m. \A x \in Episodes(ledger) : m[x] = IF x = c THEN e ELSE x
      OBVIOUS
    <2> HIDE DEF e, c, m
    <2>5. /\ l.position = ledger.position /\ l.average = ledger.average
          /\ l.costComplete = ledger.costComplete /\ l.past = ledger.past /\ l.current = e
      BY <2>1, Zenon DEF MarketLedger
    <2>6. Episodes(ledger) = ledger.past \cup {c} /\ Episodes(l) = ledger.past \cup {e}
      BY <2>1, <2>4, <2>5, <2>c DEF Episodes
    <2>7. Episodes(l) = {m[x] : x \in Episodes(ledger)}
      BY <2>3, <2>6, <2>m
    <2>8. \A x \in Episodes(ledger) : SameMoney(m[x], x)
      BY <2>2, <2>m DEF SameMoney
    <2> QED
      BY <2>5, <2>7, <2>8 DEF Remarks
  <1> QED
    BY <1>1, <1>2

LEMMA AuthorisedMoney ==
    ASSUME NEW ledger, Sound(ledger), NEW l, l = Authorised(ledger)
    PROVE  \E m : Remarks(m, l, ledger)
  <1> DEFINE c == ledger.current
             open == OpenAuthority(ledger)
             Mark(e) == [e EXCEPT !.authority = ClosedAuthority(e)]
             provable == c.outcomeProvable /\ (SettlementEvidence \/ audit.floor = None
                                               \/ c.last >= audit.floor)
             covered == [c EXCEPT !.outcomeProvable = provable]
             marked == [covered EXCEPT !.authority = open]
             past == {Mark(e) : e \in ledger.past}
             current == IF c = NoEpisode THEN NoEpisode ELSE marked
             m == [x \in Episodes(ledger) |-> IF x \in ledger.past THEN Mark(x) ELSE marked]
  <1>1. l = [ledger EXCEPT !.past = past, !.current = current]
    BY DEF Authorised, Covered
  <1>2. c \in Episode /\ ledger.past \subseteq Episode /\ ledger \in MarketLedger
    BY DEF Sound, MarketLedger
  <1>3. \A e \in Episode : SameMoney(Mark(e), e)
    <2> TAKE e \in Episode
    <2> DEFINE a == ClosedAuthority(e)
               k == [e EXCEPT !.authority = a]
    <2>1. k = [e EXCEPT !.authority = a] /\ Mark(e) = k
      OBVIOUS
    <2> HIDE DEF a, k, Mark
    <2>2. /\ k.opening = e.opening /\ k.fills = e.fills /\ k.closedBy = e.closedBy
          /\ k.fees = e.fees /\ k.feeComplete = e.feeComplete
          /\ k.realized = e.realized /\ k.costComplete = e.costComplete
      BY <2>1, Zenon DEF Episode
    <2> QED
      BY <2>1, <2>2 DEF SameMoney
  <1>p. provable \in BOOLEAN
    OBVIOUS
  <1>4. /\ \A x \in Episodes(ledger) : m[x] = IF x \in ledger.past THEN Mark(x) ELSE marked
        /\ past = {Mark(x) : x \in ledger.past}
        /\ current = IF c = NoEpisode THEN NoEpisode ELSE marked
        /\ c = ledger.current
    OBVIOUS
  <1> HIDE DEF provable, open
  <1>5. /\ covered \in [opening : {c.opening}, sign : {c.sign}, fills : {c.fills},
            opened : {c.opened}, closed : {c.closed}, remaining : {c.remaining},
            realized : {c.realized}, costComplete : {c.costComplete}, fees : {c.fees},
            feeComplete : {c.feeComplete}, last : {c.last}, outcomeProvable : {provable},
            closedBy : {c.closedBy}, authority : {c.authority}]
        /\ covered.opening = c.opening /\ covered.fills = c.fills
        /\ covered.closedBy = c.closedBy /\ covered.fees = c.fees
        /\ covered.feeComplete = c.feeComplete /\ covered.realized = c.realized
        /\ covered.costComplete = c.costComplete
    BY <1>2, Zenon DEF Episode
  <1> HIDE DEF covered
  <1>6. /\ marked.opening = covered.opening /\ marked.fills = covered.fills
        /\ marked.closedBy = covered.closedBy /\ marked.fees = covered.fees
        /\ marked.feeComplete = covered.feeComplete /\ marked.realized = covered.realized
        /\ marked.costComplete = covered.costComplete
    BY <1>5, Zenon
  <1> HIDE DEF marked
  <1>7. SameMoney(marked, c)
    BY <1>5, <1>6 DEF SameMoney
  <1> HIDE DEF m, past, current, Mark, c
  <1>8. /\ l.position = ledger.position /\ l.average = ledger.average
        /\ l.costComplete = ledger.costComplete /\ l.past = past /\ l.current = current
    BY <1>1, <1>2, Zenon DEF MarketLedger
  <1>9. c # NoEpisode => marked # NoEpisode /\ c \notin ledger.past
    <2>1. c # NoEpisode => c.opening \in FillIds
      BY <1>4 DEF Sound, Keys, Episodes
    <2> QED
      BY <2>1, <1>4, <1>7, EmptyEpisode, IdsArePositive DEF SameMoney, Sound, FlatToFlat
  <1>10. Episodes(l) = {m[x] : x \in Episodes(ledger)}
    <2>1. CASE c = NoEpisode
      <3>1. Episodes(ledger) = ledger.past /\ Episodes(l) = past
        BY <1>4, <1>8, <2>1 DEF Episodes
      <3> QED
        BY <1>4, <3>1
    <2>2. CASE c # NoEpisode
      <3>1. Episodes(ledger) = ledger.past \cup {c} /\ Episodes(l) = past \cup {marked}
        BY <1>4, <1>8, <1>9, <2>2 DEF Episodes
      <3> QED
        BY <1>4, <1>9, <2>2, <3>1
    <2> QED
      BY <2>1, <2>2
  <1>11. \A x \in Episodes(ledger) : SameMoney(m[x], x)
    BY <1>2, <1>3, <1>4, <1>7 DEF Episodes
  <1> QED
    BY <1>8, <1>10, <1>11 DEF Remarks

---------------------------------------------------------------------------
(* What the fees count.                                                    *)

\* An execution that exactly one of the episodes has, and one that none of
\* the episodes that have it claims complete fees with.
OwnedOnce(E, id) == \E e \in E : id \in e.fills /\ \A b \in E : id \in b.fills => b = e
Incomplete(E, id) == \A e \in E : id \in e.fills => ~e.feeComplete

\* The executions whose fee is known to be one episode's.
Known(E, R) == {f \in R : Fee(f) # None /\ OwnedOnce(E, f.id)}

FeesOf(E) == SumOver([e \in Episode |-> e.fees], E)
FeesIn(K) == SumOver([f \in Fill |-> Fee(f)], K)

\* Finitely many episodes, made of the executions R.
MadeOf(E, R) ==
    /\ IsFiniteSet(E) /\ IsFiniteSet(R) /\ E \subseteq Episode /\ R \subseteq Fill
    /\ \A e \in E : \A id \in e.fills : \E f \in R : f.id = id

\* The fees of the episodes are those of the executions one of them has, once
\* each, and another amount; and no other execution's fees are said complete.
Counted(E, R, more) ==
    /\ FeesOf(E) = FeesIn(Known(E, R)) + more
    /\ \A f \in R \ Known(E, R) : Incomplete(E, f.id)

\* What is told of the executions R stays, and a fresh one is told of once,
\* with its fee, or by nobody.
OwnersKept(F, E, R) ==
    \A f \in R : /\ OwnedOnce(F, f.id) <=> OwnedOnce(E, f.id)
                 /\ Incomplete(E, f.id) => Incomplete(F, f.id)

FeeTaken(F, E, fill) ==
    \/ /\ OwnedOnce(F, fill.id) /\ FeesOf(F) = FeesOf(E) + Charge(fill, TRUE)
       /\ Fee(fill) = None => Incomplete(F, fill.id)
    \/ ~OwnedOnce(F, fill.id) /\ FeesOf(F) = FeesOf(E) /\ Incomplete(F, fill.id)

LEMMA OwnersOfAdded ==
    ASSUME NEW E, NEW e, NEW id, id \notin e.fills
    PROVE  /\ OwnedOnce(E \cup {e}, id) <=> OwnedOnce(E, id)
           /\ Incomplete(E, id) => Incomplete(E \cup {e}, id)
  BY Zenon DEF OwnedOnce, Incomplete

LEMMA OwnersOfSwapped ==
    ASSUME NEW E, NEW old \in E, NEW e, e \notin E \ {old}, NEW id,
           id \in e.fills <=> id \in old.fills, e.feeComplete => old.feeComplete
    PROVE  /\ OwnedOnce((E \ {old}) \cup {e}, id) <=> OwnedOnce(E, id)
           /\ Incomplete(E, id) => Incomplete((E \ {old}) \cup {e}, id)
  <1> DEFINE F == (E \ {old}) \cup {e}
  <1>1. ASSUME OwnedOnce(E, id) PROVE OwnedOnce(F, id)
    <2>1. PICK a \in E : id \in a.fills /\ \A b \in E : id \in b.fills => b = a
      BY <1>1 DEF OwnedOnce
    <2>2. CASE a = old
      BY <2>1, <2>2 DEF OwnedOnce
    <2>3. CASE a # old
      BY <2>1, <2>3 DEF OwnedOnce
    <2> QED
      BY <2>2, <2>3
  <1>2. ASSUME OwnedOnce(F, id) PROVE OwnedOnce(E, id)
    <2>1. PICK a \in F : id \in a.fills /\ \A b \in F : id \in b.fills => b = a
      BY <1>2 DEF OwnedOnce
    <2>2. CASE a = e
      BY <2>1, <2>2 DEF OwnedOnce
    <2>3. CASE a # e
      BY <2>1, <2>3 DEF OwnedOnce
    <2> QED
      BY <2>2, <2>3
  <1>3. Incomplete(E, id) => Incomplete(F, id)
    BY DEF Incomplete
  <1> QED
    BY <1>1, <1>2, <1>3

\* A fresh execution is owned by the episode that takes it, and by no other.
LEMMA OwnerOfFresh ==
    ASSUME NEW E, NEW R, MadeOf(E, R), NEW fill, \A f \in R : f.id # fill.id
    PROVE  \A e \in E : fill.id \notin e.fills
  BY DEF MadeOf

LEMMA KnownIsFinite ==
    ASSUME NEW E, NEW R, MadeOf(E, R)
    PROVE  /\ IsFiniteSet(Known(E, R)) /\ Known(E, R) \subseteq Fill
           /\ FeesIn(Known(E, R)) \in Int /\ FeesOf(E) \in Int
  <1>1. IsFiniteSet(Known(E, R)) /\ Known(E, R) \subseteq Fill
    <2>1. Known(E, R) \subseteq R
      BY DEF Known
    <2> QED
      BY <2>1, FS_Subset DEF MadeOf
  <1>2. FeesIn(Known(E, R)) \in Int
    <2>1. \A f \in Known(E, R) : [g \in Fill |-> Fee(g)][f] \in Int
      BY <1>1, FillWorth
    <2> QED
      BY <1>1, <2>1, SumIsWhole DEF FeesIn
  <1>3. FeesOf(E) \in Int
    <2>1. \A e \in E : [g \in Episode |-> g.fees][e] \in Int
      BY DEF MadeOf, Episode
    <2> QED
      BY <2>1, SumIsWhole DEF MadeOf, FeesOf
  <1> QED
    BY <1>1, <1>2, <1>3

\* One more execution, that one episode takes with its fee or two take without.
LEMMA CountsOneMore ==
    ASSUME NEW E, NEW R, MadeOf(E, R), Counted(E, R, 0),
           NEW fill \in Fill, \A f \in R : f.id # fill.id, NEW F,
           OwnersKept(F, E, R), FeeTaken(F, E, fill)
    PROVE  Counted(F, R \cup {fill}, 0)
  <1> DEFINE S == R \cup {fill}
             known == OwnedOnce(F, fill.id) /\ Fee(fill) # None
  <1>1. Known(F, S) = Known(E, R) \cup (IF known THEN {fill} ELSE {})
    BY DEF Known, OwnersKept
  <1>2. \A f \in S \ Known(F, S) : Incomplete(F, f.id)
    <2> SUFFICES ASSUME NEW f \in S \ Known(F, S) PROVE Incomplete(F, f.id)
      OBVIOUS
    <2>1. CASE f = fill
      BY <2>1 DEF Known, FeeTaken
    <2>2. CASE f # fill
      BY <2>2, <1>1 DEF Counted, OwnersKept
    <2> QED
      BY <2>1, <2>2
  <1>3. FeesIn(Known(F, S)) = FeesIn(Known(E, R)) + (IF known THEN Fee(fill) ELSE 0)
    <2>1. /\ IsFiniteSet(Known(E, R)) /\ Known(E, R) \subseteq Fill /\ fill \notin Known(E, R)
          /\ FeesIn(Known(E, R)) \in Int
      BY KnownIsFinite DEF Known
    <2>2. CASE ~known
      <3>1. Known(F, S) = Known(E, R)
        BY <1>1, <2>2
      <3> QED
        BY <2>1, <2>2, <3>1
    <2>3. CASE known
      <3> DEFINE v == [g \in Fill |-> Fee(g)]
      <3>1. \A f \in Known(E, R) \cup {fill} : v[f] \in Int
        BY <2>1, FillWorth
      <3>2. SumOver(v, Known(E, R) \cup {fill}) = v[fill] + SumOver(v, Known(E, R))
        <4> HIDE DEF v
        <4> QED
          BY <2>1, <3>1, SumTakesIn
      <3>3. v[fill] = Fee(fill) /\ Fee(fill) \in Int
        BY FillWorth
      <3>4. Known(F, S) = Known(E, R) \cup {fill}
        BY <1>1, <2>3
      <3>5. /\ FeesIn(Known(F, S)) = SumOver(v, Known(E, R) \cup {fill})
            /\ FeesIn(Known(E, R)) = SumOver(v, Known(E, R))
        BY <3>4 DEF FeesIn
      <3> HIDE DEF v, S
      <3> QED
        BY <2>1, <2>3, <3>2, <3>3, <3>5
    <2> QED
      BY <2>2, <2>3
  <1>4. FeesOf(F) = FeesOf(E) + (IF known THEN Fee(fill) ELSE 0)
    <2>1. FeesOf(E) \in Int
      BY KnownIsFinite
    <2> QED
      BY <2>1 DEF Charge, FeeTaken
  <1>5. FeesOf(E) = FeesIn(Known(E, R)) + 0 /\ FeesIn(Known(E, R)) \in Int
    BY KnownIsFinite DEF Counted
  <1>6. (IF known THEN Fee(fill) ELSE 0) \in Int
    BY FillWorth
  <1>7. FeesOf(F) = FeesIn(Known(F, S)) + 0
    <2> HIDE DEF known, S
    <2> QED
      BY <1>3, <1>4, <1>5, <1>6
  <1> QED
    BY <1>2, <1>7 DEF Counted

\* The episodes of a sound ledger: the closed ones and, unless it is flat, the
\* open one.
LEMMA EpisodesOf ==
    ASSUME NEW ledger, Sound(ledger)
    PROVE  /\ ledger.position = 0 => Episodes(ledger) = ledger.past
           /\ ledger.position # 0 =>
                 /\ Episodes(ledger) = ledger.past \cup {ledger.current}
                 /\ ledger.current \in Episodes(ledger)
                 /\ Episodes(ledger) \ {ledger.current} = ledger.past
           /\ ledger \in MarketLedger /\ ledger.current \in Episode
           /\ Episodes(ledger) \subseteq Episode
  <1>1. ledger.current \notin ledger.past \/ ledger.position = 0
    BY DEF Sound, FlatToFlat
  <1> QED
    BY <1>1 DEF Sound, FlatToFlat, Episodes, MarketLedger

LEMMA FeesOfAdded ==
    ASSUME NEW E, IsFiniteSet(E), E \subseteq Episode, NEW e \in Episode, e \notin E
    PROVE  IsFiniteSet(E \cup {e}) /\ FeesOf(E \cup {e}) = FeesOf(E) + e.fees
  <1> DEFINE v == [g \in Episode |-> g.fees]
  <1>1. \A f \in E \cup {e} : v[f] \in Int
    BY DEF Episode
  <1>2. v[e] = e.fees
    OBVIOUS
  <1>3. FeesOf(E \cup {e}) = SumOver(v, E \cup {e}) /\ FeesOf(E) = SumOver(v, E)
    BY DEF FeesOf
  <1> HIDE DEF v
  <1>4. SumOver(v, E \cup {e}) = v[e] + SumOver(v, E) /\ SumOver(v, E) \in Int
    BY <1>1, SumTakesIn, SumIsWhole
  <1> QED
    BY <1>1, <1>2, <1>3, <1>4, FS_AddElement

LEMMA FeesOfSwapped ==
    ASSUME NEW E, IsFiniteSet(E), E \subseteq Episode, NEW old \in E, NEW e \in Episode,
           e \notin E \ {old}
    PROVE  /\ IsFiniteSet((E \ {old}) \cup {e})
           /\ FeesOf((E \ {old}) \cup {e}) = FeesOf(E) - old.fees + e.fees
  <1> DEFINE v == [g \in Episode |-> g.fees]
  <1>1. \A f \in E \cup {e} : v[f] \in Int
    BY DEF Episode
  <1>2. v[e] = e.fees /\ v[old] = old.fees
    OBVIOUS
  <1>3. FeesOf((E \ {old}) \cup {e}) = SumOver(v, (E \ {old}) \cup {e}) /\ FeesOf(E) = SumOver(v, E)
    BY DEF FeesOf
  <1> HIDE DEF v
  <1>4. /\ IsFiniteSet((E \ {old}) \cup {e})
        /\ SumOver(v, (E \ {old}) \cup {e}) = SumOver(v, E) - v[old] + v[e]
    <2> DEFINE S == E
    <2>1. IsFiniteSet(S) /\ old \in S /\ e \notin S \ {old} /\ \A y \in S \cup {e} : v[y] \in Int
      BY <1>1
    <2> HIDE DEF S
    <2>2. /\ IsFiniteSet((S \ {old}) \cup {e})
          /\ SumOver(v, (S \ {old}) \cup {e}) = SumOver(v, S) - v[old] + v[e]
      BY ONLY <2>1, SumSwaps
    <2> QED
      BY <2>2 DEF S
  <1>5. FeesOf((E \ {old}) \cup {e}) = FeesOf(E) - old.fees + e.fees
    BY <1>2, <1>3, <1>4
  <1> QED
    BY <1>4, <1>5

\* An episode that goes on with a fresh execution, in the place of the old one.
LEMMA SwappedCounts ==
    ASSUME NEW E, NEW R, MadeOf(E, R), NEW fill \in Fill, \A f \in R : f.id # fill.id,
           NEW old \in E, NEW e \in Episode, NEW charged \in BOOLEAN, NEW gain, NEW basis,
           Books(e, old, fill, charged, gain, basis),
           NEW F, F = (E \ {old}) \cup {e}
    PROVE  /\ e \notin E /\ IsFiniteSet(F) /\ F \subseteq Episode
           /\ FeesOf(F) = FeesOf(E) + Charge(fill, charged)
           /\ OwnersKept(F, E, R)
           /\ \A b \in F : fill.id \in b.fills <=> b = e
  <1>1. \A b \in E : fill.id \notin b.fills
    BY OwnerOfFresh
  <1>2. fill.id \in e.fills /\ e \notin E
    BY <1>1 DEF Books
  <1>3. /\ IsFiniteSet(F) /\ F \subseteq Episode
        /\ FeesOf(F) = FeesOf(E) - old.fees + e.fees
    <2>1. IsFiniteSet(E) /\ E \subseteq Episode /\ e \notin E \ {old}
      BY <1>2 DEF MadeOf
    <2>2. /\ IsFiniteSet((E \ {old}) \cup {e})
          /\ FeesOf((E \ {old}) \cup {e}) = FeesOf(E) - old.fees + e.fees
      BY <2>1, FeesOfSwapped
    <2> QED
      BY <2>1, <2>2
  <1>4. FeesOf(F) = FeesOf(E) + Charge(fill, charged)
    <2>0. FeesOf(E) \in Int
      BY KnownIsFinite
    <2>1. old.fees \in Int /\ Charge(fill, charged) \in Int
      BY FillWorth DEF MadeOf, Episode, Charge
    <2>2. e.fees = old.fees + Charge(fill, charged)
      BY DEF Books
    <2> QED
      BY <1>3, <2>0, <2>1, <2>2
  <1>5. ASSUME NEW f \in R
        PROVE  /\ OwnedOnce(F, f.id) <=> OwnedOnce(E, f.id)
               /\ Incomplete(E, f.id) => Incomplete(F, f.id)
    <2>1. f.id \in e.fills <=> f.id \in old.fills
      BY DEF Books
    <2>2. e.feeComplete => old.feeComplete
      BY DEF Books
    <2> QED
      BY <1>2, <2>1, <2>2, OwnersOfSwapped
  <1>6. \A b \in F : fill.id \in b.fills <=> b = e
    BY <1>1, <1>2
  <1> QED
    BY <1>2, <1>3, <1>4, <1>5, <1>6 DEF OwnersKept

\* An episode that a fresh execution starts, beside the others.
LEMMA AddedCounts ==
    ASSUME NEW E, IsFiniteSet(E), E \subseteq Episode, NEW R, NEW fill \in Fill,
           \A f \in R : f.id # fill.id,
           NEW e, e \notin E, NEW charged \in BOOLEAN, Starts(e, fill, charged),
           NEW F, F = E \cup {e}
    PROVE  /\ IsFiniteSet(F) /\ F \subseteq Episode
           /\ FeesOf(F) = FeesOf(E) + Charge(fill, charged)
           /\ OwnersKept(F, E, R)
  <1>1. e \in Episode /\ e.fills = {fill.id} /\ e.fees = Charge(fill, charged)
    BY DEF Starts
  <1>2. \A f \in R : f.id \notin e.fills
    BY <1>1
  <1>3. IsFiniteSet(F) /\ FeesOf(F) = FeesOf(E) + e.fees
    BY <1>1, FeesOfAdded
  <1> QED
    BY <1>1, <1>2, <1>3, OwnersOfAdded DEF OwnersKept

LEMMA AppliedCounts ==
    ASSUME NEW ledger, Sound(ledger), NEW fill \in Fill, NEW l, l = Applied(ledger, fill), Sound(l),
           NEW R, MadeOf(Episodes(ledger), R), Counted(Episodes(ledger), R, 0),
           \A f \in R : f.id # fill.id
    PROVE  MadeOf(Episodes(l), R \cup {fill}) /\ Counted(Episodes(l), R \cup {fill}, 0)
  <1> DEFINE E == Episodes(ledger)
             F == Episodes(l)
             after == ledger.position + Signed(fill)
             old == ledger.current
             yes == TRUE
             no == FALSE
             New(e) == \A id \in e.fills : id = fill.id \/ \E f \in R : f.id = id
  <1>1. l.position = after /\ AppliedMoney(l, ledger, fill, after)
    BY EpisodesOf, ApplyingMoney
  <1>2. \A b \in E : fill.id \notin b.fills
    BY OwnerOfFresh
  <1>3. /\ IsFiniteSet(E) /\ E \subseteq Episode /\ MadeOf(E, R) /\ Counted(E, R, 0)
        /\ \A e \in E : \A id \in e.fills : \E f \in R : f.id = id
    BY DEF MadeOf
  <1>4. IsFiniteSet(R \cup {fill}) /\ R \cup {fill} \subseteq Fill
    BY FS_AddElement DEF MadeOf
  <1>5. /\ ledger.position = 0 => E = ledger.past
        /\ ledger.position # 0 => old \in E /\ E \ {old} = ledger.past
        /\ l.position = 0 => F = l.past
        /\ l.position # 0 => F = l.past \cup {l.current}
        /\ F \subseteq Episode
    BY EpisodesOf
  <1>6. ledger.position = 0 => after # 0
    <2>1. ledger.position \in Int
      BY EpisodesOf DEF MarketLedger
    <2> QED
      BY <2>1, FillWorth
  <1>7. yes \in BOOLEAN /\ no \in BOOLEAN
    OBVIOUS
  <1>d. yes /\ ~no
    OBVIOUS
  <1>8. FeesOf(E) \in Int
    BY KnownIsFinite
  <1>c. Charge(fill, no) = 0 /\ Charge(fill, yes) = Charge(fill, TRUE)
    BY DEF Charge
  <1>a. /\ ledger.position = 0 => Starts(l.current, fill, yes) /\ l.past = ledger.past
        /\ ledger.position # 0 /\ after = 0 => Closes(l, ledger, fill, yes)
        /\ ledger.position # 0 /\ after # 0 /\ Sign(after) # Sign(ledger.position) =>
              Closes(l, ledger, fill, no) /\ Starts(l.current, fill, no)
        /\ ledger.position # 0 /\ after # 0 /\ Sign(after) = Sign(ledger.position) =>
              /\ l.past = ledger.past /\ l.current \in Episode
              /\ \E gain, basis : Books(l.current, old, fill, yes, gain, basis)
    BY <1>1, <1>6 DEF AppliedMoney, Increases, Reduces, GoesOn, yes, no, old
  <1> SUFFICES MadeOf(F, R \cup {fill}) /\ Counted(F, R \cup {fill}, 0)
    OBVIOUS
  <1> HIDE DEF E, F, after, old, yes, no
  <1>b. ASSUME IsFiniteSet(F), \A e \in F : New(e), OwnersKept(F, E, R), FeeTaken(F, E, fill)
        PROVE  MadeOf(F, R \cup {fill}) /\ Counted(F, R \cup {fill}, 0)
    <2>1. MadeOf(F, R \cup {fill})
      BY <1>4, <1>5, <1>b DEF MadeOf
    <2> QED
      BY <1>3, <1>b, <2>1, CountsOneMore
  <1>9. CASE ledger.position = 0
    <2> DEFINE e == l.current
    <2>1. Starts(e, fill, yes) /\ F = E \cup {e}
      BY <1>1, <1>5, <1>6, <1>9, <1>a
    <2> HIDE DEF e
    <2>2. e.fills = {fill.id} /\ e \notin E /\ (e.feeComplete => Fee(fill) # None)
      BY <1>2, <2>1 DEF Starts
    <2>3. IsFiniteSet(F) /\ FeesOf(F) = FeesOf(E) + Charge(fill, yes) /\ OwnersKept(F, E, R)
      BY <1>3, <1>7, <2>1, <2>2, AddedCounts
    <2>4. OwnedOnce(F, fill.id) /\ (Fee(fill) = None => Incomplete(F, fill.id))
      BY <1>2, <2>1, <2>2 DEF OwnedOnce, Incomplete
    <2>5. \A b \in F : New(b)
      BY <1>3, <2>1, <2>2
    <2>6. FeeTaken(F, E, fill)
      BY <1>c, <2>3, <2>4 DEF FeeTaken
    <2> HIDE DEF New
    <2> QED
      BY <1>b, <2>3, <2>5, <2>6
  <1>10. ASSUME ledger.position # 0, NEW e \in Episode, NEW gain, NEW basis,
                Books(e, old, fill, yes, gain, basis), F = (E \ {old}) \cup {e}
         PROVE  MadeOf(F, R \cup {fill}) /\ Counted(F, R \cup {fill}, 0)
    <2>0. old \in E
      BY <1>5, <1>10
    <2>1. /\ e \notin E /\ IsFiniteSet(F) /\ F \subseteq Episode
          /\ FeesOf(F) = FeesOf(E) + Charge(fill, yes)
          /\ OwnersKept(F, E, R)
          /\ \A b \in F : fill.id \in b.fills <=> b = e
      BY <1>3, <1>7, <1>10, <2>0, SwappedCounts
    <2>2. e.fills = old.fills \cup {fill.id} /\ (e.feeComplete => Fee(fill) # None) /\ e \in F
      BY <1>10 DEF Books
    <2>3. OwnedOnce(F, fill.id) /\ (Fee(fill) = None => Incomplete(F, fill.id))
      BY <2>1, <2>2 DEF OwnedOnce, Incomplete
    <2>4. \A b \in F : New(b)
      BY <1>3, <2>0, <1>10, <2>2
    <2>5. FeeTaken(F, E, fill)
      BY <1>c, <2>1, <2>3 DEF FeeTaken
    <2> HIDE DEF New
    <2> QED
      BY <1>b, <2>1, <2>4, <2>5
  <1>11. CASE ledger.position # 0 /\ after = 0
    <2>1. Closes(l, ledger, fill, yes) /\ F = l.past
      BY <1>1, <1>5, <1>11, <1>a
    <2>2. PICK e \in Episode :
             /\ l.past = ledger.past \cup {e}
             /\ Books(e, old, fill, yes, Gain(ledger, fill, Abs(ledger.position)), Priced(ledger, fill))
      BY <2>1 DEF Closes, old
    <2> DEFINE gain == Gain(ledger, fill, Abs(ledger.position))
               basis == Priced(ledger, fill)
    <2>3. F = (E \ {old}) \cup {e} /\ Books(e, old, fill, yes, gain, basis)
      BY <1>5, <1>11, <2>1, <2>2
    <2> HIDE DEF gain, basis
    <2> QED
      BY <1>10, <1>11, <2>3
  <1>12. CASE ledger.position # 0 /\ after # 0 /\ Sign(after) = Sign(ledger.position)
    <2>1. /\ l.past = ledger.past /\ l.current \in Episode
          /\ \E gain, basis : Books(l.current, old, fill, yes, gain, basis)
      BY <1>12, <1>a
    <2>2. PICK gain, basis : Books(l.current, old, fill, yes, gain, basis)
      BY <2>1
    <2>3. F = (E \ {old}) \cup {l.current}
      BY <1>1, <1>5, <1>12, <2>1
    <2> QED
      BY <1>10, <1>12, <2>1, <2>2, <2>3
  <1>13. CASE ledger.position # 0 /\ after # 0 /\ Sign(after) # Sign(ledger.position)
    <2> DEFINE n == l.current
    <2>1. Closes(l, ledger, fill, no) /\ Starts(n, fill, no) /\ F = l.past \cup {n}
      BY <1>1, <1>5, <1>13, <1>a
    <2> HIDE DEF n
    <2>2. PICK e \in Episode :
             /\ l.past = ledger.past \cup {e} /\ e.closedBy = "fill"
             /\ Books(e, old, fill, no, Gain(ledger, fill, Abs(ledger.position)), Priced(ledger, fill))
      BY <2>1 DEF Closes, old
    <2> DEFINE M == (E \ {old}) \cup {e}
               gain == Gain(ledger, fill, Abs(ledger.position))
               basis == Priced(ledger, fill)
    <2>3. l.past = M /\ F = M \cup {n} /\ Books(e, old, fill, no, gain, basis)
      BY <1>5, <1>13, <2>1, <2>2
    <2>4. M = (E \ {old}) \cup {e} /\ old \in E
      BY <1>5, <1>13
    <2> HIDE DEF M, gain, basis
    <2>5. /\ e \notin E /\ IsFiniteSet(M) /\ M \subseteq Episode
          /\ FeesOf(M) = FeesOf(E) + Charge(fill, no)
          /\ OwnersKept(M, E, R)
          /\ \A b \in M : fill.id \in b.fills <=> b = e
      BY <1>3, <1>7, <2>3, <2>4, SwappedCounts
    <2>6. /\ n.fills = {fill.id} /\ n.closedBy = "nothing" /\ ~n.feeComplete /\ ~e.feeComplete
          /\ e.fills = old.fills \cup {fill.id}
      BY <1>d, <2>1, <2>2 DEF Starts, Books
    <2>7. n \notin M
      BY <2>2, <2>5, <2>6
    <2>8. /\ IsFiniteSet(F) /\ FeesOf(F) = FeesOf(M) + Charge(fill, no)
          /\ OwnersKept(F, M, R)
      BY <1>7, <2>1, <2>3, <2>5, <2>7, AddedCounts
    <2>9. FeesOf(F) = FeesOf(E)
      BY <1>8, <1>c, <2>5, <2>8
    <2>10. ~OwnedOnce(F, fill.id) /\ Incomplete(F, fill.id)
      <3>1. e \in F /\ n \in F /\ e # n /\ fill.id \in e.fills /\ fill.id \in n.fills
        BY <2>3, <2>4, <2>6, <2>7
      <3> QED
        BY <2>3, <2>5, <2>6, <3>1 DEF OwnedOnce, Incomplete
    <2>11. \A b \in F : New(b)
      BY <1>3, <2>3, <2>4, <2>6
    <2>12. OwnersKept(F, E, R)
      BY <2>5, <2>8 DEF OwnersKept
    <2>13. FeeTaken(F, E, fill)
      BY <2>9, <2>10 DEF FeeTaken
    <2> HIDE DEF New
    <2> QED
      BY <1>b, <2>8, <2>11, <2>12, <2>13
  <1> QED
    BY <1>9, <1>11, <1>12, <1>13

\* A settlement adds its own fee to the episode it closes.
SettledIn(E) == \E e \in E : e.closedBy = "settlement"

LEMMA SettledCounts ==
    ASSUME NEW ledger, Sound(ledger), ledger.position # 0, NEW row \in Settlement,
           NEW l, l = Settled(ledger, row),
           NEW R, MadeOf(Episodes(ledger), R), Counted(Episodes(ledger), R, 0),
           ~SettledIn(Episodes(ledger))
    PROVE  /\ MadeOf(Episodes(l), R) /\ Counted(Episodes(l), R, RowFee(row))
           /\ SettledIn(Episodes(l))
  <1> DEFINE E == Episodes(ledger)
             F == Episodes(l)
             old == ledger.current
  <1>1. Settles(l, ledger, row) /\ Sound(l)
    BY SettlingMoney, SettlingIsSound
  <1>2. PICK e \in Episode :
           /\ l.past = ledger.past \cup {e} /\ e.closedBy = "settlement" /\ e.fills = old.fills
           /\ e.fees = old.fees + RowFee(row) /\ (e.feeComplete => old.feeComplete)
    BY <1>1 DEF Settles
  <1>3. F = (E \ {old}) \cup {e} /\ old \in E /\ e \notin E
    <2>1. F = l.past /\ E \ {old} = ledger.past /\ old \in E
      BY <1>1, EpisodesOf DEF Settles
    <2> QED
      BY <1>2, <2>1 DEF SettledIn
  <1>4. /\ MadeOf(E, R) /\ IsFiniteSet(E) /\ E \subseteq Episode /\ IsFiniteSet(R) /\ R \subseteq Fill
        /\ \A b \in E : \A id \in b.fills : \E f \in R : f.id = id
    BY DEF MadeOf
  <1>5. SettledIn(F)
    BY <1>2, <1>3 DEF SettledIn
  <1>6. Counted(E, R, 0)
    OBVIOUS
  <1> SUFFICES MadeOf(F, R) /\ Counted(F, R, RowFee(row))
    BY <1>5
  <1> HIDE DEF E, F, old
  <1>7. IsFiniteSet(F) /\ FeesOf(F) = FeesOf(E) - old.fees + e.fees
    <2>1. /\ IsFiniteSet((E \ {old}) \cup {e})
          /\ FeesOf((E \ {old}) \cup {e}) = FeesOf(E) - old.fees + e.fees
      BY <1>3, <1>4, FeesOfSwapped
    <2> QED
      BY <1>3, <2>1
  <1>8. FeesOf(E) \in Int
    BY <1>4, KnownIsFinite
  <1>9. FeesOf(F) = FeesOf(E) + RowFee(row)
    <2>1. old.fees \in Int
      BY <1>3, <1>4 DEF Episode
    <2>2. RowFee(row) \in Int
      <3>1. row.fee \in Nat \cup {-1}
        BY MoneyIsWhole DEF Settlement, None
      <3> QED
        BY <3>1 DEF RowFee, None
    <2> QED
      BY <1>2, <1>7, <1>8, <2>1, <2>2
  <1>10. ASSUME NEW id PROVE /\ OwnedOnce(F, id) <=> OwnedOnce(E, id)
                             /\ Incomplete(E, id) => Incomplete(F, id)
    <2>1. id \in e.fills <=> id \in old.fills
      BY <1>2
    <2>2. /\ OwnedOnce((E \ {old}) \cup {e}, id) <=> OwnedOnce(E, id)
          /\ Incomplete(E, id) => Incomplete((E \ {old}) \cup {e}, id)
      BY <1>2, <1>3, <2>1, OwnersOfSwapped
    <2> QED
      BY <1>3, <2>2
  <1>11. Known(F, R) = Known(E, R)
    BY <1>10 DEF Known
  <1>12. MadeOf(F, R)
    BY <1>2, <1>3, <1>4, <1>7 DEF MadeOf
  <1>13. FeesIn(Known(E, R)) \in Int
    BY <1>4, KnownIsFinite
  <1>14. Counted(F, R, RowFee(row))
    <2>1. FeesOf(E) = FeesIn(Known(E, R)) + 0 /\ \A f \in R \ Known(E, R) : Incomplete(E, f.id)
      BY <1>6 DEF Counted
    <2>2. FeesOf(F) = FeesIn(Known(F, R)) + RowFee(row)
      BY <1>9, <1>11, <1>13, <2>1
    <2> QED
      BY <1>10, <1>11, <2>1, <2>2 DEF Counted
  <1> QED
    BY <1>12, <1>14

\* Marks change neither what an episode is made of nor its money.
LEMMA MarkedCounts ==
    ASSUME NEW ledger, Sound(ledger), NEW l, Sound(l), NEW m, Remarks(m, l, ledger),
           NEW R, MadeOf(Episodes(ledger), R), NEW more, Counted(Episodes(ledger), R, more)
    PROVE  /\ MadeOf(Episodes(l), R) /\ Counted(Episodes(l), R, more)
           /\ SettledIn(Episodes(l)) <=> SettledIn(Episodes(ledger))
  <1> DEFINE E == Episodes(ledger)
             F == Episodes(l)
             v == [g \in Episode |-> g.fees]
  <1>1. F = {m[e] : e \in E} /\ \A e \in E : SameMoney(m[e], e)
    BY DEF Remarks
  <1>2. F \subseteq Episode /\ E \subseteq Episode
    BY EpisodesOf
  <1>3. \A x, y \in E : m[x] = m[y] => x = y
    BY <1>1 DEF SameMoney, Sound, OneKeyEach
  <1>4. \A e \in E : v[e] \in Int /\ v[m[e]] = v[e]
    <2> SUFFICES ASSUME NEW e \in E PROVE v[e] \in Int /\ v[m[e]] = v[e]
      OBVIOUS
    <2>1. e \in Episode /\ m[e] \in Episode /\ m[e].fees = e.fees
      BY <1>1, <1>2 DEF SameMoney
    <2> QED
      BY <2>1 DEF Episode
  <1>5. /\ MadeOf(E, R) /\ IsFiniteSet(E) /\ IsFiniteSet(R) /\ R \subseteq Fill
        /\ \A b \in E : \A id \in b.fills : \E f \in R : f.id = id
    BY DEF MadeOf
  <1>6. Counted(E, R, more) /\ FeesOf(F) = SumOver(v, F) /\ FeesOf(E) = SumOver(v, E)
    BY DEF FeesOf
  <1>7. SettledIn(F) <=> SettledIn(E)
    BY <1>1 DEF SettledIn, SameMoney
  <1> SUFFICES MadeOf(F, R) /\ Counted(F, R, more)
    BY <1>7
  <1> HIDE DEF E, F, v
  <1>8. IsFiniteSet(F) /\ FeesOf(F) = FeesOf(E)
    <2>1. IsFiniteSet({m[x] : x \in E}) /\ SumOver(v, {m[x] : x \in E}) = SumOver(v, E)
      BY <1>3, <1>4, <1>5, SumOfImage
    <2> QED
      BY <1>1, <1>6, <2>1
  <1>9. ASSUME NEW id PROVE /\ OwnedOnce(F, id) <=> OwnedOnce(E, id)
                            /\ Incomplete(E, id) => Incomplete(F, id)
    <2>1. ASSUME OwnedOnce(E, id) PROVE OwnedOnce(F, id)
      <3>1. PICK a \in E : id \in a.fills /\ \A b \in E : id \in b.fills => b = a
        BY <2>1 DEF OwnedOnce
      <3>2. m[a] \in F /\ id \in m[a].fills /\ \A b \in F : id \in b.fills => b = m[a]
        BY <1>1, <3>1 DEF SameMoney
      <3> QED
        BY <3>2 DEF OwnedOnce
    <2>2. ASSUME OwnedOnce(F, id) PROVE OwnedOnce(E, id)
      <3>1. PICK c \in F : id \in c.fills /\ \A b \in F : id \in b.fills => b = c
        BY <2>2 DEF OwnedOnce
      <3>2. PICK a \in E : c = m[a]
        BY <1>1, <3>1
      <3>3. id \in a.fills /\ \A b \in E : id \in b.fills => m[b] = m[a]
        BY <1>1, <3>1, <3>2 DEF SameMoney
      <3> QED
        BY <1>3, <3>3 DEF OwnedOnce
    <2>3. Incomplete(E, id) => Incomplete(F, id)
      BY <1>1 DEF Incomplete, SameMoney
    <2> QED
      BY <2>1, <2>2, <2>3
  <1>10. Known(F, R) = Known(E, R)
    BY <1>9 DEF Known
  <1>11. MadeOf(F, R)
    <2>1. \A b \in F : \A id \in b.fills : \E f \in R : f.id = id
      BY <1>1, <1>5 DEF SameMoney
    <2> QED
      BY <1>2, <1>5, <1>8, <2>1 DEF MadeOf
  <1>12. Counted(F, R, more)
    BY <1>6, <1>8, <1>9, <1>10 DEF Counted
  <1> QED
    BY <1>11, <1>12

---------------------------------------------------------------------------
(* What a step does to the ledgers and to what they were replayed from.    *)

\* Nothing is replayed, and the ledgers are flat.
ReplayIsEmpty ==
    /\ pc' \in Reads \cup {"fills"} /\ ledgers' = [s \in Subaccounts |-> Flat]
    /\ \A s \in Subaccounts : Replayed(s)' = {}

\* One more execution is applied to its subaccount's ledger.
ReplayApplies(fill) ==
    /\ pc = "fills" /\ pc' = "fills" /\ UNCHANGED <<history, books, settlement, audit>>
    /\ fill \in todo /\ \A other \in todo \ {fill} : Before(fill, other)
    /\ fill.sub \in Subaccounts /\ \A f \in Replayed(fill.sub) : f.id # fill.id
    /\ ledgers' = [ledgers EXCEPT ![fill.sub] = Applied(ledgers[fill.sub], fill)]
    /\ \A s \in Subaccounts :
          Replayed(s)' = IF s = fill.sub THEN Replayed(s) \cup {fill} ELSE Replayed(s)

\* The settlement is applied to the only subaccount held, or to none.
SettlesOrNot(s) ==
    \/ ledgers'[s] = ledgers[s] \/ ledgers'[s] = Unresolved(ledgers[s])
    \/ /\ audit.row # Unsettled /\ HeldIn = {s} /\ ~Refuses(ledgers[s], audit.row)
       /\ ledgers'[s] = Settled(ledgers[s], audit.row)

ReplaySettles ==
    /\ pc = "fills" /\ todo = {} /\ pc' = "authority"
    /\ UNCHANGED <<history, books, settlement, audit>>
    /\ \A s \in Subaccounts : SettlesOrNot(s) /\ Replayed(s)' = Replayed(s)

\* Every episode gets its authority.
ReplayMarks ==
    /\ pc' = "done" /\ UNCHANGED <<history, books, settlement, audit>>
    /\ \A s \in Subaccounts : ledgers'[s] = Authorised(ledgers[s]) /\ Replayed(s)' = Replayed(s)

LEMMA ReplayCases ==
    ASSUME IInv, [Next]_vars
    PROVE  \/ UNCHANGED vars \/ ReplayIsEmpty \/ (\E fill \in Fill : ReplayApplies(fill))
           \/ ReplaySettles \/ ReplayMarks
  <1>1. /\ ledgers \in [Subaccounts -> MarketLedger] /\ todo \subseteq audit.fills
        /\ (pc \in Reads => ledgers = [s \in Subaccounts |-> Flat] /\ todo = {})
        /\ \A f \in audit.fills : f \in Fill /\ \E i \in DOMAIN history : history[i] = f
        /\ \A i, j \in DOMAIN history : history[i].id = history[j].id => i = j
    <2>1. audit.fills \subseteq Fill
      BY DEF IInv, TypeOK, Audit
    <2> QED
      BY <2>1 DEF IInv, TypeOK, Reads
  <1>2. CASE \/ \E fill \in Fill : Execute(fill)
             \/ \E time \in Times, value \in {0, One}, readable \in BOOLEAN, fee \in SettlementFees :
                  SettleMarket(time, value, readable, fee)
             \/ AdvanceCutoff \/ WalkLive \/ WalkBounded \/ WalkArchive \/ ArchiveFails
             \/ ReadSettlements
    <2>1. pc \in Reads /\ pc' \in Reads /\ ledgers' = ledgers
      BY <1>2 DEF Execute, SettleMarket, AdvanceCutoff, WalkLive, WalkBounded, WalkArchive,
                  ArchiveFails, ReadSettlements, Reads
    <2> QED
      BY <1>1, <2>1 DEF ReplayIsEmpty, Replayed
  <1>3. CASE SkipReconciliation \/ ReadPositions
    <2>1. /\ pc \in Reads /\ pc' = "fills" /\ ledgers' = ledgers /\ todo' = audit.fills
      BY <1>3 DEF SkipReconciliation, ReadPositions, Reads
    <2>2. audit'.fills = audit.fills
      <3>1. CASE SkipReconciliation
        BY <3>1 DEF SkipReconciliation
      <3>2. CASE ReadPositions
        <4>1. audit \in Audit
          BY DEF IInv, TypeOK
        <4>2. PICK said, quantity : audit' = [audit EXCEPT !.said = said, !.quantity = quantity]
          BY <3>2 DEF ReadPositions
        <4> QED
          BY <4>1, <4>2, Zenon DEF Audit
      <3> QED
        BY <1>3, <3>1, <3>2
    <2> QED
      BY <1>1, <2>1, <2>2 DEF ReplayIsEmpty, Replayed
  <1>4. CASE Restart
    <2>1. pc' = "live" /\ ledgers' = [s \in Subaccounts |-> Flat]
      BY <1>4 DEF Restart
    <2> QED
      BY <2>1 DEF ReplayIsEmpty, Replayed, Reads
  <1>5. CASE \E fill \in todo : ApplyFill(fill)
    <2>1. PICK fill \in todo : ApplyFill(fill)
      BY <1>5
    <2>2. /\ pc = "fills" /\ pc' = "fills" /\ UNCHANGED <<history, books, settlement, audit>>
          /\ ledgers' = [ledgers EXCEPT ![fill.sub] = Applied(ledgers[fill.sub], fill)]
          /\ todo' = todo \ {fill}
          /\ \A other \in todo \ {fill} : Before(fill, other)
      BY <2>1 DEF ApplyFill, exchange
    <2>3. fill \in Fill /\ fill.sub \in Subaccounts
      BY <1>1, <2>1 DEF Fill
    <2>4. \A f \in Replayed(fill.sub) : f.id # fill.id
      BY <1>1, <2>1 DEF Replayed
    <2>5. \A s \in Subaccounts :
             Replayed(s)' = IF s = fill.sub THEN Replayed(s) \cup {fill} ELSE Replayed(s)
      BY <1>1, <2>1, <2>2 DEF Replayed, Reads
    <2> QED
      BY <2>2, <2>3, <2>4, <2>5 DEF ReplayApplies
  <1>6. CASE ApplySettlement
    <2> DEFINE Step(s) == IF ~SettlementEvidence THEN ledgers[s]
                          ELSE IF HeldIn = {s} /\ ~Refuses(ledgers[s], audit.row)
                          THEN Settled(ledgers[s], audit.row) ELSE Unresolved(ledgers[s])
    <2>1. /\ pc = "fills" /\ todo = {} /\ pc' = "authority" /\ todo' = todo
          /\ UNCHANGED <<history, books, settlement, audit>>
          /\ ledgers' = [s \in Subaccounts |-> Step(s)]
      BY <1>6 DEF ApplySettlement, exchange
    <2>2. \A s \in Subaccounts : ledgers'[s] = Step(s)
      BY <2>1
    <2>3. \A s \in Subaccounts : SettlesOrNot(s)
      BY <2>2 DEF SettlesOrNot, SettlementEvidence
    <2>4. \A s \in Subaccounts : Replayed(s)' = Replayed(s)
      BY <2>1 DEF Replayed, Reads
    <2> QED
      BY <2>1, <2>3, <2>4 DEF ReplaySettles
  <1>7. CASE AssignAuthority
    <2>1. /\ pc = "authority" /\ pc' = "done" /\ todo' = todo
          /\ UNCHANGED <<history, books, settlement, audit>>
          /\ ledgers' = [s \in Subaccounts |-> Authorised(ledgers[s])]
      BY <1>7 DEF AssignAuthority, Authorised, exchange
    <2>2. \A s \in Subaccounts : ledgers'[s] = Authorised(ledgers[s])
      BY <2>1
    <2>3. \A s \in Subaccounts : Replayed(s)' = Replayed(s)
      BY <2>1 DEF Replayed, Reads
    <2> QED
      BY <2>1, <2>2, <2>3 DEF ReplayMarks
  <1> QED
    BY <1>2, <1>3, <1>4, <1>5, <1>6, <1>7 DEF Next

\* An execution never makes a settled episode.
LEMMA AppliedUnsettled ==
    ASSUME NEW ledger, Sound(ledger), NEW fill \in Fill, NEW l, l = Applied(ledger, fill), Sound(l),
           ~SettledIn(Episodes(ledger))
    PROVE  ~SettledIn(Episodes(l))
  <1>1. l.position = ledger.position + Signed(fill)
        /\ AppliedMoney(l, ledger, fill, ledger.position + Signed(fill))
    BY EpisodesOf, ApplyingMoney
  <1>2. /\ \A e \in l.past : e \in ledger.past \/ e.closedBy = "fill"
        /\ l.position # 0 => l.current.closedBy = "nothing"
    <2>1. l.position # 0 => l.current.closedBy = "nothing"
      BY DEF Sound, FlatToFlat
    <2>2. \/ l.past = ledger.past
          \/ \E e \in Episode : l.past = ledger.past \cup {e} /\ e.closedBy = "fill"
      BY <1>1 DEF AppliedMoney, Closes, Increases, Reduces, GoesOn
    <2> QED
      BY <2>1, <2>2
  <1>3. /\ \A e \in ledger.past : e.closedBy # "settlement"
        /\ \A e \in Episodes(l) : e \in l.past \/ (e = l.current /\ l.position # 0)
    BY EpisodesOf DEF SettledIn, Episodes
  <1> QED
    BY <1>2, <1>3 DEF SettledIn

---------------------------------------------------------------------------
(* The fees, at every step.                                                *)

\* Every ledger's fees count the executions it was replayed from and, once
\* one of its episodes was closed by it, the settlement; none is before that.
SettlementFee(E, row) == IF SettledIn(E) THEN RowFee(row) ELSE 0

FeesInv ==
    \A s \in Subaccounts :
        /\ MadeOf(Episodes(ledgers[s]), Replayed(s))
        /\ Counted(Episodes(ledgers[s]), Replayed(s), SettlementFee(Episodes(ledgers[s]), audit.row))
        /\ pc \in Reads \cup {"fills"} => ~SettledIn(Episodes(ledgers[s]))

LEMMA NothingCounts ==
    /\ Episodes(Flat) = {} /\ MadeOf({}, {}) /\ Counted({}, {}, 0) /\ ~SettledIn({})
  <1>1. Episodes(Flat) = {}
    BY DEF Episodes, Flat
  <1>2. MadeOf({}, {}) /\ ~SettledIn({})
    BY FS_EmptySet DEF MadeOf, SettledIn
  <1>3. Known({}, {}) = {} /\ FeesOf({}) = 0 /\ FeesIn({}) = 0
    BY SumOfNothing DEF Known, FeesOf, FeesIn
  <1>4. Counted({}, {}, 0)
    BY <1>3 DEF Counted
  <1> QED
    BY <1>1, <1>2, <1>4

LEMMA InitCounts == Init => FeesInv
  <1> SUFFICES ASSUME Init PROVE FeesInv
    OBVIOUS
  <1>1. \A s \in Subaccounts : ledgers[s] = Flat /\ Replayed(s) = {}
    BY DEF Init, Replayed, Reads
  <1> QED
    BY <1>1, NothingCounts DEF FeesInv, SettlementFee

LEMMA NextCounts == ASSUME IInv, FeesInv, [Next]_vars PROVE FeesInv'
  <1>1. IInv' /\ \A s \in Subaccounts : Sound(ledgers[s]) /\ Sound(ledgers'[s])
    BY NextIsSound DEF IInv
  <1>2. ledgers \in [Subaccounts -> MarketLedger] /\ audit.row \in Settlement \cup {Unsettled}
    BY DEF IInv, TypeOK, Audit
  <1>3. CASE UNCHANGED vars
    BY <1>3 DEF vars, FeesInv, Replayed, SettlementFee
  <1>4. CASE ReplayIsEmpty
    <2>1. \A s \in Subaccounts : ledgers'[s] = Flat /\ Replayed(s)' = {}
      BY <1>4 DEF ReplayIsEmpty
    <2> QED
      BY <2>1, NothingCounts DEF FeesInv, SettlementFee
  <1>5. CASE \E fill \in Fill : ReplayApplies(fill)
    <2>1. PICK fill \in Fill : ReplayApplies(fill)
      BY <1>5
    <2>2. /\ pc = "fills" /\ pc' = "fills" /\ audit' = audit /\ fill.sub \in Subaccounts
          /\ \A f \in Replayed(fill.sub) : f.id # fill.id
      BY <2>1 DEF ReplayApplies
    <2> SUFFICES ASSUME NEW s \in Subaccounts
                 PROVE  /\ MadeOf(Episodes(ledgers'[s]), Replayed(s)')
                        /\ Counted(Episodes(ledgers'[s]), Replayed(s)', SettlementFee(Episodes(ledgers'[s]), audit'.row))
                        /\ ~SettledIn(Episodes(ledgers'[s]))
      BY <2>2 DEF FeesInv
    <2>3. /\ MadeOf(Episodes(ledgers[s]), Replayed(s)) /\ ~SettledIn(Episodes(ledgers[s]))
          /\ Counted(Episodes(ledgers[s]), Replayed(s), 0)
      BY <2>2 DEF FeesInv, SettlementFee
    <2>4. CASE s # fill.sub
      <3>1. ledgers'[s] = ledgers[s] /\ Replayed(s)' = Replayed(s)
        BY <1>2, <2>1, <2>4 DEF ReplayApplies
      <3> QED
        BY <2>3, <3>1 DEF SettlementFee
    <2>5. CASE s = fill.sub
      <3> DEFINE l == ledgers'[s]
                 ledger == ledgers[s]
                 R == Replayed(s)
      <3>1. l = Applied(ledger, fill) /\ Replayed(s)' = R \cup {fill}
        BY <1>2, <2>1, <2>5 DEF ReplayApplies
      <3>2. Sound(ledger) /\ Sound(l) /\ \A f \in R : f.id # fill.id
        BY <1>1, <2>2, <2>5
      <3>3. MadeOf(Episodes(ledger), R) /\ Counted(Episodes(ledger), R, 0)
        BY <2>3
      <3>4. ~SettledIn(Episodes(ledger))
        BY <2>3
      <3> SUFFICES MadeOf(Episodes(l), R \cup {fill}) /\ Counted(Episodes(l), R \cup {fill}, 0)
                   /\ ~SettledIn(Episodes(l))
        BY <3>1 DEF SettlementFee
      <3> HIDE DEF l, ledger, R
      <3>5. MadeOf(Episodes(l), R \cup {fill}) /\ Counted(Episodes(l), R \cup {fill}, 0)
        BY <3>1, <3>2, <3>3, AppliedCounts
      <3>6. ~SettledIn(Episodes(l))
        BY <3>1, <3>2, <3>4, AppliedUnsettled
      <3> QED
        BY <3>5, <3>6
    <2> QED
      BY <2>4, <2>5
  <1>6. CASE ReplaySettles
    <2>1. pc = "fills" /\ pc' = "authority" /\ audit' = audit
      BY <1>6 DEF ReplaySettles
    <2> SUFFICES ASSUME NEW s \in Subaccounts
                 PROVE  /\ MadeOf(Episodes(ledgers'[s]), Replayed(s)')
                        /\ Counted(Episodes(ledgers'[s]), Replayed(s)', SettlementFee(Episodes(ledgers'[s]), audit'.row))
      BY <2>1 DEF FeesInv, Reads
    <2>2. /\ MadeOf(Episodes(ledgers[s]), Replayed(s)) /\ ~SettledIn(Episodes(ledgers[s]))
          /\ Counted(Episodes(ledgers[s]), Replayed(s), 0)
      BY <2>1 DEF FeesInv, SettlementFee
    <2>3. SettlesOrNot(s) /\ Replayed(s)' = Replayed(s)
      BY <1>6 DEF ReplaySettles
    <2>4. CASE ledgers'[s] = ledgers[s] \/ ledgers'[s] = Unresolved(ledgers[s])
      <3>1. PICK m : Remarks(m, ledgers'[s], ledgers[s])
        BY <1>1, <2>4, UnresolvedMoney
      <3>2. /\ MadeOf(Episodes(ledgers'[s]), Replayed(s)) /\ ~SettledIn(Episodes(ledgers'[s]))
            /\ Counted(Episodes(ledgers'[s]), Replayed(s), 0)
        BY <1>1, <2>2, <3>1, MarkedCounts
      <3> QED
        BY <2>3, <3>2 DEF SettlementFee
    <2>5. CASE audit.row # Unsettled /\ ~Refuses(ledgers[s], audit.row)
               /\ ledgers'[s] = Settled(ledgers[s], audit.row)
      <3>1. ledgers[s].position # 0 /\ audit.row \in Settlement
        BY <1>2, <2>5 DEF Refuses
      <3>2. /\ MadeOf(Episodes(ledgers'[s]), Replayed(s)) /\ SettledIn(Episodes(ledgers'[s]))
            /\ Counted(Episodes(ledgers'[s]), Replayed(s), RowFee(audit.row))
        BY <1>1, <2>2, <2>5, <3>1, SettledCounts
      <3> QED
        BY <2>1, <2>3, <3>2 DEF SettlementFee
    <2> QED
      BY <2>3, <2>4, <2>5 DEF SettlesOrNot
  <1>7. CASE ReplayMarks
    <2>1. pc' = "done" /\ audit' = audit
      BY <1>7 DEF ReplayMarks
    <2> SUFFICES ASSUME NEW s \in Subaccounts
                 PROVE  /\ MadeOf(Episodes(ledgers'[s]), Replayed(s)')
                        /\ Counted(Episodes(ledgers'[s]), Replayed(s)', SettlementFee(Episodes(ledgers'[s]), audit'.row))
      BY <2>1 DEF FeesInv, Reads
    <2>2. ledgers'[s] = Authorised(ledgers[s]) /\ Replayed(s)' = Replayed(s)
      BY <1>7 DEF ReplayMarks
    <2>3. PICK m : Remarks(m, ledgers'[s], ledgers[s])
      BY <1>1, <2>2, AuthorisedMoney
    <2>4. /\ MadeOf(Episodes(ledgers[s]), Replayed(s))
          /\ Counted(Episodes(ledgers[s]), Replayed(s), SettlementFee(Episodes(ledgers[s]), audit.row))
      BY DEF FeesInv
    <2> DEFINE more == SettlementFee(Episodes(ledgers[s]), audit.row)
    <2>5. Counted(Episodes(ledgers[s]), Replayed(s), more)
      BY <2>4
    <2>6. more = SettlementFee(Episodes(ledgers[s]), audit.row)
      OBVIOUS
    <2> HIDE DEF more
    <2>7. /\ MadeOf(Episodes(ledgers'[s]), Replayed(s))
          /\ Counted(Episodes(ledgers'[s]), Replayed(s), more)
          /\ SettledIn(Episodes(ledgers'[s])) <=> SettledIn(Episodes(ledgers[s]))
      BY <1>1, <2>3, <2>4, <2>5, MarkedCounts
    <2>8. SettlementFee(Episodes(ledgers'[s]), audit'.row) = more
      BY <2>1, <2>6, <2>7 DEF SettlementFee
    <2> QED
      BY <2>2, <2>7, <2>8
  <1> QED
    BY <1>3, <1>4, <1>5, <1>6, <1>7, ReplayCases

LEMMA FeesInductive == Spec => []FeesInv
  <1>1. Init => FeesInv
    BY InitCounts
  <1>2. IInv /\ FeesInv /\ [Next]_vars => FeesInv'
    BY NextCounts
  <1> QED
    BY <1>1, <1>2, Inductive, PTL DEF Spec

\* What the episodes of a subaccount say they were charged is what their
\* executions and its settlement cost, once each, and no episode that lacks a
\* fee says its fees are complete (position.py: _record, charge_fee,
\* fee_allocation_ambiguous, apply_settlement).
THEOREM FeesAreCountedOnce == Spec => []FeesCountedOnce
  <1>1. ASSUME FeesInv PROVE FeesCountedOnce
    <2> SUFFICES ASSUME NEW s \in Subaccounts
                 PROVE  LET episodes == Episodes(ledgers[s])
                            Owners(fill) == {e \in episodes : fill.id \in e.fills}
                            known == {f \in Replayed(s) : Fee(f) # None /\ \E e \in episodes : Owners(f) = {e}}
                            fees == [e \in episodes |-> e.fees]
                            charged == [f \in known |-> Fee(f)]
                            settled == \E e \in episodes : e.closedBy = "settlement"
                        IN  /\ SumOver(fees, episodes)
                                = SumOver(charged, known)
                                    + (IF settled /\ audit.row.fee # None THEN audit.row.fee ELSE 0)
                            /\ \A f \in Replayed(s) \ known : \A e \in Owners(f) : ~e.feeComplete
      BY DEF FeesCountedOnce
    <2> DEFINE E == Episodes(ledgers[s])
               R == Replayed(s)
               Owners(fill) == {e \in E : fill.id \in e.fills}
               known == {f \in R : Fee(f) # None /\ \E e \in E : Owners(f) = {e}}
               fees == [e \in E |-> e.fees]
               charged == [f \in known |-> Fee(f)]
    <2>1. MadeOf(E, R) /\ Counted(E, R, SettlementFee(E, audit.row))
      BY <1>1 DEF FeesInv
    <2> HIDE DEF E, R
    <2>2. \A f \in R : OwnedOnce(E, f.id) <=> \E e \in E : Owners(f) = {e}
      <3> SUFFICES ASSUME NEW f \in R PROVE OwnedOnce(E, f.id) <=> \E e \in E : Owners(f) = {e}
        OBVIOUS
      <3>1. ASSUME NEW e \in E PROVE (Owners(f) = {e}) <=>
                    (f.id \in e.fills /\ \A b \in E : f.id \in b.fills => b = e)
        OBVIOUS
      <3> QED
        BY <3>1 DEF OwnedOnce
    <2>3. known = Known(E, R)
      BY <2>2 DEF Known
    <2>4. SumOver(fees, E) = FeesOf(E)
      <3>1. \A e \in E : fees[e] = [g \in Episode |-> g.fees][e]
        BY <2>1 DEF MadeOf
      <3> QED
        <4>1. IsFiniteSet(E)
          BY <2>1 DEF MadeOf
        <4> DEFINE v == [g \in Episode |-> g.fees]
        <4>2. \A e \in E : fees[e] = v[e]
          BY <3>1
        <4>3. FeesOf(E) = SumOver(v, E)
          BY DEF FeesOf
        <4> HIDE DEF fees, v
        <4> QED
          BY <4>1, <4>2, <4>3, SumOfEquals
    <2>5. SumOver(charged, known) = FeesIn(known)
      <3>1. IsFiniteSet(known) /\ known \subseteq Fill
        <4> HIDE DEF known
        <4> QED
          BY <2>1, <2>3, KnownIsFinite
      <3>2. \A f \in known : charged[f] = [g \in Fill |-> Fee(g)][f]
        BY <3>1
      <3> QED
        BY <3>1, <3>2, SumOfEquals DEF FeesIn
    <2>6. \A f \in R \ known : \A e \in Owners(f) : ~e.feeComplete
      BY <2>1, <2>3 DEF Counted, Incomplete
    <2>7. SettlementFee(E, audit.row) = IF (\E e \in E : e.closedBy = "settlement") /\ audit.row.fee # None
                             THEN audit.row.fee ELSE 0
      BY DEF SettlementFee, SettledIn, RowFee
    <2>8. SumOver(fees, E) = SumOver(charged, known) + SettlementFee(E, audit.row)
      BY <2>1, <2>3, <2>4, <2>5 DEF Counted
    <2> QED
      BY <2>6, <2>7, <2>8 DEF E, R
  <1> QED
    BY <1>1, FeesInductive, PTL

---------------------------------------------------------------------------
(* What the episodes realized: the arithmetic of a step.                   *)

\* What a reduction by sg contracts, or a close, realizes against average a.
LEMMA ReductionIsCash ==
    ASSUME NEW p \in Int, p # 0, NEW sg \in Int, NEW a \in Int, NEW price \in Int,
           Sign(sg) = -Sign(p), NEW gain, gain = (price - a) * Abs(sg) * Sign(p)
    PROVE  gain = sg * a - sg * price
  <1>1. CASE p > 0
    <2>1. sg < 0 /\ Sign(p) = 1 /\ Abs(sg) = -sg
      BY <1>1 DEF Sign, Abs
    <2> QED
      BY <2>1
  <1>2. CASE p < 0
    <2>1. sg > 0 /\ Sign(p) = -1 /\ Abs(sg) = sg
      BY <1>2 DEF Sign, Abs
    <2> QED
      BY <2>1
  <1> QED
    BY <1>1, <1>2

\* A division without a rest.
LEMMA ExactQuotient ==
    ASSUME NEW n \in Int, NEW d \in Nat \ {0}, n % d = 0
    PROVE  n \div d \in Int /\ n = d * (n \div d) /\ (n \in Nat => n \div d \in Nat)
  <1>1. n \div d \in Int /\ n = d * (n \div d) + (n % d)
    OBVIOUS
  <1>2. n = d * (n \div d)
    BY <1>1
  <1>3. n \in Nat => n \div d \in Nat
    BY <1>1, <1>2
  <1> QED
    BY <1>1, <1>2, <1>3

\* The average of an increase keeps the cost of what is held.
LEMMA IncreaseIsCash ==
    ASSUME NEW p \in Int, p # 0, NEW sg \in Int, NEW a \in Nat, NEW price \in Nat,
           Sign(p + sg) = Sign(p), Abs(p + sg) > Abs(p),
           NEW n, n = a * Abs(p) + price * Abs(sg), n % Abs(p + sg) = 0,
           NEW b, b = n \div Abs(p + sg)
    PROVE  b \in Nat /\ (p + sg) * b = p * a + sg * price
  <1>1. /\ Abs(p) \in Nat /\ Abs(sg) \in Nat /\ Abs(p + sg) \in Nat \ {0}
        /\ p > 0 => Abs(p) = p /\ Abs(sg) = sg /\ Abs(p + sg) = p + sg
        /\ p < 0 => Abs(p) = -p /\ Abs(sg) = -sg /\ Abs(p + sg) = -(p + sg)
    BY DEF Abs, Sign
  <1>2. n \in Nat
    BY <1>1
  <1>3. b \in Nat /\ n = Abs(p + sg) * b
    <2> DEFINE d == Abs(p + sg)
    <2>1. d \in Nat \ {0} /\ n \in Int /\ n % d = 0 /\ b = n \div d
      BY <1>1, <1>2
    <2> HIDE DEF d
    <2>2. n \div d \in Int /\ n = d * (n \div d) /\ (n \in Nat => n \div d \in Nat)
      BY ONLY <2>1, ExactQuotient
    <2>3. b \in Nat /\ n = d * b
      BY <1>2, <2>1, <2>2
    <2> QED
      BY <2>3 DEF d
  <1>4. CASE p > 0
    BY <1>1, <1>3, <1>4
  <1>5. CASE p < 0
    <2>1. a * (-p) + price * (-sg) = (-(p + sg)) * b
      BY <1>1, <1>3, <1>5
    <2> QED
      BY <1>3, <2>1
  <1> QED
    BY <1>3, <1>4, <1>5

---------------------------------------------------------------------------
(* What the episodes realized, and what the executions paid.               *)

RealizedOf(E) == SumOver([e \in Episode |-> e.realized], E)
PaidFor(R) == SumOver([f \in Fill |-> Signed(f) * Price(f)], R)
NetOf(R) == SumOver([f \in Fill |-> Signed(f)], R)

CostsKnown(E) == \A e \in E : e.costComplete
AllPriced(R) == \A f \in R : Price(f) # None

LEMMA RealizedIsMoney ==
    ASSUME NEW E, IsFiniteSet(E), E \subseteq Episode PROVE RealizedOf(E) \in Int
  <1>1. \A e \in E : [g \in Episode |-> g.realized][e] \in Int
    BY DEF Episode
  <1> QED
    BY <1>1, SumIsWhole DEF RealizedOf

LEMMA FillsAddUp ==
    ASSUME NEW R, IsFiniteSet(R), R \subseteq Fill
    PROVE  PaidFor(R) \in Int /\ NetOf(R) \in Int
  <1> DEFINE v == [f \in Fill |-> Signed(f) * Price(f)]
             w == [f \in Fill |-> Signed(f)]
  <1>1. \A f \in R : v[f] \in Int /\ w[f] \in Int
    BY FillWorth
  <1>2. PaidFor(R) = SumOver(v, R) /\ NetOf(R) = SumOver(w, R)
    BY DEF PaidFor, NetOf
  <1> HIDE DEF v, w
  <1>3. SumOver(v, R) \in Int /\ SumOver(w, R) \in Int
    BY <1>1, SumIsWhole
  <1> QED
    BY <1>2, <1>3

LEMMA OneMoreFill ==
    ASSUME NEW R, IsFiniteSet(R), R \subseteq Fill, NEW fill \in Fill, fill \notin R
    PROVE  /\ PaidFor(R \cup {fill}) = PaidFor(R) + Signed(fill) * Price(fill)
           /\ NetOf(R \cup {fill}) = NetOf(R) + Signed(fill)
           /\ IsFiniteSet(R \cup {fill}) /\ PaidFor(R) \in Int /\ NetOf(R) \in Int
  <1> DEFINE v == [f \in Fill |-> Signed(f) * Price(f)]
             w == [f \in Fill |-> Signed(f)]
             S == R \cup {fill}
  <1>1. \A f \in S : v[f] \in Int /\ w[f] \in Int
    BY FillWorth
  <1>2. /\ PaidFor(S) = SumOver(v, S) /\ NetOf(S) = SumOver(w, S)
        /\ PaidFor(R) = SumOver(v, R) /\ NetOf(R) = SumOver(w, R)
        /\ v[fill] = Signed(fill) * Price(fill) /\ w[fill] = Signed(fill)
    BY DEF PaidFor, NetOf
  <1>3. v[fill] \in Int /\ w[fill] \in Int
    BY <1>1
  <1> HIDE DEF v, w
  <1>4. SumOver(v, S) = v[fill] + SumOver(v, R) /\ SumOver(w, S) = w[fill] + SumOver(w, R)
    BY <1>1, SumTakesIn
  <1>5. PaidFor(R) \in Int /\ NetOf(R) \in Int /\ IsFiniteSet(S)
    BY FillsAddUp, FS_AddElement
  <1> HIDE DEF S
  <1>6. PaidFor(S) = PaidFor(R) + v[fill] /\ NetOf(S) = NetOf(R) + w[fill]
    BY <1>2, <1>3, <1>4, <1>5
  <1> QED
    BY <1>2, <1>5, <1>6 DEF S

\* An episode that realized nothing joins the others.
LEMMA RealizedOfAdded ==
    ASSUME NEW E, IsFiniteSet(E), E \subseteq Episode, NEW e \in Episode, e \notin E, e.realized = 0,
           NEW F, F = E \cup {e}
    PROVE  /\ IsFiniteSet(F) /\ F \subseteq Episode /\ RealizedOf(F) = RealizedOf(E)
           /\ CostsKnown(F) => CostsKnown(E) /\ e.costComplete
  <1> DEFINE v == [g \in Episode |-> g.realized]
  <1>1. \A f \in E \cup {e} : v[f] \in Int
    BY DEF Episode
  <1>2. v[e] = 0
    OBVIOUS
  <1>3. RealizedOf(E \cup {e}) = SumOver(v, E \cup {e}) /\ RealizedOf(E) = SumOver(v, E)
    BY DEF RealizedOf
  <1> HIDE DEF v
  <1>4. SumOver(v, E \cup {e}) = v[e] + SumOver(v, E)
    BY <1>1, SumTakesIn
  <1>5. RealizedOf(E) \in Int /\ IsFiniteSet(E \cup {e})
    BY RealizedIsMoney, FS_AddElement
  <1>6. RealizedOf(F) = RealizedOf(E)
    BY <1>2, <1>3, <1>4, <1>5
  <1> QED
    BY <1>5, <1>6 DEF CostsKnown

\* An episode takes the place of the one it goes on from, with its gain.
LEMMA RealizedOfSwapped ==
    ASSUME NEW E, IsFiniteSet(E), E \subseteq Episode, NEW old \in E, NEW e \in Episode,
           e \notin E \ {old}, NEW gain \in Int, e.realized = old.realized + gain,
           NEW basis, e.costComplete <=> old.costComplete /\ basis,
           NEW F, F = (E \ {old}) \cup {e}
    PROVE  /\ IsFiniteSet(F) /\ F \subseteq Episode /\ RealizedOf(F) = RealizedOf(E) + gain
           /\ CostsKnown(F) => CostsKnown(E) /\ basis
  <1> DEFINE v == [g \in Episode |-> g.realized]
             S == E
  <1>1. IsFiniteSet(S) /\ old \in S /\ e \notin S \ {old} /\ \A f \in S \cup {e} : v[f] \in Int
    BY DEF Episode
  <1>2. v[e] = e.realized /\ v[old] = old.realized /\ old.realized \in Int
    BY DEF Episode
  <1>3. RealizedOf((S \ {old}) \cup {e}) = SumOver(v, (S \ {old}) \cup {e}) /\ RealizedOf(S) = SumOver(v, S)
    BY DEF RealizedOf
  <1>c. CostsKnown(F) => CostsKnown(E) /\ basis
    BY DEF CostsKnown
  <1>d. S = E /\ F \subseteq Episode
    OBVIOUS
  <1> HIDE DEF v, S
  <1>4. /\ IsFiniteSet((S \ {old}) \cup {e})
        /\ SumOver(v, (S \ {old}) \cup {e}) = SumOver(v, S) - v[old] + v[e]
    BY ONLY <1>1, SumSwaps
  <1>5. RealizedOf(S) \in Int
    BY <1>d, RealizedIsMoney
  <1>6. RealizedOf((S \ {old}) \cup {e}) = RealizedOf(S) + gain
    BY <1>2, <1>3, <1>4, <1>5
  <1> QED
    BY <1>4, <1>6, <1>c, <1>d

\* What an open position is valued at, and what backs the episodes E of a
\* ledger that was replayed from R: if every cost is known, every execution has
\* a price, and the gains are what was received less what was paid for the rest.
Valued(ledger) == IF ledger.position = 0 THEN 0 ELSE ledger.position * ledger.average

Backed(ledger, E, R) ==
    CostsKnown(E) =>
        /\ AllPriced(R) /\ RealizedOf(E) + PaidFor(R) = Valued(ledger)
        /\ ledger.position # 0 => ledger.average \in Nat /\ ledger.costComplete

\* Buying more at this price leaves an average without a rest.
ExactFor(ledger, fill) ==
    LET after == ledger.position + Signed(fill)
    IN  /\ ledger.position # 0 /\ Sign(after) = Sign(ledger.position)
        /\ Abs(after) > Abs(ledger.position) /\ Price(fill) # None /\ ledger.average # None
        => (ledger.average * Abs(ledger.position) + Price(fill) * Count(fill)) % Abs(after) = 0

\* The open episode goes on with an execution, or ends with it.
LEMMA SwappedBacking ==
    ASSUME NEW E, NEW R, MadeOf(E, R), NEW fill \in Fill, \A f \in R : f.id # fill.id,
           NEW old \in E, NEW e \in Episode, NEW charged, NEW gain \in Int, NEW basis \in BOOLEAN,
           Books(e, old, fill, charged, gain, basis),
           NEW F, F = (E \ {old}) \cup {e}
    PROVE  /\ IsFiniteSet(F) /\ F \subseteq Episode /\ RealizedOf(F) = RealizedOf(E) + gain
           /\ CostsKnown(F) => CostsKnown(E) /\ basis
           /\ RealizedOf(E) \in Int /\ \A b \in F : fill.id \in b.fills <=> b = e
  <1>1. \A b \in E : fill.id \notin b.fills
    BY OwnerOfFresh
  <1>2. fill.id \in e.fills /\ e \notin E \ {old}
    BY <1>1 DEF Books
  <1>3. /\ e.realized = old.realized + gain /\ (e.costComplete <=> old.costComplete /\ basis)
        /\ IsFiniteSet(E) /\ E \subseteq Episode
    BY DEF Books, MadeOf
  <1>4. /\ IsFiniteSet(F) /\ F \subseteq Episode /\ RealizedOf(F) = RealizedOf(E) + gain
        /\ CostsKnown(F) => CostsKnown(E) /\ basis
    BY <1>2, <1>3, RealizedOfSwapped
  <1>5. RealizedOf(E) \in Int
    BY <1>3, RealizedIsMoney
  <1> QED
    BY <1>1, <1>2, <1>4, <1>5

\* The rest of an arithmetic step: the gain is sg * a - sg * price.
LEMMA ReducedValue ==
    ASSUME NEW r \in Int, NEW paid \in Int, NEW p \in Int, NEW a \in Int, NEW sg \in Int,
           NEW price \in Int, NEW gain, gain = sg * a - sg * price, r + paid = p * a
    PROVE  (r + gain) + (paid + sg * price) = (p + sg) * a
  <1>1. sg * a \in Int /\ sg * price \in Int /\ p * a \in Int
    OBVIOUS
  <1>2. (p + sg) * a = p * a + sg * a
    OBVIOUS
  <1> QED
    BY <1>1, <1>2

LEMMA ReversedValue ==
    ASSUME NEW r \in Int, NEW paid \in Int, NEW p \in Int, NEW a \in Int, NEW sg \in Int,
           NEW price \in Int, NEW gain, gain = (-p) * a - (-p) * price, r + paid = p * a
    PROVE  (r + gain) + (paid + sg * price) = (p + sg) * price
  <1>1. sg * price \in Int /\ p * a \in Int /\ p * price \in Int
    OBVIOUS
  <1>2. (-p) * a = -(p * a) /\ (-p) * price = -(p * price)
    OBVIOUS
  <1>3. (p + sg) * price = p * price + sg * price
    OBVIOUS
  <1> QED
    BY <1>1, <1>2, <1>3

\* Every kind of execution keeps the episodes backed.
LEMMA AppliedBacked ==
    ASSUME NEW ledger, Sound(ledger), NEW fill \in Fill, NEW l, l = Applied(ledger, fill), Sound(l),
           NEW R, MadeOf(Episodes(ledger), R), \A f \in R : f.id # fill.id,
           Backed(ledger, Episodes(ledger), R), ExactFor(ledger, fill)
    PROVE  Backed(l, Episodes(l), R \cup {fill})
  <1> DEFINE E == Episodes(ledger)
             F == Episodes(l)
             S == R \cup {fill}
             p == ledger.position
             a == ledger.average
             sg == Signed(fill)
             price == Price(fill)
             after == p + sg
             old == ledger.current
             r == RealizedOf(E)
             paid == PaidFor(R)
             yes == TRUE
             no == FALSE
             priced == Priced(ledger, fill)
             known == ledger.costComplete /\ price # None /\ a # None
  <1>1. l.position = after /\ AppliedMoney(l, ledger, fill, after)
    BY EpisodesOf, ApplyingMoney
  <1>2. /\ IsFiniteSet(E) /\ E \subseteq Episode /\ MadeOf(E, R) /\ IsFiniteSet(R) /\ R \subseteq Fill
    BY DEF MadeOf
  <1>3. /\ p = 0 => E = ledger.past
        /\ p # 0 => old \in E /\ E \ {old} = ledger.past
        /\ l.position = 0 => F = l.past
        /\ l.position # 0 => F = l.past \cup {l.current}
    BY EpisodesOf
  <1>4. /\ p \in Int /\ a \in Int /\ sg \in Int /\ sg # 0 /\ price \in Int /\ Abs(sg) = Count(fill)
        /\ price # None => price \in Nat
    <2>1. ledger \in MarketLedger
      BY EpisodesOf
    <2>2. PriceOf[fill.id] \in 0..One \cup {-1}
      BY FillWorth, MoneyIsWhole DEF None
    <2>3. price # None => price \in Nat
      BY <2>2, MoneyIsWhole DEF Price, None
    <2> QED
      BY <2>1, <2>3, FillWorth DEF MarketLedger
  <1>5. r \in Int /\ paid \in Int /\ PaidFor(S) = paid + sg * price
    <2>1. fill \notin R
      OBVIOUS
    <2> QED
      BY <1>2, <2>1, RealizedIsMoney, OneMoreFill
  <1>6. CostsKnown(E) =>
          /\ AllPriced(R) /\ r + paid = (IF p = 0 THEN 0 ELSE p * a)
          /\ p # 0 => a \in Nat /\ ledger.costComplete
    BY DEF Backed, Valued
  <1>7. AllPriced(S) <=> AllPriced(R) /\ price # None
    BY DEF AllPriced
  <1>8. yes \in BOOLEAN /\ no \in BOOLEAN /\ priced \in BOOLEAN /\ known \in BOOLEAN
    BY DEF Priced
  <1>9. /\ priced <=> price # None /\ a # None /\ ledger.costComplete
        /\ known <=> price # None /\ a # None /\ ledger.costComplete
    BY DEF Priced
  <1>10. /\ p # 0 /\ priced => /\ Gain(ledger, fill, Abs(p)) = (price - a) * Abs(p) * Sign(p)
                               /\ Gain(ledger, fill, Count(fill)) = (price - a) * Count(fill) * Sign(p)
         /\ Gain(ledger, fill, Abs(p)) \in Int /\ Gain(ledger, fill, Count(fill)) \in Int
    <2>1. ledger \in MarketLedger /\ Abs(p) \in Nat /\ Count(fill) \in Nat
      BY <1>4, EpisodesOf, FillWorth DEF Abs
    <2>2. Gain(ledger, fill, Abs(p)) \in Int /\ Gain(ledger, fill, Count(fill)) \in Int
      BY <2>1, GainIsMoney
    <2> QED
      BY <2>2 DEF Gain, Priced
  <1>11. /\ p # 0 /\ Sign(after) = Sign(p) /\ Abs(after) > Abs(p) /\ price # None /\ a # None
            => (a * Abs(p) + price * Count(fill)) % Abs(after) = 0
    BY DEF ExactFor
  <1>12. /\ p = 0 => Starts(l.current, fill, yes) /\ l.past = ledger.past /\ l.average = price
                     /\ (l.costComplete <=> price # None)
         /\ p # 0 /\ after = 0 => Closes(l, ledger, fill, yes)
         /\ p # 0 /\ after # 0 /\ Sign(after) # Sign(p) =>
               Closes(l, ledger, fill, no) /\ Starts(l.current, fill, no) /\ l.average = price
               /\ (l.costComplete <=> price # None)
         /\ p # 0 /\ after # 0 /\ Sign(after) = Sign(p) =>
               IF Abs(after) > Abs(p) THEN Increases(l, ledger, fill, after)
                                      ELSE Reduces(l, ledger, fill, after)
    BY <1>1, <1>4 DEF AppliedMoney
  <1> SUFFICES ASSUME CostsKnown(F)
               PROVE  /\ AllPriced(S) /\ RealizedOf(F) + PaidFor(S) = Valued(l)
                      /\ l.position # 0 => l.average \in Nat /\ l.costComplete
    BY DEF Backed
  <1>z. after = p + sg
    OBVIOUS
  <1>g. \A e \in E : fill.id \notin e.fills
    BY OwnerOfFresh
  <1>q. p = ledger.position /\ a = ledger.average /\ price = Price(fill) /\ old = ledger.current
        /\ (priced <=> Priced(ledger, fill)) /\ r = RealizedOf(E)
        /\ (known <=> ledger.costComplete /\ Price(fill) # None /\ ledger.average # None)
    OBVIOUS
  <1> HIDE DEF E, F, S, p, a, sg, price, after, old, r, paid, yes, no, priced, known
  <1>13. CASE p = 0
    <2> DEFINE e == l.current
    <2>1. Starts(e, fill, yes) /\ F = E \cup {e} /\ l.average = price
          /\ (l.costComplete <=> price # None)
      BY <1>1, <1>3, <1>4, <1>12, <1>13, <1>z
    <2> HIDE DEF e
    <2>2. e \in Episode /\ e \notin E /\ e.realized = 0 /\ (e.costComplete <=> price # None)
      BY <1>g, <1>q, <2>1 DEF Starts
    <2>3. RealizedOf(F) = RealizedOf(E) /\ (CostsKnown(F) => CostsKnown(E) /\ e.costComplete)
      BY <1>2, <2>1, <2>2, RealizedOfAdded
    <2>4. CostsKnown(E) /\ price # None /\ RealizedOf(F) = r
      BY <1>q, <2>2, <2>3
    <2>5. RealizedOf(F) + PaidFor(S) = after * l.average
      BY <1>4, <1>5, <1>6, <1>13, <1>z, <2>1, <2>4
    <2>6. Valued(l) = after * l.average
      BY <1>1, <1>4, <1>13, <1>z DEF Valued
    <2> QED
      BY <1>4, <1>6, <1>7, <2>1, <2>4, <2>5, <2>6
  <1>14. CASE p # 0 /\ after = 0
    <2>1. Closes(l, ledger, fill, yes) /\ F = l.past
      BY <1>1, <1>3, <1>12, <1>14
    <2> DEFINE gain == Gain(ledger, fill, Abs(p))
    <2>2. PICK e \in Episode : l.past = ledger.past \cup {e} /\ Books(e, old, fill, yes, gain, priced)
      BY <1>q, <2>1 DEF Closes, priced
    <2>3. F = (E \ {old}) \cup {e} /\ old \in E /\ gain \in Int
      BY <1>3, <1>10, <1>14, <2>1, <2>2
    <2>4. priced => gain = (price - a) * Abs(sg) * Sign(p) /\ Sign(sg) = -Sign(p)
      <3>1. sg = -p
        BY <1>4, <1>14, <1>z
      <3>2. Abs(p) = Abs(sg) /\ Sign(sg) = -Sign(p)
        BY <1>4, <3>1 DEF Abs, Sign
      <3> QED
        BY <1>10, <1>14, <3>2
    <2> HIDE DEF gain
    <2>5. RealizedOf(F) = RealizedOf(E) + gain /\ (CostsKnown(F) => CostsKnown(E) /\ priced)
      BY <1>2, <1>8, <2>2, <2>3, SwappedBacking
    <2>6. CostsKnown(E) /\ priced /\ RealizedOf(F) = r + gain
      BY <1>q, <2>5
    <2>7. gain = sg * a - sg * price
      BY <1>4, <1>14, <2>4, <2>6, ReductionIsCash
    <2>8. r + paid = p * a
      BY <1>6, <1>14, <2>6
    <2>9. RealizedOf(F) + PaidFor(S) = after * a
      <3>1. (r + gain) + (paid + sg * price) = (p + sg) * a
        BY <1>4, <1>5, <2>7, <2>8, ReducedValue
      <3> QED
        BY <1>5, <1>z, <2>6, <3>1
    <2>10. after * a = 0 /\ Valued(l) = 0 /\ l.position = 0
      BY <1>1, <1>4, <1>14 DEF Valued
    <2> QED
      BY <1>6, <1>7, <1>9, <2>6, <2>9, <2>10
  <1>15. CASE p # 0 /\ after # 0 /\ Sign(after) # Sign(p)
    <2> DEFINE n == l.current
               gain == Gain(ledger, fill, Abs(p))
    <2>1. Closes(l, ledger, fill, no) /\ Starts(n, fill, no) /\ F = l.past \cup {n}
          /\ l.average = price /\ (l.costComplete <=> price # None)
      BY <1>1, <1>3, <1>12, <1>15
    <2>2. PICK e \in Episode :
             /\ l.past = ledger.past \cup {e} /\ e.closedBy = "fill"
             /\ Books(e, old, fill, no, gain, priced)
      BY <1>q, <2>1 DEF Closes, priced
    <2> DEFINE M == (E \ {old}) \cup {e}
    <2>3. F = M \cup {n} /\ old \in E /\ gain \in Int /\ M = (E \ {old}) \cup {e}
      BY <1>3, <1>10, <1>15, <2>1, <2>2
    <2>4. priced => gain = (price - a) * Abs(-p) * Sign(p) /\ Sign(-p) = -Sign(p) /\ -p \in Int
      <3>1. Abs(p) = Abs(-p) /\ Sign(-p) = -Sign(p) /\ -p \in Int
        BY <1>4 DEF Abs, Sign
      <3> QED
        BY <1>10, <1>15, <3>1
    <2> HIDE DEF gain, M, n
    <2>5. /\ RealizedOf(M) = RealizedOf(E) + gain /\ (CostsKnown(M) => CostsKnown(E) /\ priced)
          /\ IsFiniteSet(M) /\ M \subseteq Episode /\ \A b \in M : fill.id \in b.fills <=> b = e
      BY <1>2, <1>8, <2>2, <2>3, SwappedBacking
    <2>6. n \in Episode /\ n \notin M /\ n.realized = 0 /\ (n.costComplete <=> price # None)
      <3>1. n.closedBy = "nothing" /\ fill.id \in n.fills
        BY <2>1 DEF Starts
      <3> QED
        BY <1>q, <2>1, <2>2, <2>5, <3>1 DEF Starts
    <2>7. RealizedOf(F) = RealizedOf(M) /\ (CostsKnown(F) => CostsKnown(M) /\ n.costComplete)
      BY <2>3, <2>5, <2>6, RealizedOfAdded
    <2>8. CostsKnown(E) /\ priced /\ price # None /\ RealizedOf(F) = r + gain
      BY <1>q, <2>5, <2>6, <2>7
    <2>9. gain = (-p) * a - (-p) * price
      <3> DEFINE q == -p
      <3>1. q \in Int /\ gain = (price - a) * Abs(q) * Sign(p) /\ Sign(q) = -Sign(p)
        BY <2>4, <2>8
      <3> HIDE DEF q
      <3>2. gain = q * a - q * price
        BY <1>4, <1>15, <3>1, ReductionIsCash
      <3> QED
        BY <3>2 DEF q
    <2>10. r + paid = p * a
      BY <1>6, <1>15, <2>8
    <2>11. RealizedOf(F) + PaidFor(S) = after * l.average
      <3>1. (r + gain) + (paid + sg * price) = (p + sg) * price
        BY <1>4, <1>5, <2>9, <2>10, ReversedValue
      <3> QED
        BY <1>5, <1>z, <2>1, <2>8, <3>1
    <2>12. Valued(l) = after * l.average
      BY <1>1, <1>15 DEF Valued
    <2> QED
      BY <1>4, <1>6, <1>7, <2>1, <2>8, <2>11, <2>12
  <1>16. CASE p # 0 /\ after # 0 /\ Sign(after) = Sign(p) /\ Abs(after) > Abs(p)
    <2> DEFINE e == l.current
               zero == 0
    <2>1. Increases(l, ledger, fill, after)
      BY <1>12, <1>16
    <2>2. /\ GoesOn(l, ledger, fill, after, zero, known) /\ (l.costComplete <=> known)
          /\ known => l.average = NewAverage(ledger, fill, after)
      BY <1>q, <2>1 DEF Increases, known, price, a
    <2>z. zero \in Int /\ zero = 0
      OBVIOUS
    <2> HIDE DEF zero
    <2>3. Books(e, old, fill, yes, zero, known) /\ e \in Episode /\ l.past = ledger.past
      BY <1>q, <2>2 DEF GoesOn, yes
    <2>4. F = (E \ {old}) \cup {e} /\ old \in E
      BY <1>1, <1>3, <1>16, <2>3
    <2> HIDE DEF e
    <2>5. RealizedOf(F) = RealizedOf(E) + zero /\ (CostsKnown(F) => CostsKnown(E) /\ known)
      BY <1>2, <1>8, <2>3, <2>4, <2>z, SwappedBacking
    <2>6. CostsKnown(E) /\ known /\ RealizedOf(F) = r
      BY <1>5, <1>q, <2>5, <2>z
    <2>7. a \in Nat /\ price \in Nat /\ r + paid = p * a
      BY <1>4, <1>6, <1>9, <1>16, <2>6
    <2>8. l.average \in Nat /\ after * l.average = p * a + sg * price
      <3> DEFINE n == a * Abs(p) + price * Abs(sg)
      <3>1. n % Abs(p + sg) = 0
        BY <1>4, <1>9, <1>11, <1>16, <1>z, <2>6
      <3>2. l.average = n \div Abs(p + sg)
        BY <1>4, <1>q, <1>z, <2>2, <2>6 DEF NewAverage
      <3>3. Sign(p + sg) = Sign(p) /\ Abs(p + sg) > Abs(p)
        BY <1>16, <1>z
      <3>4. n = a * Abs(p) + price * Abs(sg)
        OBVIOUS
      <3> HIDE DEF n
      <3>5. l.average \in Nat /\ (p + sg) * l.average = p * a + sg * price
        BY <1>4, <1>16, <2>7, <3>1, <3>2, <3>3, <3>4, IncreaseIsCash
      <3> QED
        BY <1>z, <3>5
    <2>9. RealizedOf(F) + PaidFor(S) = after * l.average
      <3>1. sg * price \in Int /\ p * a \in Int
        BY <1>4
      <3> QED
        BY <1>5, <2>6, <2>7, <2>8, <3>1
    <2>10. Valued(l) = after * l.average
      BY <1>1, <1>16 DEF Valued
    <2> QED
      BY <1>6, <1>7, <1>9, <2>2, <2>6, <2>8, <2>9, <2>10
  <1>17. CASE p # 0 /\ after # 0 /\ Sign(after) = Sign(p) /\ ~(Abs(after) > Abs(p))
    <2> DEFINE e == l.current
               gain == Gain(ledger, fill, Count(fill))
    <2>1. Reduces(l, ledger, fill, after)
      BY <1>12, <1>17
    <2>2. /\ GoesOn(l, ledger, fill, after, gain, priced) /\ (l.costComplete <=> priced)
          /\ l.average = a
      BY <1>q, <2>1 DEF Reduces, priced, a
    <2>3. Books(e, old, fill, yes, gain, priced) /\ e \in Episode /\ l.past = ledger.past
      BY <1>q, <2>2 DEF GoesOn, yes
    <2>4. F = (E \ {old}) \cup {e} /\ old \in E /\ gain \in Int
      BY <1>1, <1>3, <1>10, <1>17, <2>3
    <2>5. priced => gain = (price - a) * Abs(sg) * Sign(p)
      BY <1>4, <1>10, <1>17
    <2>6. Sign(sg) = -Sign(p)
      BY <1>4, <1>17, <1>z DEF Sign, Abs
    <2> HIDE DEF e, gain
    <2>7. RealizedOf(F) = RealizedOf(E) + gain /\ (CostsKnown(F) => CostsKnown(E) /\ priced)
      BY <1>2, <1>8, <2>3, <2>4, SwappedBacking
    <2>8. CostsKnown(E) /\ priced /\ RealizedOf(F) = r + gain
      BY <1>q, <2>7
    <2>9. gain = sg * a - sg * price
      BY <1>4, <1>17, <2>5, <2>6, <2>8, ReductionIsCash
    <2>10. r + paid = p * a /\ a \in Nat
      BY <1>6, <1>17, <2>8
    <2>11. RealizedOf(F) + PaidFor(S) = after * l.average
      <3>1. (r + gain) + (paid + sg * price) = (p + sg) * a
        BY <1>4, <1>5, <2>9, <2>10, ReducedValue
      <3> QED
        BY <1>5, <1>z, <2>2, <2>8, <3>1
    <2>12. Valued(l) = after * l.average
      BY <1>1, <1>17 DEF Valued
    <2> QED
      BY <1>6, <1>7, <1>9, <2>2, <2>8, <2>10, <2>11, <2>12
  <1> QED
    BY <1>13, <1>14, <1>15, <1>16, <1>17

\* A settlement pays the held contracts: the gain is the row's revenue against
\* the basis of the member's own side.
LEMMA SettledBacked ==
    ASSUME NEW ledger, Sound(ledger), ledger.position # 0, NEW row \in Settlement,
           NEW l, l = Settled(ledger, row),
           NEW R, MadeOf(Episodes(ledger), R), ~SettledIn(Episodes(ledger)),
           Backed(ledger, Episodes(ledger), R)
    PROVE  CostsKnown(Episodes(l)) =>
              /\ AllPriced(R)
              /\ RealizedOf(Episodes(l)) + PaidFor(R)
                    = IF ledger.position > 0 THEN row.revenue ELSE row.revenue + One * ledger.position
  <1> DEFINE E == Episodes(ledger)
             F == Episodes(l)
             old == ledger.current
             p == ledger.position
             a == ledger.average
             known == ledger.costComplete /\ ledger.average # None
             gain == IF known THEN SettlementGain(ledger, row) ELSE 0
  <1>1. Settles(l, ledger, row) /\ Sound(l)
    BY SettlingMoney, SettlingIsSound
  <1>2. PICK e \in Episode :
           /\ l.past = ledger.past \cup {e} /\ e.closedBy = "settlement"
           /\ e.realized = old.realized + gain
           /\ e.costComplete <=> old.costComplete /\ known
    BY <1>1 DEF Settles
  <1>3. F = (E \ {old}) \cup {e} /\ old \in E /\ e \notin E \ {old}
    <2>1. F = l.past /\ E \ {old} = ledger.past /\ old \in E
      BY <1>1, EpisodesOf DEF Settles
    <2> QED
      BY <1>2, <2>1 DEF SettledIn
  <1>4. IsFiniteSet(E) /\ E \subseteq Episode /\ IsFiniteSet(R) /\ R \subseteq Fill
    BY DEF MadeOf
  <1>5. p \in Int /\ a \in Int /\ p # 0 /\ row.revenue \in Int /\ One \in Int /\ known \in BOOLEAN
    BY EpisodesOf, MoneyIsWhole DEF MarketLedger, Settlement
  <1>6. SettlementGain(ledger, row) =
           row.revenue - (IF p > 0 THEN a ELSE One - a) * Abs(p)
    BY DEF SettlementGain
  <1>7. SettlementGain(ledger, row) = IF p > 0 THEN row.revenue - p * a
                                      ELSE row.revenue + One * p - p * a
    <2>1. CASE p > 0
      BY <1>5, <1>6, <2>1 DEF Abs
    <2>2. CASE p < 0
      <3>1. Abs(p) = -p
        BY <1>5, <2>2 DEF Abs
      <3>2. (One - a) * (-p) = -(One * p) + p * a
        BY <1>5
      <3>3. One * p \in Int /\ p * a \in Int
        BY <1>5
      <3> QED
        BY <1>5, <1>6, <2>2, <3>1, <3>2, <3>3
    <2> QED
      BY <1>5, <2>1, <2>2
  <1>8. p * a \in Int /\ One * p \in Int
    BY <1>5
  <1>9. SettlementGain(ledger, row) \in Int /\ gain \in Int
    BY <1>5, <1>7, <1>8
  <1>10. CostsKnown(E) => AllPriced(R) /\ RealizedOf(E) + PaidFor(R) = p * a
    BY DEF Backed, Valued
  <1>11. RealizedOf(E) \in Int /\ PaidFor(R) \in Int
    BY <1>4, RealizedIsMoney, FillsAddUp
  <1>12. known => gain = SettlementGain(ledger, row)
    OBVIOUS
  <1>13. p = ledger.position
    OBVIOUS
  <1> SUFFICES ASSUME CostsKnown(F)
               PROVE  /\ AllPriced(R)
                      /\ RealizedOf(F) + PaidFor(R)
                            = IF p > 0 THEN row.revenue ELSE row.revenue + One * p
    OBVIOUS
  <1> HIDE DEF E, F, old, p, a, known, gain
  <1>14. RealizedOf(F) = RealizedOf(E) + gain /\ (CostsKnown(F) => CostsKnown(E) /\ known)
    BY <1>2, <1>3, <1>4, <1>5, <1>9, RealizedOfSwapped
  <1>15. RealizedOf(F) = RealizedOf(E) + SettlementGain(ledger, row) /\ CostsKnown(E)
    BY <1>12, <1>14
  <1>16. AllPriced(R) /\ RealizedOf(E) + PaidFor(R) = p * a
    BY <1>10, <1>15
  <1>17. RealizedOf(F) + PaidFor(R) = p * a + SettlementGain(ledger, row)
    BY <1>9, <1>11, <1>15, <1>16
  <1>18. RealizedOf(F) + PaidFor(R) = IF p > 0 THEN row.revenue ELSE row.revenue + One * p
    <2>1. CASE p > 0
      BY <1>5, <1>7, <1>8, <1>17, <2>1
    <2>2. CASE ~(p > 0)
      BY <1>5, <1>7, <1>8, <1>17, <2>2
    <2> QED
      BY <2>1, <2>2
  <1> QED
    BY <1>16, <1>18

\* Marks leave what the episodes realized.
LEMMA MarkedRealized ==
    ASSUME NEW ledger, Sound(ledger), NEW l, Sound(l), NEW m, Remarks(m, l, ledger),
           IsFiniteSet(Episodes(ledger))
    PROVE  /\ RealizedOf(Episodes(l)) = RealizedOf(Episodes(ledger))
           /\ CostsKnown(Episodes(l)) <=> CostsKnown(Episodes(ledger))
           /\ SettledIn(Episodes(l)) <=> SettledIn(Episodes(ledger))
           /\ \A R : Backed(ledger, Episodes(ledger), R) => Backed(l, Episodes(l), R)
  <1> DEFINE E == Episodes(ledger)
             F == Episodes(l)
             v == [g \in Episode |-> g.realized]
  <1>1. F = {m[e] : e \in E} /\ \A e \in E : SameMoney(m[e], e)
    BY DEF Remarks
  <1>2. F \subseteq Episode /\ E \subseteq Episode
    BY EpisodesOf
  <1>3. \A x, y \in E : m[x] = m[y] => x = y
    BY <1>1 DEF SameMoney, Sound, OneKeyEach
  <1>4. \A e \in E : v[e] \in Int /\ v[m[e]] = v[e]
    <2> SUFFICES ASSUME NEW e \in E PROVE v[e] \in Int /\ v[m[e]] = v[e]
      OBVIOUS
    <2>1. e \in Episode /\ m[e] \in Episode /\ m[e].realized = e.realized
      BY <1>1, <1>2 DEF SameMoney
    <2> QED
      BY <2>1 DEF Episode
  <1>5. RealizedOf(F) = SumOver(v, F) /\ RealizedOf(E) = SumOver(v, E) /\ IsFiniteSet(E)
    BY DEF RealizedOf
  <1>6. (SettledIn(F) <=> SettledIn(E)) /\ (CostsKnown(F) <=> CostsKnown(E))
    BY <1>1 DEF SettledIn, SameMoney, CostsKnown
  <1>7. l.position = ledger.position /\ l.average = ledger.average
        /\ l.costComplete = ledger.costComplete
    BY DEF Remarks
  <1> SUFFICES RealizedOf(F) = RealizedOf(E) /\ \A R : Backed(ledger, E, R) => Backed(l, F, R)
    BY <1>6
  <1> HIDE DEF E, F, v
  <1>8. RealizedOf(F) = RealizedOf(E)
    <2>1. SumOver(v, {m[x] : x \in E}) = SumOver(v, E)
      BY <1>3, <1>4, <1>5, SumOfImage
    <2> QED
      BY <1>1, <1>5, <2>1
  <1> QED
    BY <1>6, <1>7, <1>8 DEF Backed, Valued

---------------------------------------------------------------------------
(* What the exchange holds, and what its settlement pays for it.           *)

Long(n) == IF n > 0 THEN n ELSE 0
Short(n) == IF n < 0 THEN -n ELSE 0
LongsOf(held) == SumOver([s \in Subaccounts |-> Long(held[s])], Subaccounts)
ShortsOf(held) == SumOver([s \in Subaccounts |-> Short(held[s])], Subaccounts)

Happened == {history[i] : i \in DOMAIN history}
Part(s) == {f \in Happened : f.sub = s}

\* The last book is what the executions leave, added up; the settlement pays
\* for it; and the row that was read is that settlement, after the last of
\* the executions, so that fills as many as there were are all of them.
BooksAddUp ==
    /\ \A s \in Subaccounts : LastBook.held[s] = NetOf(Part(s))
    /\ LastBook.longs = LongsOf(LastBook.held) /\ LastBook.shorts = ShortsOf(LastBook.held)

SettlementPays ==
    settlement # Unsettled =>
        /\ settlement.quantity = LastBook.longs - LastBook.shorts
        /\ settlement.revenue = One * (IF settlement.value = One THEN LastBook.longs ELSE LastBook.shorts)

RowIsTheSettlement ==
    /\ pc \in {"live", "archive", "settlements"} => audit.row = Unsettled
    /\ audit.row # Unsettled => audit.row = settlement /\ (audit.whole => audit.fills = Happened)

BookInv == BooksAddUp /\ SettlementPays /\ RowIsTheSettlement

\* What happened is finitely many executions, at most one for each.
LEMMA HappenedIsFinite ==
    ASSUME IInv
    PROVE  /\ IsFiniteSet(Happened) /\ Happened \subseteq Fill
           /\ Cardinality(Happened) <= Len(history)
           /\ \A s \in Subaccounts : IsFiniteSet(Part(s)) /\ Part(s) \subseteq Fill
  <1>1. history \in Seq(Fill) /\ Len(history) \in Nat /\ DOMAIN history = 1..Len(history)
    BY DEF IInv, TypeOK
  <1> DEFINE D == 1..Len(history)
  <1>2. history \in [D -> Happened] /\ \A f \in Happened : \E i \in D : history[i] = f
    BY <1>1 DEF Happened
  <1>3. history \in Surjection(D, Happened)
    BY <1>2 DEF Surjection
  <1>4. IsFiniteSet(D) /\ Cardinality(D) = Len(history)
    BY <1>1, FS_Interval
  <1>5. IsFiniteSet(Happened) /\ Cardinality(Happened) <= Cardinality(D)
    BY <1>3, <1>4, FS_Surjection
  <1>6. Happened \subseteq Fill
    BY <1>1 DEF Happened
  <1>7. \A s \in Subaccounts : Part(s) \in SUBSET Happened
    BY DEF Part
  <1>8. \A s \in Subaccounts : IsFiniteSet(Part(s))
    BY <1>5, <1>7, FS_Subset
  <1> QED
    BY <1>4, <1>5, <1>6, <1>7, <1>8

LEMMA NothingHappened == NetOf({}) = 0 /\ RealizedOf({}) = 0 /\ PaidFor({}) = 0
  BY SumOfNothing DEF NetOf, RealizedOf, PaidFor

LEMMA InitBooks == Init => BookInv
  <1> SUFFICES ASSUME Init PROVE BookInv
    OBVIOUS
  <1>1. history = <<>> /\ books = <<Book0>> /\ audit = NoAudit /\ settlement = Unsettled
    BY DEF Init
  <1>2. LastBook = Book0 /\ Happened = {}
    BY <1>1 DEF LastBook, Happened
  <1>3. \A s \in Subaccounts : LastBook.held[s] = 0 /\ Part(s) = {}
    BY <1>2 DEF Book0, Part
  <1>4. LastBook.longs = 0 /\ LastBook.shorts = 0
    BY <1>2 DEF Book0
  <1>5. LongsOf(LastBook.held) = 0 /\ ShortsOf(LastBook.held) = 0
    <2> DEFINE v == [s \in Subaccounts |-> Long(LastBook.held[s])]
               w == [s \in Subaccounts |-> Short(LastBook.held[s])]
    <2>1. \A s \in Subaccounts : v[s] = 0 /\ w[s] = 0
      BY <1>3 DEF Long, Short
    <2>2. LongsOf(LastBook.held) = SumOver(v, Subaccounts) /\ ShortsOf(LastBook.held) = SumOver(w, Subaccounts)
      BY DEF LongsOf, ShortsOf
    <2> HIDE DEF v, w
    <2>3. SumOver(v, Subaccounts) = 0 /\ SumOver(w, Subaccounts) = 0
      BY <2>1, SumOfZeros, SubaccountsAreFinite
    <2> QED
      BY <2>2, <2>3
  <1>6. audit.row = Unsettled
    BY <1>1 DEF NoAudit
  <1> QED
    BY <1>1, <1>3, <1>4, <1>5, <1>6, NothingHappened
       DEF BookInv, BooksAddUp, SettlementPays, RowIsTheSettlement

\* An execution moves one subaccount's contracts, and the sums with them.
LEMMA BookedAddsUp ==
    ASSUME NEW book \in Book, NEW fill \in Fill,
           book.longs = LongsOf(book.held), book.shorts = ShortsOf(book.held),
           NEW next, next = Booked(book, fill)
    PROVE  /\ next.longs = LongsOf(next.held) /\ next.shorts = ShortsOf(next.held)
           /\ \A s \in Subaccounts :
                 next.held[s] = book.held[s] + (IF s = fill.sub THEN Signed(fill) ELSE 0)
  <1> DEFINE before == book.held[fill.sub]
             after == before + Signed(fill)
             v == [s \in Subaccounts |-> Long(book.held[s])]
             w == [s \in Subaccounts |-> Short(book.held[s])]
             x == [s \in Subaccounts |-> Long(next.held[s])]
             y == [s \in Subaccounts |-> Short(next.held[s])]
             sub == fill.sub
  <1>1. /\ book.held \in [Subaccounts -> Int] /\ book.longs \in Int /\ book.shorts \in Int
        /\ sub \in Subaccounts /\ Signed(fill) \in Int
    BY FillWorth DEF Book, Fill
  <1>2. before \in Int /\ after \in Int
    BY <1>1
  <1>3. /\ next.held = [book.held EXCEPT ![sub] = after]
        /\ next.longs = book.longs - Long(before) + Long(after)
        /\ next.shorts = book.shorts - Short(before) + Short(after)
    BY DEF Booked, Long, Short
  <1>4. \A s \in Subaccounts : next.held[s] = IF s = sub THEN after ELSE book.held[s]
    BY <1>1, <1>3
  <1>5. \A s \in Subaccounts : next.held[s] \in Int
    BY <1>1, <1>2, <1>4
  <1>6. /\ \A s \in Subaccounts : v[s] \in Int /\ x[s] \in Int /\ w[s] \in Int /\ y[s] \in Int
        /\ \A s \in Subaccounts \ {sub} : x[s] = v[s] /\ y[s] = w[s]
        /\ v[sub] = Long(before) /\ x[sub] = Long(after)
        /\ w[sub] = Short(before) /\ y[sub] = Short(after)
    BY <1>1, <1>4, <1>5 DEF Long, Short
  <1>7. /\ LongsOf(book.held) = SumOver(v, Subaccounts) /\ LongsOf(next.held) = SumOver(x, Subaccounts)
        /\ ShortsOf(book.held) = SumOver(w, Subaccounts) /\ ShortsOf(next.held) = SumOver(y, Subaccounts)
    BY DEF LongsOf, ShortsOf
  <1>8. \A s \in Subaccounts : next.held[s] = book.held[s] + (IF s = sub THEN Signed(fill) ELSE 0)
    BY <1>1, <1>4
  <1> HIDE DEF before, after, v, w, x, y, sub
  <1>9. SumOver(x, Subaccounts) = SumOver(v, Subaccounts) - v[sub] + x[sub]
    <2>1. /\ \A s \in Subaccounts : v[s] \in Int /\ x[s] \in Int
          /\ \A s \in Subaccounts \ {sub} : x[s] = v[s]
      BY <1>6
    <2> QED
      BY ONLY <1>1, <2>1, SumUpdates, SubaccountsAreFinite
  <1>10. SumOver(y, Subaccounts) = SumOver(w, Subaccounts) - w[sub] + y[sub]
    <2>1. /\ \A s \in Subaccounts : w[s] \in Int /\ y[s] \in Int
          /\ \A s \in Subaccounts \ {sub} : y[s] = w[s]
      BY <1>6
    <2> QED
      BY ONLY <1>1, <2>1, SumUpdates, SubaccountsAreFinite
  <1> QED
    BY <1>3, <1>6, <1>7, <1>8, <1>9, <1>10 DEF sub

LEMMA ExecutionKeepsBooks ==
    ASSUME IInv, BookInv, NEW fill \in Fill, Execute(fill)
    PROVE  BookInv'
  <1>1. /\ history \in Seq(Fill) /\ books \in Seq(Book) /\ Len(books) = Len(history) + 1
        /\ history' = Append(history, fill) /\ books' = Append(books, Booked(LastBook, fill))
        /\ settlement = Unsettled /\ settlement' = Unsettled /\ audit' = audit /\ pc' = pc
        /\ \A i \in DOMAIN history : history[i].id # fill.id
    BY DEF IInv, TypeOK, Execute
  <1>2. LastBook \in Book /\ Len(history) \in Nat
    BY <1>1 DEF LastBook
  <1> DEFINE next == Booked(LastBook, fill)
  <1>3. LastBook' = next
    <2>1. next \in Book /\ books' = Append(books, next)
      BY <1>1, <1>2, BookedIsABook
    <2> HIDE DEF next
    <2>2. Len(history') = Len(history) + 1 /\ books'[Len(books) + 1] = next
      BY <1>1, <1>2, <2>1
    <2>3. LastBook' = books'[Len(history') + 1]
      BY DEF LastBook
    <2>4. Len(books) + 1 = Len(history') + 1
      BY <1>1, <1>2, <2>2
    <2> QED
      BY <2>2, <2>3, <2>4
  <1>4. Happened' = Happened \cup {fill} /\ fill \notin Happened
    <2>1. /\ DOMAIN history' = DOMAIN history \cup {Len(history) + 1}
          /\ history'[Len(history) + 1] = fill
          /\ \A i \in DOMAIN history : history'[i] = history[i]
      BY <1>1, <1>2
    <2>2. Happened' = {history'[i] : i \in DOMAIN history'}
      BY DEF Happened
    <2>3. \A f : f \in Happened' <=> f \in Happened \/ f = fill
      BY <2>1, <2>2 DEF Happened
    <2> QED
      BY <1>1, <2>3 DEF Happened
  <1>5. \A s \in Subaccounts : Part(s)' = IF s = fill.sub THEN Part(s) \cup {fill} ELSE Part(s)
    BY <1>4 DEF Part
  <1>6. fill.sub \in Subaccounts /\ \A s \in Subaccounts : fill \notin Part(s)
    BY <1>4 DEF Part, Fill
  <1>7. next = Booked(LastBook, fill)
    OBVIOUS
  <1> HIDE DEF next
  <1>8. /\ next.longs = LongsOf(next.held) /\ next.shorts = ShortsOf(next.held)
        /\ \A s \in Subaccounts :
              next.held[s] = LastBook.held[s] + (IF s = fill.sub THEN Signed(fill) ELSE 0)
    BY <1>2, <1>7, BookedAddsUp DEF BookInv, BooksAddUp
  <1>9. \A s \in Subaccounts : next.held[s] = NetOf(Part(s)')
    <2> SUFFICES ASSUME NEW s \in Subaccounts PROVE next.held[s] = NetOf(Part(s)')
      OBVIOUS
    <2>1. LastBook.held[s] = NetOf(Part(s)) /\ IsFiniteSet(Part(s)) /\ Part(s) \subseteq Fill
      BY HappenedIsFinite DEF BookInv, BooksAddUp
    <2>2. NetOf(Part(s) \cup {fill}) = NetOf(Part(s)) + Signed(fill) /\ NetOf(Part(s)) \in Int
      BY <1>6, <2>1, OneMoreFill
    <2>3. CASE s = fill.sub
      <3>1. Part(s)' = Part(s) \cup {fill} /\ next.held[s] = LastBook.held[s] + Signed(fill)
        BY <1>5, <1>8, <2>3
      <3> QED
        BY <2>1, <2>2, <3>1
    <2>4. CASE s # fill.sub
      <3>1. Part(s)' = Part(s) /\ next.held[s] = LastBook.held[s] + 0
        BY <1>5, <1>8, <2>4
      <3> QED
        BY <2>1, <2>2, <3>1
    <2> QED
      BY <2>3, <2>4
  <1>10. BooksAddUp'
    BY <1>3, <1>8, <1>9 DEF BooksAddUp, LongsOf, ShortsOf, NetOf, Signed, Count, Long, Short
  <1>11. SettlementPays'
    BY <1>1 DEF SettlementPays
  <1>12. RowIsTheSettlement'
    BY <1>1 DEF BookInv, RowIsTheSettlement
  <1> QED
    BY <1>10, <1>11, <1>12 DEF BookInv

LEMMA SettlingPays ==
    ASSUME IInv, BookInv,
           NEW time \in Times, NEW value \in {0, One}, NEW readable \in BOOLEAN, NEW fee \in SettlementFees,
           SettleMarket(time, value, readable, fee)
    PROVE  BookInv'
  <1> DEFINE quantity == LastBook.longs - LastBook.shorts
             revenue == One * (IF value = One THEN LastBook.longs ELSE LastBook.shorts)
  <1>1. /\ settlement = Unsettled /\ UNCHANGED <<history, books, pc, audit>>
        /\ settlement' = [time |-> time, value |-> value, readable |-> readable, fee |-> fee,
                          quantity |-> quantity, revenue |-> revenue]
    BY DEF SettleMarket
  <1>2. quantity = LastBook.longs - LastBook.shorts
        /\ revenue = One * (IF value = One THEN LastBook.longs ELSE LastBook.shorts)
    OBVIOUS
  <1> HIDE DEF quantity, revenue
  <1>3. settlement'.value = value /\ settlement'.quantity = quantity /\ settlement'.revenue = revenue
    BY <1>1
  <1>4. LastBook' = LastBook /\ Happened' = Happened
    BY <1>1 DEF LastBook, Happened
  <1>5. SettlementPays'
    BY <1>2, <1>3, <1>4 DEF SettlementPays
  <1>6. BooksAddUp'
    BY <1>4 DEF BookInv, BooksAddUp, Part
  <1>7. audit.row = Unsettled
    BY <1>1 DEF BookInv, RowIsTheSettlement
  <1>8. RowIsTheSettlement'
    BY <1>1, <1>7 DEF RowIsTheSettlement
  <1> QED
    BY <1>5, <1>6, <1>8 DEF BookInv

\* The exchange stands still.
LEMMA BooksStand ==
    ASSUME BookInv, UNCHANGED <<history, books, settlement>>
    PROVE  BooksAddUp' /\ SettlementPays' /\ Happened' = Happened
  <1>1. LastBook' = LastBook /\ Happened' = Happened
    BY DEF LastBook, Happened
  <1> QED
    BY <1>1 DEF BookInv, BooksAddUp, SettlementPays, Part

LEMMA ReadingKeepsBooks ==
    ASSUME IInv, BookInv,
           \/ WalkLive \/ WalkBounded \/ WalkArchive \/ ArchiveFails
           \/ SkipReconciliation \/ ReadSettlements \/ ReadPositions
    PROVE  BookInv'
  <1>1. UNCHANGED <<history, books, settlement>> /\ audit \in Audit
    BY DEF IInv, TypeOK, WalkLive, WalkBounded, WalkArchive, ArchiveFails, SkipReconciliation,
           ReadSettlements, ReadPositions, exchange
  <1>2. Happened' = Happened
    BY <1>1, BooksStand
  <1>3. SUFFICES RowIsTheSettlement'
    BY <1>1, BooksStand DEF BookInv
  <1>4. RowIsTheSettlement
    BY DEF BookInv
  <1>5. CASE WalkLive \/ WalkBounded
    <2>1. PICK served :
            /\ served \in Parsed(Live) \/ \E rows \in Newest(Live) : served \in Parsed(rows)
            /\ audit' = [Begun EXCEPT !.fills = served]
      BY <1>5, Zenon DEF WalkLive, WalkBounded
    <2>2. served \in SUBSET Fill
      BY <2>1, ServedAreFills
    <2>3. audit'.row = audit.row
      BY <2>1, <2>2, FirstRead
    <2>4. audit.row = Unsettled
      BY <1>4, <1>5 DEF RowIsTheSettlement, WalkLive, WalkBounded
    <2> QED
      BY <2>3, <2>4 DEF RowIsTheSettlement
  <1>6. CASE WalkArchive \/ ArchiveFails
    <2>1. PICK served :
            \/ audit' = [audit EXCEPT !.fills = audit.fills \cup served, !.complete = TRUE]
            \/ audit' = [audit EXCEPT !.fills = audit.fills \cup served]
      BY <1>6, Zenon DEF WalkArchive, ArchiveFails
    <2>2. audit'.row = audit.row
      BY <1>1, <2>1, Zenon DEF Audit
    <2>3. audit.row = Unsettled
      BY <1>4, <1>6 DEF RowIsTheSettlement, WalkArchive, ArchiveFails
    <2> QED
      BY <2>2, <2>3 DEF RowIsTheSettlement
  <1>7. CASE SkipReconciliation
    BY <1>1, <1>2, <1>4, <1>7 DEF RowIsTheSettlement, SkipReconciliation
  <1>8. CASE ReadSettlements
    <2>1. PICK view \in SettlementViews :
            audit' = [audit EXCEPT !.row = view[1], !.floor = view[2],
                                   !.settled = settlement # Unsettled,
                                   !.whole = Cardinality(audit.fills) = Len(history)]
      BY <1>8 DEF ReadSettlements
    <2> DEFINE settled == settlement # Unsettled
               whole == Cardinality(audit.fills) = Len(history)
               row == view[1]
               floor == view[2]
    <2>2. row = Unsettled \/ row = settlement
      BY DEF SettlementViews
    <2>3. audit' = [audit EXCEPT !.row = row, !.floor = floor, !.settled = settled, !.whole = whole]
      BY <2>1
    <2>4. whole => audit.fills = Happened
      <3>1. audit.fills \in SUBSET Happened
        BY DEF IInv, Happened
      <3>2. /\ IsFiniteSet(Happened) /\ Cardinality(Happened) <= Len(history)
            /\ Cardinality(Happened) \in Nat /\ Len(history) \in Nat
        BY HappenedIsFinite, FS_CardinalityType DEF IInv, TypeOK
      <3>3. /\ Cardinality(audit.fills) <= Cardinality(Happened)
            /\ Cardinality(Happened) = Cardinality(audit.fills) => Happened = audit.fills
        BY <3>1, <3>2, FS_Subset
      <3> QED
        BY <3>2, <3>3
    <2> HIDE DEF settled, whole, row, floor
    <2>5. audit'.row = row /\ audit'.whole = whole /\ audit'.fills = audit.fills
      BY <1>1, <2>3, Zenon DEF Audit
    <2>6. pc' = "positions"
      BY <1>8 DEF ReadSettlements
    <2> QED
      BY <1>1, <1>2, <2>2, <2>4, <2>5, <2>6 DEF RowIsTheSettlement
  <1>9. CASE ReadPositions
    <2>1. pc' = "fills" /\ \E said, quantity : audit' = [audit EXCEPT !.said = said, !.quantity = quantity]
      BY <1>9 DEF ReadPositions
    <2>2. audit'.row = audit.row /\ audit'.whole = audit.whole /\ audit'.fills = audit.fills
      BY <1>1, <2>1, Zenon DEF Audit
    <2> QED
      BY <1>1, <1>2, <1>4, <2>1, <2>2 DEF RowIsTheSettlement
  <1> QED
    BY <1>5, <1>6, <1>7, <1>8, <1>9

LEMMA NextBooks == ASSUME IInv, BookInv, [Next]_vars PROVE BookInv'
  <1>1. CASE UNCHANGED vars
    <2>1. UNCHANGED <<history, books, settlement>> /\ audit' = audit /\ pc' = pc
      BY <1>1 DEF vars
    <2> QED
      BY <2>1, BooksStand DEF BookInv, RowIsTheSettlement
  <1>2. CASE \E fill \in Fill : Execute(fill)
    BY <1>2, ExecutionKeepsBooks
  <1>3. CASE \E time \in Times, value \in {0, One}, readable \in BOOLEAN, fee \in SettlementFees :
                SettleMarket(time, value, readable, fee)
    BY <1>3, SettlingPays
  <1>4. CASE AdvanceCutoff
    <2>1. UNCHANGED <<history, books, settlement>> /\ audit' = audit /\ pc' = pc
      BY <1>4 DEF AdvanceCutoff
    <2> QED
      BY <2>1, BooksStand DEF BookInv, RowIsTheSettlement
  <1>5. CASE \/ WalkLive \/ WalkBounded \/ WalkArchive \/ ArchiveFails
             \/ SkipReconciliation \/ ReadSettlements \/ ReadPositions
    BY <1>5, ReadingKeepsBooks
  <1>6. CASE (\E fill \in todo : ApplyFill(fill)) \/ ApplySettlement \/ AssignAuthority
    <2>1. UNCHANGED <<history, books, settlement>> /\ audit' = audit /\ pc' \in {"fills", "authority", "done"}
      BY <1>6 DEF ApplyFill, ApplySettlement, AssignAuthority, exchange
    <2> QED
      BY <2>1, BooksStand DEF BookInv, RowIsTheSettlement
  <1>7. CASE Restart
    <2>1. UNCHANGED <<history, books, settlement>> /\ audit' = NoAudit
      BY <1>7 DEF Restart, exchange
    <2>2. audit'.row = Unsettled
      BY <2>1 DEF NoAudit
    <2> QED
      BY <2>1, <2>2, BooksStand DEF BookInv, RowIsTheSettlement
  <1> QED
    BY <1>1, <1>2, <1>3, <1>4, <1>5, <1>6, <1>7 DEF Next

LEMMA BooksInductive == Spec => []BookInv
  <1>1. Init => BookInv
    BY InitBooks
  <1>2. IInv /\ BookInv /\ [Next]_vars => BookInv'
    BY NextBooks
  <1> QED
    BY <1>1, <1>2, Inductive, PTL DEF Spec

---------------------------------------------------------------------------
(* The cash, at every step.                                                *)

\* Every ledger is backed by the executions it was replayed from, until its
\* settlement, which pays for what the exchange held; and while it is
\* replayed its position is what they add up to.
SettledInFull(s) ==
    LET E == Episodes(ledgers[s])
        R == Replayed(s)
    IN  CostsKnown(E) /\ PaysFor(s) =>
            AllPriced(R) /\ RealizedOf(E) + PaidFor(R) = LastBook.held[s] * audit.row.value

CashInv ==
    \A s \in Subaccounts :
        /\ IF SettledIn(Episodes(ledgers[s])) THEN SettledInFull(s)
           ELSE Backed(ledgers[s], Episodes(ledgers[s]), Replayed(s))
        /\ pc \in Reads \cup {"fills"} => ledgers[s].position = NetOf(Replayed(s))

\* The next execution leaves averages that are whole numbers of the unit.
AveragesAreExact ==
    \A fill \in todo :
        (\A other \in todo \ {fill} : Before(fill, other)) => ExactFor(ledgers[fill.sub], fill)

LEMMA NothingIsBacked ==
    ASSUME NEW s \in Subaccounts, ledgers[s] = Flat, Replayed(s) = {}
    PROVE  /\ ~SettledIn(Episodes(ledgers[s]))
           /\ Backed(ledgers[s], Episodes(ledgers[s]), Replayed(s))
           /\ ledgers[s].position = NetOf(Replayed(s))
  <1>1. Flat.position = 0
    BY DEF Flat
  <1>2. Backed(Flat, {}, {})
    BY <1>1, NothingHappened DEF Backed, Valued, AllPriced
  <1> QED
    BY <1>1, <1>2, NothingCounts, NothingHappened

\* The row's payout, of a subaccount that holds all there is: what each of
\* its contracts paid, whichever side they are on.
LEMMA PayoutOfHeld ==
    ASSUME IInv, BookInv, CashInv, NEW s \in Subaccounts, PaysFor(s), pc = "fills", todo = {},
           audit.row # Unsettled, ~Refuses(ledgers[s], audit.row),
           NEW p, p = ledgers[s].position
    PROVE  (IF p > 0 THEN audit.row.revenue ELSE audit.row.revenue + One * p)
              = LastBook.held[s] * audit.row.value
  <1> DEFINE h == LastBook.held[s]
             row == audit.row
             v == [t \in Subaccounts |-> Long(LastBook.held[t])]
             w == [t \in Subaccounts |-> Short(LastBook.held[t])]
  <1>1. LastBook \in Book /\ row \in Settlement /\ row = settlement
    BY DEF IInv, TypeOK, LastBook, BookInv, RowIsTheSettlement, Audit
  <1>2. h \in Int /\ row.value \in {0, One} /\ One \in Int /\ p \in Int
    BY <1>1, EpisodesOf, MoneyIsWhole DEF Book, Settlement, IInv, MarketLedger
  <1>3. \A t \in Subaccounts \ {s} : v[t] = 0 /\ w[t] = 0
    BY DEF PaysFor, Long, Short
  <1>4. /\ LastBook.longs = SumOver(v, Subaccounts) /\ LastBook.shorts = SumOver(w, Subaccounts)
        /\ v[s] = Long(h) /\ w[s] = Short(h) /\ Long(h) \in Int /\ Short(h) \in Int
    BY <1>2 DEF BookInv, BooksAddUp, LongsOf, ShortsOf, Long, Short
  <1> DEFINE longs == LastBook.longs
             shorts == LastBook.shorts
  <1>5. longs = Long(h) /\ shorts = Short(h)
    <2> HIDE DEF v, w
    <2>1. SumOver(v, Subaccounts) = v[s]
      BY <1>3, <1>4, SumOfOne, SubaccountsAreFinite
    <2>2. SumOver(w, Subaccounts) = w[s]
      BY <1>3, <1>4, SumOfOne, SubaccountsAreFinite
    <2> QED
      BY <1>4, <2>1, <2>2
  <1>6. /\ row.quantity = longs - shorts
        /\ row.revenue = One * (IF row.value = One THEN longs ELSE shorts)
    BY <1>1 DEF BookInv, SettlementPays
  <1>7. p = h /\ p # 0
    <2>1. p # 0 /\ (row.readable => row.quantity = p)
      BY DEF Refuses
    <2>2. CASE row.readable
      BY <1>2, <1>5, <1>6, <2>1, <2>2 DEF Long, Short
    <2>3. CASE audit.whole
      <3>1. audit.fills = Happened
        BY <2>3 DEF BookInv, RowIsTheSettlement
      <3>2. Replayed(s) = Part(s)
        BY <3>1 DEF Replayed, Part, Reads
      <3>3. p = NetOf(Replayed(s))
        BY DEF CashInv
      <3>4. h = NetOf(Part(s))
        BY DEF BookInv, BooksAddUp
      <3> QED
        BY <2>1, <3>2, <3>3, <3>4
    <2> QED
      BY <2>2, <2>3 DEF PaysFor
  <1> HIDE DEF h, row, longs, shorts
  <1>8. CASE h > 0
    <2>1. longs = h /\ shorts = 0
      BY <1>2, <1>5, <1>8 DEF Long, Short
    <2>2. CASE row.value = One
      BY <1>2, <1>6, <1>7, <1>8, <2>1, <2>2 DEF h, row
    <2>3. CASE row.value # One
      <3>1. row.value = 0 /\ row.revenue = 0
        BY <1>2, <1>6, <2>1, <2>3
      <3> QED
        BY <1>2, <1>7, <1>8, <3>1 DEF h, row
    <2> QED
      BY <2>2, <2>3
  <1>9. CASE h < 0
    <2>1. longs = 0 /\ shorts = -h
      BY <1>2, <1>5, <1>9 DEF Long, Short
    <2>2. CASE row.value = One
      BY <1>2, <1>6, <1>7, <1>9, <2>1, <2>2 DEF h, row
    <2>3. CASE row.value # One
      <3>1. row.value = 0 /\ row.revenue = One * (-h)
        BY <1>2, <1>6, <2>1, <2>3
      <3>2. One * (-h) + One * h = 0 /\ h * 0 = 0
        BY <1>2
      <3> QED
        BY <1>2, <1>7, <1>9, <3>1, <3>2 DEF h, row
    <2> QED
      BY <2>2, <2>3
  <1> QED
    BY <1>2, <1>7, <1>8, <1>9

LEMMA InitIsBacked == Init => CashInv
  <1> SUFFICES ASSUME Init PROVE CashInv
    OBVIOUS
  <1>1. \A s \in Subaccounts : ledgers[s] = Flat /\ Replayed(s) = {}
    BY DEF Init, Replayed, Reads
  <1> QED
    BY <1>1, NothingIsBacked DEF CashInv

LEMMA NextIsBacked ==
    ASSUME IInv, FeesInv, BookInv, CashInv, AveragesAreExact, [Next]_vars
    PROVE  CashInv'
  <1>1. \A s \in Subaccounts : Sound(ledgers[s]) /\ Sound(ledgers'[s])
    BY NextIsSound DEF IInv
  <1>2. ledgers \in [Subaccounts -> MarketLedger] /\ audit.row \in Settlement \cup {Unsettled}
    BY DEF IInv, TypeOK, Audit
  <1>3. CASE UNCHANGED vars
    BY <1>3 DEF vars, CashInv, SettledInFull, PaysFor, LastBook, Replayed
  <1>4. CASE ReplayIsEmpty
    <2>1. \A s \in Subaccounts : ledgers'[s] = Flat /\ Replayed(s)' = {}
      BY <1>4 DEF ReplayIsEmpty
    <2>2. Flat.position = 0 /\ Backed(Flat, {}, {})
      BY NothingHappened DEF Flat, Backed, Valued, AllPriced
    <2> QED
      BY <2>1, <2>2, NothingCounts, NothingHappened DEF CashInv
  <1>5. CASE \E fill \in Fill : ReplayApplies(fill)
    <2>1. PICK fill \in Fill : ReplayApplies(fill)
      BY <1>5
    <2>2. /\ pc = "fills" /\ pc' = "fills" /\ fill.sub \in Subaccounts
          /\ \A f \in Replayed(fill.sub) : f.id # fill.id
          /\ ExactFor(ledgers[fill.sub], fill)
      BY <2>1 DEF ReplayApplies, AveragesAreExact
    <2> SUFFICES ASSUME NEW s \in Subaccounts
                 PROVE  /\ ~SettledIn(Episodes(ledgers'[s]))
                        /\ Backed(ledgers'[s], Episodes(ledgers'[s]), Replayed(s)')
                        /\ ledgers'[s].position = NetOf(Replayed(s)')
      BY <2>2 DEF CashInv
    <2>3. /\ MadeOf(Episodes(ledgers[s]), Replayed(s)) /\ ~SettledIn(Episodes(ledgers[s]))
      BY <2>2 DEF FeesInv
    <2>4. /\ Backed(ledgers[s], Episodes(ledgers[s]), Replayed(s))
          /\ ledgers[s].position = NetOf(Replayed(s))
      BY <2>2, <2>3 DEF CashInv
    <2>5. CASE s # fill.sub
      <3>1. ledgers'[s] = ledgers[s] /\ Replayed(s)' = Replayed(s)
        BY <1>2, <2>1, <2>5 DEF ReplayApplies
      <3> QED
        BY <2>3, <2>4, <3>1
    <2>6. CASE s = fill.sub
      <3> DEFINE l == ledgers'[s]
                 ledger == ledgers[s]
                 R == Replayed(s)
      <3>1. l = Applied(ledger, fill) /\ Replayed(s)' = R \cup {fill}
        BY <1>2, <2>1, <2>6 DEF ReplayApplies
      <3>2. /\ Sound(ledger) /\ Sound(l) /\ ExactFor(ledger, fill) /\ \A f \in R : f.id # fill.id
            /\ MadeOf(Episodes(ledger), R) /\ ~SettledIn(Episodes(ledger))
            /\ Backed(ledger, Episodes(ledger), R) /\ ledger.position = NetOf(R)
        BY <1>1, <2>2, <2>3, <2>4, <2>6
      <3> SUFFICES /\ ~SettledIn(Episodes(l)) /\ Backed(l, Episodes(l), R \cup {fill})
                   /\ l.position = NetOf(R \cup {fill})
        BY <3>1
      <3> HIDE DEF l, ledger, R
      <3>3. ~SettledIn(Episodes(l))
        BY <3>1, <3>2, AppliedUnsettled
      <3>4. Backed(l, Episodes(l), R \cup {fill})
        BY <3>1, <3>2, AppliedBacked
      <3>5. l.position = ledger.position + Signed(fill)
        BY <3>1, <3>2, EpisodesOf, ApplyingMoney
      <3>6. IsFiniteSet(R) /\ R \subseteq Fill /\ fill \notin R
        BY <3>2 DEF MadeOf
      <3>7. NetOf(R \cup {fill}) = NetOf(R) + Signed(fill)
        BY <3>6, OneMoreFill
      <3> QED
        BY <3>2, <3>3, <3>4, <3>5, <3>7
    <2> QED
      BY <2>5, <2>6
  <1>6. ASSUME pc' \notin Reads \cup {"fills"}, UNCHANGED <<books, history, audit>>,
               \A s \in Subaccounts : Replayed(s)' = Replayed(s),
               NEW s \in Subaccounts, NEW m, Remarks(m, ledgers'[s], ledgers[s])
        PROVE  IF SettledIn(Episodes(ledgers'[s])) THEN SettledInFull(s)'
               ELSE Backed(ledgers'[s], Episodes(ledgers'[s]), Replayed(s)')
    <2>1. IsFiniteSet(Episodes(ledgers[s]))
      BY DEF FeesInv, MadeOf
    <2>2. /\ RealizedOf(Episodes(ledgers'[s])) = RealizedOf(Episodes(ledgers[s]))
          /\ CostsKnown(Episodes(ledgers'[s])) <=> CostsKnown(Episodes(ledgers[s]))
          /\ SettledIn(Episodes(ledgers'[s])) <=> SettledIn(Episodes(ledgers[s]))
          /\ \A R : Backed(ledgers[s], Episodes(ledgers[s]), R)
                       => Backed(ledgers'[s], Episodes(ledgers'[s]), R)
      BY <1>1, <1>6, <2>1, MarkedRealized
    <2>3. Replayed(s)' = Replayed(s)
      BY <1>6
    <2>4. LastBook' = LastBook /\ (PaysFor(s)' <=> PaysFor(s)) /\ audit' = audit
      BY <1>6 DEF LastBook, PaysFor
    <2>5. CASE SettledIn(Episodes(ledgers[s]))
      <3>1. SettledInFull(s)
        BY <2>5 DEF CashInv
      <3>2. SettledInFull(s)'
        BY <2>2, <2>3, <2>4, <3>1 DEF SettledInFull
      <3> QED
        BY <2>2, <2>5, <3>2
    <2>6. CASE ~SettledIn(Episodes(ledgers[s]))
      <3>1. Backed(ledgers[s], Episodes(ledgers[s]), Replayed(s))
        BY <2>6 DEF CashInv
      <3> QED
        BY <2>2, <2>3, <2>6, <3>1
    <2> QED
      BY <2>5, <2>6
  <1>7. CASE ReplaySettles
    <2>1. /\ pc = "fills" /\ todo = {} /\ pc' \notin Reads \cup {"fills"}
          /\ UNCHANGED <<books, history, audit>>
          /\ \A s \in Subaccounts : SettlesOrNot(s) /\ Replayed(s)' = Replayed(s)
      BY <1>7 DEF ReplaySettles, Reads
    <2> SUFFICES ASSUME NEW s \in Subaccounts
                 PROVE  IF SettledIn(Episodes(ledgers'[s])) THEN SettledInFull(s)'
                        ELSE Backed(ledgers'[s], Episodes(ledgers'[s]), Replayed(s)')
      BY <2>1 DEF CashInv
    <2>2. SettlesOrNot(s) /\ Replayed(s)' = Replayed(s)
      BY <2>1
    <2>3. CASE ledgers'[s] = ledgers[s] \/ ledgers'[s] = Unresolved(ledgers[s])
      <3>1. PICK m : Remarks(m, ledgers'[s], ledgers[s])
        BY <1>1, <2>3, UnresolvedMoney
      <3> QED
        BY <1>6, <2>1, <3>1
    <2>4. CASE audit.row # Unsettled /\ ~Refuses(ledgers[s], audit.row)
               /\ ledgers'[s] = Settled(ledgers[s], audit.row)
      <3>1. ledgers[s].position # 0 /\ audit.row \in Settlement
        BY <1>2, <2>4 DEF Refuses
      <3>2. /\ MadeOf(Episodes(ledgers[s]), Replayed(s)) /\ ~SettledIn(Episodes(ledgers[s]))
            /\ Counted(Episodes(ledgers[s]), Replayed(s), 0)
        BY <2>1 DEF FeesInv, SettlementFee
      <3>3. Backed(ledgers[s], Episodes(ledgers[s]), Replayed(s))
        BY <3>2 DEF CashInv
      <3>4. SettledIn(Episodes(ledgers'[s]))
        BY <1>1, <2>4, <3>1, <3>2, SettledCounts
      <3>5. CostsKnown(Episodes(ledgers'[s])) =>
               /\ AllPriced(Replayed(s))
               /\ RealizedOf(Episodes(ledgers'[s])) + PaidFor(Replayed(s))
                     = IF ledgers[s].position > 0 THEN audit.row.revenue
                       ELSE audit.row.revenue + One * ledgers[s].position
        BY <1>1, <2>4, <3>1, <3>2, <3>3, SettledBacked
      <3>6. LastBook' = LastBook /\ (PaysFor(s)' <=> PaysFor(s)) /\ audit' = audit
        BY <2>1 DEF LastBook, PaysFor
      <3>7. PaysFor(s) =>
               (IF ledgers[s].position > 0 THEN audit.row.revenue
                ELSE audit.row.revenue + One * ledgers[s].position)
                  = LastBook.held[s] * audit.row.value
        BY <2>1, <2>4, PayoutOfHeld
      <3>8. SettledInFull(s)'
        BY <2>2, <3>5, <3>6, <3>7 DEF SettledInFull
      <3> QED
        BY <3>4, <3>8
    <2> QED
      BY <2>2, <2>3, <2>4 DEF SettlesOrNot
  <1>8. CASE ReplayMarks
    <2>1. /\ pc' \notin Reads \cup {"fills"} /\ UNCHANGED <<books, history, audit>>
          /\ \A s \in Subaccounts : ledgers'[s] = Authorised(ledgers[s]) /\ Replayed(s)' = Replayed(s)
      BY <1>8 DEF ReplayMarks, Reads
    <2> SUFFICES ASSUME NEW s \in Subaccounts
                 PROVE  IF SettledIn(Episodes(ledgers'[s])) THEN SettledInFull(s)'
                        ELSE Backed(ledgers'[s], Episodes(ledgers'[s]), Replayed(s)')
      BY <2>1 DEF CashInv
    <2>2. PICK m : Remarks(m, ledgers'[s], ledgers[s])
      BY <1>1, <2>1, AuthorisedMoney
    <2> QED
      BY <1>6, <2>1, <2>2
  <1> QED
    BY <1>3, <1>4, <1>5, <1>7, <1>8, ReplayCases

\* Realized P&L is the cash the executions and the settlement moved, wherever
\* every cost basis is claimed complete and the averages are whole numbers of
\* the unit (position.py: _realized, _increase, apply_settlement).
THEOREM CashIsConserved == Spec /\ []AveragesAreExact => []CashConserved
  <1>1. Init => CashInv
    BY InitIsBacked
  <1>2. IInv /\ FeesInv /\ BookInv /\ CashInv /\ AveragesAreExact /\ [Next]_vars => CashInv'
    BY NextIsBacked
  <1>3. ASSUME FeesInv, CashInv PROVE CashConserved
    <2> SUFFICES ASSUME NEW s \in Subaccounts
                 PROVE  LET ledger == ledgers[s]
                            realized == [e \in Episodes(ledger) |-> e.realized]
                            paid == [f \in Replayed(s) |-> Signed(f) * Price(f)]
                            settled == \E e \in Episodes(ledger) : e.closedBy = "settlement"
                            remains == IF settled THEN LastBook.held[s] * audit.row.value
                                       ELSE IF ledger.position = 0 THEN 0 ELSE ledger.position * ledger.average
                        IN  (\A e \in Episodes(ledger) : e.costComplete) /\ (settled => PaysFor(s)) =>
                                /\ \A fill \in Replayed(s) : Price(fill) # None
                                /\ SumOver(realized, Episodes(ledger)) + SumOver(paid, Replayed(s)) = remains
      BY DEF CashConserved
    <2> DEFINE E == Episodes(ledgers[s])
               R == Replayed(s)
               realized == [e \in E |-> e.realized]
               paid == [f \in R |-> Signed(f) * Price(f)]
               v == [e \in Episode |-> e.realized]
               w == [f \in Fill |-> Signed(f) * Price(f)]
    <2>1. /\ IsFiniteSet(E) /\ E \subseteq Episode /\ IsFiniteSet(R) /\ R \subseteq Fill
          /\ IF SettledIn(E) THEN SettledInFull(s) ELSE Backed(ledgers[s], E, R)
      BY <1>3 DEF FeesInv, MadeOf, CashInv
    <2>2. RealizedOf(E) = SumOver(v, E) /\ PaidFor(R) = SumOver(w, R)
      BY DEF RealizedOf, PaidFor
    <2>3. SumOver(realized, E) = RealizedOf(E)
      <3>1. \A e \in E : realized[e] = v[e]
        BY <2>1
      <3> HIDE DEF E, R, realized, v, w
      <3> QED
        BY <2>1, <2>2, <3>1, SumOfEquals
    <2>4. SumOver(paid, R) = PaidFor(R)
      <3>1. \A f \in R : paid[f] = w[f]
        BY <2>1
      <3> HIDE DEF E, R, paid, v, w
      <3> QED
        BY <2>1, <2>2, <3>1, SumOfEquals
    <2>5. CASE SettledIn(E)
      <3>1. CostsKnown(E) /\ PaysFor(s) =>
               AllPriced(R) /\ RealizedOf(E) + PaidFor(R) = LastBook.held[s] * audit.row.value
        BY <2>1, <2>5 DEF SettledInFull
      <3> QED
        BY <2>3, <2>4, <2>5, <3>1 DEF CostsKnown, AllPriced, SettledIn
    <2>6. CASE ~SettledIn(E)
      <3>1. CostsKnown(E) => AllPriced(R) /\ RealizedOf(E) + PaidFor(R) = Valued(ledgers[s])
        BY <2>1, <2>6 DEF Backed
      <3> QED
        BY <2>3, <2>4, <2>6, <3>1 DEF CostsKnown, AllPriced, SettledIn, Valued
    <2> QED
      BY <2>5, <2>6
  <1> QED
    BY <1>1, <1>2, <1>3, Inductive, FeesInductive, BooksInductive, PTL DEF Spec
=============================================================================
